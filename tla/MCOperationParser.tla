------------------------- MODULE MCOperationParser -------------------------
(* OperationParser with the tags the Wallet allows.                        *)
EXTENDS OperationParser

WalletTags == Tag

=============================================================================
