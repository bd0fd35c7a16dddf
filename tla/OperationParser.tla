-------------------------- MODULE OperationParser --------------------------
(***************************************************************************)
(* parse_byte (src/operations.c): the state machine that reads a group of  *)
(* operations before the user is asked to sign it, and the struct that     *)
(* prompts display.  The machine takes one byte at a time and may stop     *)
(* between any two; a step here reads one or more whole fields, and a      *)
(* message that ends inside a field leaves the machine at a step that      *)
(* parse_operations_final does not accept, as it does here.                *)
(*                                                                         *)
(* Of the fields, counter, gas limit, block hash and the contents of votes *)
(* are read and dropped or copied.  An address is a model value; lengths   *)
(* and Michelson instructions are the names they have in the source.  A    *)
(* message that is refused anywhere leaves "fail", with what it had stored *)
(* by then in out; the operations read are then forgotten.                 *)
(***************************************************************************)
EXTENDS Integers, Sequences

CONSTANTS
    Tz,             \* implicit accounts
    Kt,             \* originated contracts
    NoAddress,
    me,             \* the account of the signing key
    Allowed,        \* the tags is_operation_allowed accepts
    Word,           \* 2^64: totals are kept modulo this
    MaxOperations   \* bound on the operations of a group

Address == Tz \cup Kt

ASSUME AddressAssumption ==
    Tz \cap Kt = {} /\ NoAddress \notin Address /\ me \in Tz
ASSUME NumberAssumption ==
    Word \in Nat \ {0, 1} /\ MaxOperations \in Nat

Reveals == {"ATHENS_REVEAL", "BABYLON_REVEAL"}
Delegations == {"ATHENS_DELEGATION", "BABYLON_DELEGATION"}
Transactions == {"ATHENS_TRANSACTION", "BABYLON_TRANSACTION"}
Originations == {"ATHENS_ORIGINATION", "BABYLON_ORIGINATION"}
Votes == {"PROPOSAL", "BALLOT"}
Athens == {"ATHENS_REVEAL", "ATHENS_DELEGATION", "ATHENS_TRANSACTION",
           "ATHENS_ORIGINATION"}
Tag == Reveals \cup Delegations \cup Transactions \cup Originations \cup Votes

\* What the Baking app allows; the Wallet allows every tag.
BakingTags == Reveals \cup Delegations

ASSUME AllowedAssumption == Allowed \in {Tag, BakingTags}

Number == 0 .. Word - 1

VARIABLES
    step,       \* op_step, named; "end" is STEP_END_OF_MESSAGE
    at,         \* position in a chain of literal instructions
    tag,        \* the tag of the operation being read
    out,        \* parsed_operation_group
    written,    \* auxiliary: the operation being read, as it was written
    group       \* auxiliary: the operations read so far, as written

vars == <<step, at, tag, out, written, group>>

-----------------------------------------------------------------------------
(* Parsed contracts: text is hash_ptr, typed a signature_type that is set. *)

parsed_contract == [originated : BOOLEAN, typed : BOOLEAN,
                    hash : Address \cup {NoAddress},
                    text : Address \cup {NoAddress}]

NoContract == [originated |-> FALSE, typed |-> FALSE,
               hash |-> NoAddress, text |-> NoAddress]

parse_implicit(c, a) ==
    [c EXCEPT !.originated = FALSE, !.typed = TRUE, !.hash = a]

parse_contract(c, a) ==
    IF a \in Kt
    THEN [c EXCEPT !.originated = TRUE, !.typed = FALSE, !.hash = a]
    ELSE parse_implicit(c, a)

signing == parse_implicit(NoContract, me)

\* parsed_contract_to_string; a contract whose flags and hash disagree reads
\* as an address nobody has.
Shown(c) ==
    IF c.text # NoAddress THEN c.text
    ELSE IF ~c.originated /\ ~c.typed THEN NoAddress
    ELSE IF c.originated = (c.hash \in Kt) THEN c.hash ELSE "garbled"

-----------------------------------------------------------------------------

\* parse_operations_init, and what a new message has written.
FreshOut == [tag |-> "NONE", source |-> signing, destination |-> NoContract,
             amount |-> 0, total_fee |-> 0, total_storage_limit |-> 0,
             has_reveal |-> FALSE, is_manager_tz_operation |-> FALSE]

Unwritten == [tag |-> "NONE", source |-> NoAddress, fee |-> 0, storage |-> 0,
              key |-> me, to |-> NoAddress, amount |-> 0, script |-> << >>,
              inner |-> NoAddress, moved |-> 0]

Init ==
    /\ step = "header" /\ at = 1 /\ tag = "NONE"
    /\ out = FreshOut
    /\ written = Unwritten /\ group = << >>

parse_operations_init ==
    /\ step' = "header" /\ at' = 1 /\ tag' = "NONE"
    /\ out' = FreshOut
    /\ written' = Unwritten /\ group' = << >>

Goto(next) == step' = next /\ at' = 1

\* PARSE_ERROR: STEP_HARD_FAIL refuses every byte from then on.
parse_error ==
    /\ Goto("fail")
    /\ written' = Unwritten /\ group' = << >>

\* The last field of an operation was read.
Complete(operation, next) ==
    /\ Goto(next)
    /\ group' = Append(group, operation)
    /\ written' = Unwritten

-----------------------------------------------------------------------------
(* Header, tag, source and manager fields.                                 *)

\* The Wallet also takes messages of another magic byte, which are refused.
read_header ==
    /\ step = "header"
    /\ \/ Goto("top") /\ UNCHANGED <<written, group>>
       \/ parse_error
    /\ UNCHANGED <<tag, out>>

read_tag(t) ==
    /\ step = "top" /\ Len(group) < MaxOperations
    /\ tag' = t
    /\ IF t \in Allowed
       THEN /\ Goto("source")
            /\ written' = [written EXCEPT !.tag = t]
            /\ UNCHANGED group
       ELSE parse_error
    /\ UNCHANGED out

\* Only the Athens tags write a source that may be originated.
read_source(a) ==
    /\ step = "source"
    /\ a \in IF tag \in Athens THEN Address ELSE Tz
    /\ out' = [out EXCEPT !.source = parse_contract(@, a)]
    /\ Goto(IF tag \in Votes THEN "contents" ELSE "manager")
    /\ written' = [written EXCEPT !.source = a]
    /\ UNCHANGED <<tag, group>>

\* Wrong: the fields of a reveal are not counted.
fields_wrongly_uncounted(fee, storage) ==
    /\ step = "manager"
    /\ out' = IF tag \in Reveals THEN out
              ELSE [out EXCEPT
                      !.total_fee = (@ + fee) % Word,
                      !.total_storage_limit = (@ + storage) % Word]
    /\ Goto(IF tag \in Reveals THEN "public_key" ELSE "contents")
    /\ written' = [written EXCEPT !.fee = fee, !.storage = storage]
    /\ UNCHANGED <<tag, group>>

read_manager_fields(fee, storage) ==
    /\ step = "manager"
    /\ out' = [out EXCEPT
                 !.total_fee = (@ + fee) % Word,
                 !.total_storage_limit = (@ + storage) % Word]
    /\ Goto(IF tag \in Reveals THEN "public_key" ELSE "contents")
    /\ written' = [written EXCEPT !.fee = fee, !.storage = storage]
    /\ UNCHANGED <<tag, group>>

read_public_key(key) ==
    /\ step = "public_key"
    /\ IF key = me
       THEN /\ out' = [out EXCEPT !.has_reveal = TRUE]
            /\ Complete([written EXCEPT !.key = key], "top")
       ELSE parse_error /\ UNCHANGED out
    /\ UNCHANGED tag

-----------------------------------------------------------------------------
(* STEP_AFTER_MANAGER_FIELDS, passed when the first byte of the contents   *)
(* arrives, and the contents.                                              *)

\* Wrong: any implicit account is taken for the signer's.
source_wrongly_unchecked(c) == c.originated \/ c.typed

source_accepted(c) == c.originated \/ c = signing

\* Wrong: a second operation is not noticed.
admitted_wrongly_again ==
    /\ step = "contents"
    /\ source_accepted(out.source)

admitted ==
    /\ step = "contents"
    /\ out.tag = "NONE"
    /\ source_accepted(out.source)

not_admitted ==
    /\ step = "contents" /\ ~admitted
    /\ out' = [out EXCEPT !.tag = IF @ = "NONE" THEN tag ELSE @]
    /\ parse_error
    /\ UNCHANGED tag

read_vote ==
    /\ admitted /\ tag \in Votes
    /\ out' = [out EXCEPT !.tag = tag]
    /\ Complete(written, "end")
    /\ UNCHANGED tag

read_delegate(a) ==
    /\ admitted /\ tag \in Delegations
    /\ out' = [out EXCEPT
                 !.tag = tag,
                 !.destination =
                     IF a = NoAddress
                     THEN [@ EXCEPT !.originated = FALSE, !.typed = FALSE]
                     ELSE parse_implicit(@, a)]
    /\ Complete([written EXCEPT !.to = a], "top")
    /\ UNCHANGED tag

\* A vote other than yea, nay or pass, a proposal of several hashes, and every
\* origination: their scripts are not parsed.
read_unsupported ==
    /\ admitted /\ tag \in Votes \cup Originations
    /\ out' = [out EXCEPT !.tag = tag]
    /\ parse_error
    /\ UNCHANGED tag

\* Amount, destination and the flag that says parameters follow; those of a
\* transaction that moves tez itself are refused.
read_transfer(amount, a, params) ==
    /\ admitted /\ tag \in Transactions
    /\ LET to == parse_contract(out.destination, a)
           sent == [out EXCEPT !.tag = tag, !.amount = amount,
                               !.destination = to]
           called == [sent EXCEPT !.is_manager_tz_operation = TRUE,
                                  !.source = to]
           said == [written EXCEPT !.to = a, !.amount = amount]
       IN  \/ ~params /\ out' = sent /\ Complete(said, "top")
           \/ ~params /\ out' = sent /\ parse_error     \* an unknown flag
           \/ /\ params /\ amount = 0
              /\ out' = called
              /\ Goto("begin") /\ written' = said /\ UNCHANGED group
           \/ params /\ amount > 0 /\ out' = called /\ parse_error
    /\ UNCHANGED tag

\* An account whose curve is none of the three, wherever one is read.
read_unknown_curve(amount) ==
    /\ \/ /\ step = "source"
          /\ out' = [out EXCEPT !.source.originated = FALSE]
       \/ step = "public_key" /\ UNCHANGED out
       \/ /\ admitted /\ tag \in Delegations
          /\ out' = [out EXCEPT !.tag = tag, !.destination.originated = FALSE]
       \/ /\ admitted /\ tag \in Transactions
          /\ out' = [out EXCEPT !.tag = tag, !.amount = amount,
                                !.destination.originated = FALSE]
    /\ parse_error
    /\ UNCHANGED tag

-----------------------------------------------------------------------------
(* Parameters: the scripts of manager.tz.                                  *)

\* The literal instructions of each chain, and the step after the last.
\* ARGUMENT_LENGTH and SEQUENCE_LENGTH stand for lengths that agree, numbers
\* for the lengths of nested sequences.
Guarded == << "SEQUENCE", "21", "IF_NONE", "SEQUENCE", "9", "SEQUENCE", "4",
              "UNIT", "FAILWITH", "SEQUENCE", "0", "PUSH", "MUTEZ", "ZERO" >>

Chain ==
    [begin        |-> << "DO", "ARGUMENT_LENGTH", "SEQUENCE", "SEQUENCE_LENGTH",
                         "DROP", "NIL", "OPERATION" >>,
     set_delegate |-> << "SET_DELEGATE" >>,
     no_delegate  |-> << "KEY_HASH", "SET_DELEGATE" >>,
     to_implicit  |-> << "PUSH", "MUTEZ", "ZERO" >>,
     to_contract  |-> << "CONTRACT_UNIT" >> \o Guarded,
     to_default   |-> << "CONTRACT_UNIT", "DEFAULT" >> \o Guarded,
     transfer     |-> << "UNIT", "TRANSFER_TOKENS" >>,
     close        |-> << "CONS" >>]

After ==
    [begin |-> "first", set_delegate |-> "close", no_delegate |-> "close",
     to_implicit |-> "mutez", to_contract |-> "mutez", to_default |-> "mutez",
     transfer |-> "close", close |-> "end"]

\* Where one instruction decides what follows.  (The code looks at "fourth"
\* once it has read the type that comes next.)
Branch ==
    [first   |-> [PUSH |-> "second", NONE |-> "no_delegate"],
     second  |-> [KEY_HASH |-> "key_hash", ADDRESS |-> "address"],
     third   |-> [SOME |-> "set_delegate", IMPLICIT_ACCOUNT |-> "to_implicit"],
     fourth  |-> [CONTRACT |-> "to_contract",
                  CONTRACT_WITH_ENTRYPOINT |-> "to_default"]]

Scripted(code) == [written EXCEPT !.script = Append(@, code)]

\* Wrong: a dropped delegate leaves the contract as the destination.
effect_wrongly_kept(chain, o) ==
    CASE chain = "set_delegate" ->
            [o EXCEPT !.tag = "BABYLON_DELEGATION",
                      !.destination.originated = TRUE]
      [] chain = "no_delegate" -> [o EXCEPT !.tag = "BABYLON_DELEGATION"]
      [] chain = "transfer" -> [o EXCEPT !.tag = "BABYLON_TRANSACTION"]
      [] OTHER -> o

\* What the last instruction of a chain makes of the operation.
Effect(chain, o) ==
    CASE chain = "set_delegate" ->
            [o EXCEPT !.tag = "BABYLON_DELEGATION",
                      !.destination.originated = TRUE]
      [] chain = "no_delegate" ->
            [o EXCEPT !.tag = "BABYLON_DELEGATION",
                      !.destination.originated = FALSE,
                      !.destination.typed = FALSE]
      [] chain = "transfer" -> [o EXCEPT !.tag = "BABYLON_TRANSACTION"]
      [] OTHER -> o

read_literal(code) ==
    /\ step \in DOMAIN Chain
    /\ code = Chain[step][at]
    /\ IF at < Len(Chain[step])
       THEN /\ at' = at + 1
            /\ written' = Scripted(code)
            /\ UNCHANGED <<step, out, group>>
       ELSE /\ out' = Effect(step, out)
            /\ IF After[step] = "end"
               THEN Complete(Scripted(code), "end")
               ELSE /\ Goto(After[step])
                    /\ written' = Scripted(code)
                    /\ UNCHANGED group
    /\ UNCHANGED tag

read_branch(code) ==
    /\ step \in DOMAIN Branch
    /\ code \in DOMAIN Branch[step]
    /\ Goto(Branch[step][code])
    /\ written' = Scripted(code)
    /\ UNCHANGED <<tag, out, group>>

\* Anything else is refused; the length of the argument may be anything.
read_other_code ==
    /\ step \in DOMAIN Chain \cup DOMAIN Branch
    /\ ~(step = "begin" /\ at = 2)
    /\ parse_error
    /\ UNCHANGED <<tag, out>>

\* michelson_read_address of a string.
read_address(a) ==
    /\ step \in {"key_hash", "address"}
    /\ out' = [out EXCEPT !.destination.text = a,
                          !.destination.originated = FALSE,
                          !.destination.typed = FALSE]
    /\ Goto(IF step = "key_hash" THEN "third" ELSE "fourth")
    /\ written' = [Scripted("<address>") EXCEPT !.inner = a]
    /\ UNCHANGED <<tag, group>>

\* The same of a byte sequence: the case that reads the curve falls through to
\* the one that reads the hash with the same byte, each restarts the other,
\* and no byte ever completes the address.  Other types, and other lengths, are
\* refused.
read_address_bytes ==
    /\ step \in {"key_hash", "address"}
    /\ \/ Goto("unread") /\ UNCHANGED <<written, group>>
       \/ parse_error
    /\ UNCHANGED <<tag, out>>

read_mutez(amount) ==
    /\ step = "mutez"
    /\ out' = [out EXCEPT !.amount = amount]
    /\ Goto("transfer")
    /\ written' = [Scripted("<amount>") EXCEPT !.moved = amount]
    /\ UNCHANGED <<tag, group>>

\* Wrong: the end of the message is not an end.
end_wrongly_read ==
    /\ step = "end"
    /\ Goto("top")
    /\ UNCHANGED <<tag, out, written, group>>

\* STEP_END_OF_MESSAGE and STEP_HARD_FAIL take no further byte.
read_past_end ==
    /\ step \in {"end", "fail"}
    /\ parse_error
    /\ UNCHANGED <<tag, out>>

Code == (UNION {{Chain[c][i] : i \in DOMAIN Chain[c]} : c \in DOMAIN Chain})
        \cup (UNION {DOMAIN Branch[b] : b \in DOMAIN Branch})

Next ==
    \/ read_header
    \/ \E t \in Tag : read_tag(t)
    \/ \E a \in Address : read_source(a) \/ read_address(a)
    \/ \E fee, storage \in Number : read_manager_fields(fee, storage)
    \/ \E key \in Tz : read_public_key(key)
    \/ not_admitted
    \/ read_vote
    \/ \E a \in Tz \cup {NoAddress} : read_delegate(a)
    \/ read_unsupported
    \/ \E amount \in Number, a \in Address, params \in BOOLEAN :
          read_transfer(amount, a, params)
    \/ \E code \in Code : read_literal(code) \/ read_branch(code)
    \/ read_other_code
    \/ read_address_bytes
    \/ \E amount \in Number : read_mutez(amount) \/ read_unknown_curve(amount)
    \/ read_past_end
    \/ parse_operations_init

Spec == Init /\ [][Next]_vars

-----------------------------------------------------------------------------
(* What is made of a parsed group: by the Wallet, and by the Baking app when *)
(* it allows every operation of it, for then it reads it as the Wallet does. *)

parse_operations_final ==
    /\ out.tag # "NONE" \/ out.has_reveal
    /\ step \in {"end", "top"}

\* prompt_transaction: the title, and the addresses and numbers below it.
prompt_transaction ==
    LET withdrawal == ~out.destination.originated /\ ~out.destination.typed
    IN  [title |-> CASE out.tag \in Votes -> out.tag
                     [] out.tag \in Delegations ->
                          IF withdrawal THEN "withdraw" ELSE "delegation"
                     [] out.tag \in Transactions -> "transaction"
                     [] out.tag = "NONE" -> "reveal"
                     [] OTHER -> "not shown",
         source |-> Shown(out.source),
         destination |-> Shown(out.destination),
         amount |-> out.amount]

baking_accepts ==
    parse_operations_final /\ \A i \in DOMAIN group : group[i].tag \in BakingTags

\* Wrong: the new delegate is not looked at.
registers_wrongly_any ==
    /\ baking_accepts
    /\ out.source = signing

\* baking_sign_complete: the group passes for a self-delegation of me.
registers ==
    /\ baking_accepts
    /\ out.source = signing
    /\ out.destination = signing

-----------------------------------------------------------------------------
(* Properties.                                                             *)

\* Every variable keeps its type.
TypeOK ==
    /\ step \in {"header", "top", "source", "manager", "public_key", "contents",
                 "key_hash", "address", "mutez", "unread", "end", "fail"}
                \cup DOMAIN Chain \cup DOMAIN Branch
    /\ at \in 1 .. Len(Chain.to_default)
    /\ tag \in Tag \cup {"NONE"}
    /\ out \in [tag : Tag \cup {"NONE"}, source : parsed_contract,
                destination : parsed_contract, amount : Number,
                total_fee : Number, total_storage_limit : Number,
                has_reveal : BOOLEAN, is_manager_tz_operation : BOOLEAN]

Operations == {i \in DOMAIN group : group[i].tag \notin Reveals}

\* The scripts a wallet user is ever shown, spelled out.
Opening == << "DO", "ARGUMENT_LENGTH", "SEQUENCE", "SEQUENCE_LENGTH", "DROP",
              "NIL", "OPERATION" >>
Paying == << "<amount>", "UNIT", "TRANSFER_TOKENS", "CONS" >>
SetsDelegate == Opening \o << "PUSH", "KEY_HASH", "<address>", "SOME",
                              "SET_DELEGATE", "CONS" >>
DropsDelegate == Opening \o << "NONE", "KEY_HASH", "SET_DELEGATE", "CONS" >>
PaysImplicit == Opening \o << "PUSH", "KEY_HASH", "<address>",
                   "IMPLICIT_ACCOUNT", "PUSH", "MUTEZ", "ZERO" >> \o Paying
PaysContract ==
    {Opening \o << "PUSH", "ADDRESS", "<address>" >> \o contract \o
     << "SEQUENCE", "21", "IF_NONE", "SEQUENCE", "9", "SEQUENCE", "4", "UNIT",
        "FAILWITH", "SEQUENCE", "0", "PUSH", "MUTEZ", "ZERO" >> \o Paying :
        contract \in {<< "CONTRACT", "CONTRACT_UNIT" >>,
                      << "CONTRACT_WITH_ENTRYPOINT", "CONTRACT_UNIT",
                         "DEFAULT" >>}}

\* What an operation means, by its own fields and script.
Meaning(op) ==
    LET plain == [title |-> "", source |-> op.source, destination |-> op.to,
                  amount |-> op.amount]
        inner == [title |-> "", source |-> op.to, destination |-> op.inner,
                  amount |-> op.moved]
    IN  CASE op.tag \in Votes -> [plain EXCEPT !.title = op.tag]
          [] op.tag \in Delegations ->
               [plain EXCEPT !.title = IF op.to = NoAddress THEN "withdraw"
                                                         ELSE "delegation"]
          [] op.tag \in Transactions /\ op.script = << >> ->
               [plain EXCEPT !.title = "transaction"]
          [] op.script = SetsDelegate -> [inner EXCEPT !.title = "delegation"]
          [] op.script = DropsDelegate -> [inner EXCEPT !.title = "withdraw"]
          [] op.script \in PaysContract \cup {PaysImplicit} ->
               [inner EXCEPT !.title = "transaction"]
          [] OTHER -> plain

\* The prompt says what the group means: the one operation that is not a
\* reveal, down to the script it calls.  Only the source may be another's: a
\* reveal written after the operation puts its own in place.
ShownIsWritten ==
    parse_operations_final /\ Operations # {} =>
        \A i \in Operations :
            IF i = Len(group) THEN prompt_transaction = Meaning(group[i])
            ELSE prompt_transaction = [Meaning(group[i]) EXCEPT
                                         !.source = group[Len(group)].source]

\* A group holds one operation that is not a reveal, or none and then it is
\* shown as a reveal.
OneOperationShown ==
    parse_operations_final =>
        /\ \A i, j \in Operations : i = j
        /\ Operations = {} => prompt_transaction.title = "reveal"

\* Every reveal in an accepted group is of the signing key, and every other
\* operation spends from the signing account or a contract.
OnlyOwnOperations ==
    parse_operations_final =>
        \A i \in DOMAIN group :
            IF group[i].tag \in Reveals THEN group[i].key = me
            ELSE group[i].source \in {me} \cup Kt

\* The fee and storage limit shown are those of the whole group, reveals
\* included, unless they overflow.
TotalsOf(field) == LET f[i \in 0 .. Len(group)] ==
                           IF i = 0 THEN 0 ELSE f[i - 1] + group[i][field]
                   IN  f[Len(group)]

TotalsCoverTheGroup ==
    parse_operations_final =>
        /\ out.total_fee = TotalsOf("fee") % Word
        /\ out.total_storage_limit = TotalsOf("storage") % Word

\* A group that failed is never accepted, and one that ended takes nothing
\* more, until a new session begins.
VerdictsAreFinal ==
    [][(step \in {"fail", "end"}) =>
           step' = "fail" \/ parse_operations_init]_vars

\* What the Baking app registers as a delegation of its key does delegate to
\* that key, is the only operation, and takes no other implicit account along.
RegistersDelegationsToItself ==
    registers =>
        \E i \in Operations :
            /\ Operations = {i}
            /\ group[i].tag \in Delegations
            /\ group[i].to = me
            /\ group[i].source \in {me} \cup Kt

\* "Must be self-delegation signed by the *authorized* baking key", a comment
\* in baking_sign_complete says: the account that delegates is the key's own.
RegistersOnlySelfDelegations ==
    registers => \A i \in Operations : group[i].source = me

=============================================================================
