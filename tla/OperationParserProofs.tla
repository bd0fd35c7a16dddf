------------------------ MODULE OperationParserProofs ------------------------
(***************************************************************************)
(* Theorems about OperationParser, for any addresses, totals of any width  *)
(* and groups of any length.                                               *)
(*                                                                         *)
(* The struct holds one destination, one source and one tag for the whole  *)
(* group, so what it says of an operation depends on which step the        *)
(* machine is at.  IndInv says so step by step: what of the operation      *)
(* being read is in the struct (Reading), that out.tag tells whether the   *)
(* group holds an operation that is not a reveal (TagTells), and that a    *)
(* delegation stays on record while reveals follow it (DelegateKept).      *)
(*                                                                         *)
(* ToldInv is about what the struct would tell the user: the wire's chain  *)
(* of codes tells what operation is read (ScriptRead), the code and the    *)
(* struct agree on it (ScriptTold, SourceTold), and so do the operations   *)
(* before (OperationTold).  Totalled follows the two sums, which wrap at   *)
(* the width of a word, through groups of any length; it needs what a sum  *)
(* over a set of operations is worth, by induction on their places.        *)
(***************************************************************************)
EXTENDS OperationParser, SequenceTheorems, WellFoundedInduction, TLAPS

\* Clearing a destination that was never set changes nothing.
LEMMA StillClear ==
    ASSUME NEW c \in parsed_contract, ~c.originated, ~c.typed
    PROVE  [c EXCEPT !.originated = FALSE, !.typed = FALSE] = c
BY DEF parsed_contract

LEMMA StillNone == [NoContract EXCEPT !.originated = FALSE, !.typed = FALSE]
                      = NoContract
<1>1. NoContract \in parsed_contract
  BY DEF NoContract, parsed_contract
<1>2. ~NoContract.originated /\ ~NoContract.typed
  BY DEF NoContract
<1> QED BY <1>1, <1>2, StillClear

\* A place within a chain of codes has a next.
LEMMA Advances ==
    ASSUME NEW i \in Nat, NEW n \in 1 .. 16, i < n PROVE i + 1 \in 1 .. 16
OBVIOUS

USE AddressAssumption, NumberAssumption, AllowedAssumption

\* Within the script of a transaction.
Chains == {"begin", "set_delegate", "no_delegate", "to_implicit", "to_contract",
           "to_default", "transfer", "close"}
Branches == {"first", "second", "third", "fourth"}
Mid == Chains \cup Branches \cup {"key_hash", "address", "mutez", "unread"}

Maybe == Address \cup {NoAddress}
Group_t == [tag : Tag \cup {"NONE"}, source : parsed_contract,
            destination : parsed_contract, amount : Number,
            total_fee : Number, total_storage_limit : Number,
            has_reveal : BOOLEAN, is_manager_tz_operation : BOOLEAN]
Script == Code \cup {"<address>", "<amount>"}
Operation == [tag : Tag \cup {"NONE"}, source : Maybe, fee : Number,
              storage : Number, key : Tz, to : Maybe, amount : Number,
              script : Seq(Script), inner : Maybe, moved : Number]

Own(op) == IF op.tag \in Reveals THEN op.key = me ELSE op.source \in {me} \cup Kt

Fields == {"header", "top", "source", "manager", "public_key", "contents", "end",
           "fail"}

Typed ==
    /\ step \in Fields \cup Mid /\ at \in 1 .. 16
    /\ tag \in Tag \cup {"NONE"} /\ out \in Group_t
    /\ written \in Operation /\ group \in Seq(Operation)

Reading ==
    /\ step \in {"source", "manager", "public_key", "contents"} \cup Mid =>
          written.tag = tag /\ tag # "NONE"
    /\ step = "public_key" => tag \in Reveals
    /\ step = "contents" => tag \notin Reveals
    /\ step \in {"manager", "public_key", "contents"} =>
          /\ out.source.hash = written.source
          /\ out.source.originated => written.source \in Kt
    /\ step \in Mid => tag \in Transactions /\ written.source \in {me} \cup Kt

TagTells ==
    /\ \A i, j \in Operations : i = j
    /\ step = "fail" => group = << >>
    /\ step \in Mid => Operations = {} /\ out.tag # "NONE"
    /\ step \notin Mid \cup {"fail"} => (out.tag = "NONE" <=> Operations = {})

DelegateKept ==
    /\ step # "fail" /\ out.tag = "NONE" => out.destination = NoContract
    /\ \A i \in Operations :
          group[i].tag \in Delegations =>
             out.destination = IF group[i].to = NoAddress THEN NoContract
                               ELSE parse_implicit(NoContract, group[i].to)

AllOwn == \A i \in DOMAIN group : Own(group[i])

IndInv == Typed /\ Reading /\ TagTells /\ DelegateKept /\ AllOwn

-----------------------------------------------------------------------------
(* The tables and the structs.                                             *)

LEMMA Tables ==
    /\ DOMAIN Chain = Chains /\ DOMAIN Branch = Branches
    /\ \A c \in Chains : After[c] \in Mid \cup {"end"}
    /\ \A b \in Branches : \A code \in DOMAIN Branch[b] : Branch[b][code] \in Mid
<1>1. DOMAIN Chain = Chains
  BY DEF Chain, Chains
<1>2. DOMAIN Branch = Branches
  BY DEF Branch, Branches
<1>3. \A c \in Chains : After[c] \in Mid \cup {"end"}
  <2>1. /\ After.begin = "first" /\ After.set_delegate = "close"
        /\ After.no_delegate = "close" /\ After.to_implicit = "mutez"
        /\ After.to_contract = "mutez" /\ After.to_default = "mutez"
        /\ After.transfer = "close" /\ After.close = "end"
    BY DEF After
  <2>2. {"first", "close", "mutez"} \subseteq Mid
    BY DEF Mid, Chains, Branches
  <2> QED BY <2>1, <2>2 DEF Chains
<1>4. \A b \in Branches : \A code \in DOMAIN Branch[b] : Branch[b][code] \in Mid
  BY DEF Branch, Branches, Mid, Chains
<1> QED BY <1>1, <1>2, <1>3, <1>4

LEMMA Lengths ==
    /\ Len(Chain.to_default) = 16
    /\ \A c \in Chains : Len(Chain[c]) \in 1 .. 16
<1> DEFINE S == {"SEQUENCE", "21", "IF_NONE", "9", "4", "UNIT", "FAILWITH", "0",
                 "PUSH", "MUTEZ", "ZERO", "CONTRACT_UNIT", "DEFAULT"}
<1>1. Guarded \in Seq(S) /\ Len(Guarded) = 14
  BY DEF Guarded
<1>2. /\ << "CONTRACT_UNIT" >> \in Seq(S) /\ Len(<< "CONTRACT_UNIT" >>) = 1
      /\ << "CONTRACT_UNIT", "DEFAULT" >> \in Seq(S)
      /\ Len(<< "CONTRACT_UNIT", "DEFAULT" >>) = 2
  OBVIOUS
<1> HIDE DEF S
<1>5. \A s, t \in Seq(S) : Len(s \o t) = Len(s) + Len(t)
  OBVIOUS
<1>6. /\ Len(<< "CONTRACT_UNIT" >> \o Guarded)
            = Len(<< "CONTRACT_UNIT" >>) + Len(Guarded)
      /\ Len(<< "CONTRACT_UNIT", "DEFAULT" >> \o Guarded)
            = Len(<< "CONTRACT_UNIT", "DEFAULT" >>) + Len(Guarded)
  BY <1>1, <1>2, <1>5, Zenon
<1>7. /\ Len(<< "CONTRACT_UNIT" >> \o Guarded) = 1 + 14
      /\ Len(<< "CONTRACT_UNIT", "DEFAULT" >> \o Guarded) = 2 + 14
  BY <1>1, <1>2, <1>6, Zenon
<1>3. /\ Len(Chain.begin) = 7 /\ Len(Chain.set_delegate) = 1
      /\ Len(Chain.no_delegate) = 2 /\ Len(Chain.to_implicit) = 3
      /\ Len(Chain.transfer) = 2 /\ Len(Chain.close) = 1
  BY DEF Chain
<1>4. Len(Chain.to_contract) = 15 /\ Len(Chain.to_default) = 16
  <2>1. /\ Chain.to_contract = << "CONTRACT_UNIT" >> \o Guarded
        /\ Chain.to_default = << "CONTRACT_UNIT", "DEFAULT" >> \o Guarded
    BY DEF Chain
  <2>2. Len(Chain.to_contract) = 1 + 14 /\ Len(Chain.to_default) = 2 + 14
    BY <1>7, <2>1, Zenon
  <2> QED BY <2>2
<1> QED BY <1>3, <1>4 DEF Chains

LEMMA TagKinds ==
    /\ "NONE" \notin Tag /\ "BABYLON_DELEGATION" \in Tag
    /\ "BABYLON_TRANSACTION" \in Tag /\ Allowed \subseteq Tag
    /\ \A t \in Transactions \cup Delegations \cup Votes :
          t \in Tag /\ t \notin Reveals
    /\ \A t \in Transactions \cup Votes : t \notin Delegations
BY DEF Tag, BakingTags, Reveals, Delegations, Transactions, Originations, Votes

LEMMA Contracts ==
    ASSUME NEW c \in parsed_contract, NEW a \in Address
    PROVE  /\ parse_contract(c, a) \in parsed_contract
           /\ parse_contract(c, a).hash = a
           /\ parse_contract(c, a).originated => a \in Kt
           /\ parse_implicit(c, a) \in parsed_contract
BY DEF parse_contract, parse_implicit, parsed_contract

LEMMA Fresh ==
    /\ NoContract \in parsed_contract /\ signing \in parsed_contract
    /\ signing.hash = me /\ FreshOut \in Group_t /\ Unwritten \in Operation
<1>1. NoContract \in parsed_contract
  BY DEF NoContract, parsed_contract
<1>2. signing \in parsed_contract /\ signing.hash = me
  BY <1>1 DEF signing, parse_implicit, parsed_contract, Address
<1>3. FreshOut \in Group_t
  BY <1>1, <1>2 DEF FreshOut, Group_t, Number
<1>4. Unwritten \in Operation
  BY DEF Unwritten, Operation, Maybe, Number
<1> QED BY <1>1, <1>2, <1>3, <1>4

\* What one more operation makes of a group.
LEMMA Appended ==
    ASSUME group \in Seq(Operation), NEW op \in Operation,
           group' = Append(group, op)
    PROVE  /\ group' \in Seq(Operation)
           /\ DOMAIN group' = DOMAIN group \cup {Len(group) + 1}
           /\ \A i \in DOMAIN group : group'[i] = group[i]
           /\ group'[Len(group) + 1] = op
           /\ Operations' = IF op.tag \in Reveals THEN Operations
                            ELSE Operations \cup {Len(group) + 1}
<1>1. /\ group' \in Seq(Operation)
      /\ DOMAIN group' = DOMAIN group \cup {Len(group) + 1}
      /\ \A i \in DOMAIN group : group'[i] = group[i]
      /\ group'[Len(group) + 1] = op
  OBVIOUS
<1>2. Operations' = IF op.tag \in Reveals THEN Operations
                    ELSE Operations \cup {Len(group) + 1}
  BY <1>1 DEF Operations
<1> QED BY <1>1, <1>2

LEMMA EmptyGroup == group' = << >> =>
    /\ group' \in Seq(Operation) /\ Operations' = {}
    /\ \A i \in DOMAIN group' : FALSE
BY DEF Operations

-----------------------------------------------------------------------------
(* Steps in four kinds: those that refuse the message, those that end an   *)
(* operation, those within a script, and the rest.                         *)

LEMMA Refuses ==
    ASSUME IndInv, parse_error, tag' \in Tag \cup {"NONE"}, out' \in Group_t
    PROVE  IndInv'
<1>1. /\ step' = "fail" /\ at' = 1 /\ written' \in Operation
      /\ group' \in Seq(Operation) /\ group' = << >> /\ Operations' = {}
  BY Fresh, EmptyGroup DEF parse_error, Goto
<1>2. "fail" \notin Mid
  BY DEF Mid, Chains, Branches
<1>3. Typed'
  BY <1>1 DEF Typed, Fields
<1>4. Reading' /\ TagTells' /\ DelegateKept' /\ AllOwn'
  BY <1>1, <1>2 DEF Reading, TagTells, DelegateKept, AllOwn, Fields
<1> QED BY <1>3, <1>4 DEF IndInv

LEMMA Ends ==
    ASSUME IndInv, NEW op \in Operation, NEW next \in {"top", "end"},
           Complete(op, next), tag' = tag, out' \in Group_t,
           Operations = {}, op.tag \notin Reveals, Own(op),
           out'.tag # "NONE",
           op.tag \in Delegations =>
              out'.destination = IF op.to = NoAddress THEN NoContract
                                 ELSE parse_implicit(NoContract, op.to)
    PROVE  IndInv'
<1>1. /\ step' = next /\ at' = 1 /\ written' \in Operation
      /\ group' = Append(group, op)
  BY Fresh DEF Complete, Goto
<1>2. /\ group' \in Seq(Operation)
      /\ DOMAIN group' = DOMAIN group \cup {Len(group) + 1}
      /\ \A i \in DOMAIN group : group'[i] = group[i]
      /\ group'[Len(group) + 1] = op
      /\ Operations' = {Len(group) + 1}
  BY <1>1, Appended DEF IndInv, Typed
<1>3. next \notin Mid /\ next \notin {"source", "manager", "public_key", "contents"}
  BY DEF Mid, Chains, Branches
<1>4. Typed'
  BY <1>1, <1>2 DEF IndInv, Typed, Fields
<1>5. Reading'
  BY <1>1, <1>3 DEF Reading
<1>6. TagTells'
  BY <1>1, <1>2, <1>3 DEF TagTells
<1>7. DelegateKept'
  BY <1>1, <1>2 DEF DelegateKept
<1>8. AllOwn'
  BY <1>2 DEF IndInv, AllOwn
<1> QED BY <1>4, <1>5, <1>6, <1>7, <1>8 DEF IndInv

LEMMA Continues ==
    ASSUME IndInv, step' \in Mid, at' \in 1 .. 16, tag' = tag, group' = group,
           out' \in Group_t, written' \in Operation,
           Operations = {}, tag \in Transactions,
           written'.tag = tag, written'.source \in {me} \cup Kt,
           out'.tag # "NONE"
    PROVE  IndInv'
<1>1. step' \notin {"source", "manager", "public_key", "contents", "fail"}
  BY DEF Mid, Chains, Branches
<1>2. Typed'
  BY DEF IndInv, Typed
<1>3. tag # "NONE"
  BY TagKinds
<1>4. Reading'
  BY <1>1, <1>3 DEF Reading
<1>5. Operations' = {}
  BY DEF Operations
<1>6. TagTells' /\ DelegateKept'
  BY <1>1, <1>5 DEF TagTells, DelegateKept
<1>7. AllOwn'
  BY DEF IndInv, AllOwn
<1> QED BY <1>2, <1>4, <1>6, <1>7 DEF IndInv

\* Header, tag, source and manager fields: the group, its tag and its
\* destination stay.
LEMMA Reads ==
    ASSUME IndInv, step \in Fields, step \notin {"end", "fail"},
           step' \in Fields \ {"end", "fail"}, at' = 1,
           tag' \in Tag \cup {"NONE"}, out' \in Group_t, group' = group,
           written' \in Operation, out'.tag = out.tag,
           out'.destination = out.destination, Reading'
    PROVE  IndInv'
<1>1. step \notin Mid /\ step' \notin Mid
  BY DEF Mid, Chains, Branches, Fields
<1>2. Typed'
  BY DEF IndInv, Typed
<1>3. Operations' = Operations
  BY DEF Operations
<1>4. TagTells' /\ DelegateKept' /\ AllOwn'
  BY <1>1, <1>3 DEF IndInv, TagTells, DelegateKept, AllOwn
<1> QED BY <1>2, <1>4 DEF IndInv

LEMMA Starts == Init => IndInv
<1> SUFFICES ASSUME Init PROVE IndInv
  OBVIOUS
<1>1. Typed
  BY Fresh DEF Init, Typed, Fields, Group_t
<1>2. Operations = {}
  BY DEF Init, Operations
<1>3. out.tag = "NONE" /\ out.destination = NoContract
  BY DEF Init, FreshOut
<1>4. Reading /\ TagTells /\ DelegateKept /\ AllOwn
  BY <1>2, <1>3 DEF Init, Reading, TagTells, DelegateKept, AllOwn, Mid, Chains, Branches
<1> QED BY <1>1, <1>4 DEF IndInv

LEMMA Restarts == IndInv /\ parse_operations_init => IndInv'
<1> SUFFICES ASSUME parse_operations_init PROVE IndInv'
  OBVIOUS
<1>1. Typed'
  BY Fresh, EmptyGroup DEF parse_operations_init, Typed, Fields
<1>2. Operations' = {}
  BY DEF parse_operations_init, Operations
<1>3. out'.tag = "NONE" /\ out'.destination = NoContract
  BY DEF parse_operations_init, FreshOut
<1>4. Reading' /\ TagTells' /\ DelegateKept' /\ AllOwn'
  BY <1>2, <1>3
  DEF parse_operations_init, Reading, TagTells, DelegateKept, AllOwn, Mid,
      Chains, Branches
<1> QED BY <1>1, <1>4 DEF IndInv

-----------------------------------------------------------------------------
(* The fields.                                                             *)

\* What the struct and the written operation are made of.
LEMMA Pieces ==
    ASSUME IndInv
    PROVE  /\ out \in Group_t /\ written \in Operation /\ group \in Seq(Operation)
           /\ tag \in Tag \cup {"NONE"} /\ step \in Fields \cup Mid
           /\ out.source \in parsed_contract /\ out.destination \in parsed_contract
BY DEF IndInv, Typed, Group_t

LEMMA HeaderSteps == IndInv /\ read_header => IndInv'
<1> SUFFICES ASSUME IndInv, read_header PROVE IndInv'
  OBVIOUS
<1>1. CASE parse_error
  BY <1>1, Refuses, Pieces DEF read_header
<1>2. CASE ~parse_error
  <2>1. step = "header" /\ step' = "top" /\ at' = 1
        /\ UNCHANGED <<written, group, tag, out>>
    BY <1>2 DEF read_header, Goto
  <2>2. Reading'
    BY <2>1 DEF Reading, Mid, Chains, Branches
  <2> QED BY <2>1, <2>2, Reads, Pieces DEF Fields
<1> QED BY <1>1, <1>2

LEMMA TagSteps == ASSUME IndInv, NEW t \in Tag, read_tag(t) PROVE IndInv'
<1>1. CASE t \in Allowed
  <2>1. /\ step = "top" /\ step' = "source" /\ at' = 1 /\ tag' = t
        /\ written' = [written EXCEPT !.tag = t] /\ UNCHANGED <<group, out>>
    BY <1>1 DEF read_tag, Goto
  <2>2. written' \in Operation /\ written'.tag = t
    BY <2>1, Pieces DEF Operation
  <2>3. Reading'
    BY <2>1, <2>2, TagKinds DEF Reading, Mid, Chains, Branches
  <2> QED BY <2>1, <2>2, <2>3, Reads, Pieces DEF Fields
<1>2. CASE t \notin Allowed
  BY <1>2, Refuses, Pieces DEF read_tag
<1> QED BY <1>1, <1>2

LEMMA SourceSteps == ASSUME IndInv, NEW a \in Address, read_source(a) PROVE IndInv'
<1> DEFINE c == parse_contract(out.source, a)
<1>1. /\ step = "source" /\ at' = 1
      /\ step' = (IF tag \in Votes THEN "contents" ELSE "manager")
      /\ out' = [out EXCEPT !.source = c]
      /\ written' = [written EXCEPT !.source = a] /\ UNCHANGED <<tag, group>>
  BY DEF read_source, Goto
<1>2. c \in parsed_contract /\ c.hash = a /\ (c.originated => a \in Kt)
  BY Contracts, Pieces
<1> HIDE DEF c
<1>3. /\ out' \in Group_t /\ out'.source = c /\ out'.tag = out.tag
      /\ out'.destination = out.destination
  BY <1>1, <1>2, Pieces DEF Group_t
<1>4. written' \in Operation /\ written'.source = a /\ written'.tag = written.tag
  BY <1>1, Pieces DEF Operation, Maybe
<1>5. written.tag = tag /\ tag # "NONE"
  BY <1>1 DEF IndInv, Reading
<1>6. Reading'
  BY <1>1, <1>2, <1>3, <1>4, <1>5, TagKinds DEF Reading, Mid, Chains, Branches
<1> QED BY <1>1, <1>3, <1>4, <1>6, Reads, Pieces DEF Fields

LEMMA ManagerSteps ==
    ASSUME IndInv, NEW fee \in Number, NEW storage \in Number,
           read_manager_fields(fee, storage)
    PROVE  IndInv'
<1>1. /\ step = "manager" /\ at' = 1
      /\ step' = (IF tag \in Reveals THEN "public_key" ELSE "contents")
      /\ out' = [out EXCEPT
                   !.total_fee = (out.total_fee + fee) % Word,
                   !.total_storage_limit = (out.total_storage_limit + storage) % Word]
      /\ written' = [written EXCEPT !.fee = fee, !.storage = storage]
      /\ UNCHANGED <<tag, group>>
  BY DEF read_manager_fields, Goto
<1>2. /\ (out.total_fee + fee) % Word \in Number
      /\ (out.total_storage_limit + storage) % Word \in Number
  <2>1. \A m, n \in Number : (m + n) % Word \in Number
    BY DEF Number
  <2> QED BY <2>1, Pieces DEF Group_t
<1>3. /\ out' \in Group_t /\ out'.source = out.source /\ out'.tag = out.tag
      /\ out'.destination = out.destination
  BY <1>1, <1>2, Pieces DEF Group_t
<1>4. /\ written' \in Operation /\ written'.source = written.source
      /\ written'.tag = written.tag
  BY <1>1, Pieces DEF Operation
<1>5. Reading'
  BY <1>1, <1>3, <1>4 DEF IndInv, Reading, Mid, Chains, Branches
<1> QED BY <1>1, <1>3, <1>4, <1>5, Reads, Pieces DEF Fields

LEMMA RevealSteps == ASSUME IndInv, NEW key \in Tz, read_public_key(key) PROVE IndInv'
<1>1. CASE key = me
  <2> DEFINE op == [written EXCEPT !.key = me]
  <2>1. /\ step = "public_key" /\ step' = "top" /\ at' = 1
        /\ out' = [out EXCEPT !.has_reveal = TRUE]
        /\ group' = Append(group, op) /\ written' = Unwritten /\ tag' = tag
    BY <1>1 DEF read_public_key, Complete, Goto
  <2>2. written.tag \in Reveals /\ step \notin Mid
    BY <2>1 DEF IndInv, Reading, Mid, Chains, Branches
  <2>3. op \in Operation /\ op.tag = written.tag /\ op.key = me
    BY Pieces DEF Operation
  <2> HIDE DEF op
  <2>4. /\ group' \in Seq(Operation) /\ Operations' = Operations
        /\ DOMAIN group' = DOMAIN group \cup {Len(group) + 1}
        /\ \A i \in DOMAIN group : group'[i] = group[i]
        /\ group'[Len(group) + 1] = op
    BY <2>1, <2>2, <2>3, Appended, Pieces
  <2>5. /\ out' \in Group_t /\ out'.tag = out.tag
        /\ out'.destination = out.destination
    BY <2>1, Pieces DEF Group_t
  <2>6. Typed'
    BY <2>1, <2>4, <2>5, Fresh, Pieces DEF Typed, Fields
  <2>7. Reading'
    BY <2>1 DEF Reading, Mid, Chains, Branches
  <2>8. TagTells'
    BY <2>1, <2>2, <2>4, <2>5 DEF IndInv, TagTells, Mid, Chains, Branches
  <2>9. DelegateKept'
    <3>1. \A i \in Operations : group'[i] = group[i]
      BY <2>4 DEF Operations
    <3> QED BY <2>1, <2>4, <2>5, <3>1 DEF IndInv, DelegateKept
  <2>10. AllOwn'
    BY <2>2, <2>3, <2>4 DEF IndInv, AllOwn, Own
  <2> QED BY <2>6, <2>7, <2>8, <2>9, <2>10 DEF IndInv
<1>2. CASE key # me
  BY <1>2, Refuses, Pieces DEF read_public_key
<1> QED BY <1>1, <1>2

\* The contents are read only of the group's first operation that is not a
\* reveal, and only if it spends the signer's own or a contract's tez.
LEMMA Admitted ==
    ASSUME IndInv, admitted
    PROVE  /\ Operations = {} /\ out.destination = NoContract
           /\ written.tag = tag /\ tag \in Tag \ Reveals
           /\ written.source \in {me} \cup Kt
<1>1. step = "contents" /\ out.tag = "NONE" /\ source_accepted(out.source)
  BY DEF admitted
<1>2. step \notin Mid
  BY <1>1 DEF Mid, Chains, Branches
<1>3. written.source \in {me} \cup Kt
  BY <1>1, Fresh DEF IndInv, Reading, source_accepted
<1> QED BY <1>1, <1>2, <1>3, Pieces DEF IndInv, Reading, TagTells, DelegateKept

LEMMA NotAdmittedSteps == IndInv /\ not_admitted => IndInv'
<1> SUFFICES ASSUME IndInv, not_admitted PROVE IndInv'
  OBVIOUS
<1>1. out' = [out EXCEPT !.tag = IF out.tag = "NONE" THEN tag ELSE out.tag]
      /\ parse_error /\ tag' = tag
  BY DEF not_admitted
<1>2. out' \in Group_t
  BY <1>1, Pieces DEF Group_t
<1> QED BY <1>1, <1>2, Refuses, Pieces

LEMMA VoteSteps == IndInv /\ read_vote => IndInv'
<1> SUFFICES ASSUME IndInv, read_vote PROVE IndInv'
  OBVIOUS
<1>1. /\ admitted /\ tag \in Votes /\ out' = [out EXCEPT !.tag = tag]
      /\ Complete(written, "end") /\ tag' = tag
  BY DEF read_vote
<1>2. out' \in Group_t /\ out'.tag = tag
  BY <1>1, Pieces DEF Group_t
<1>3. tag \notin Delegations /\ tag # "NONE"
  BY <1>1, TagKinds
<1>4. Own(written)
  BY <1>1, Admitted DEF Own
<1> QED BY <1>1, <1>2, <1>3, <1>4, Admitted, Ends, Pieces

LEMMA UnsupportedSteps == IndInv /\ read_unsupported => IndInv'
<1> SUFFICES ASSUME IndInv, read_unsupported PROVE IndInv'
  OBVIOUS
<1>1. out' = [out EXCEPT !.tag = tag] /\ parse_error /\ tag' = tag
  BY DEF read_unsupported
<1>2. out' \in Group_t
  BY <1>1, Pieces DEF Group_t
<1> QED BY <1>1, <1>2, Refuses, Pieces

LEMMA DelegateSteps ==
    ASSUME IndInv, NEW a \in Tz \cup {NoAddress}, read_delegate(a) PROVE IndInv'
<1> DEFINE op == [written EXCEPT !.to = a]
           c == IF a = NoAddress
                THEN [NoContract EXCEPT !.originated = FALSE, !.typed = FALSE]
                ELSE parse_implicit(NoContract, a)
<1>1. /\ admitted /\ tag \in Delegations /\ tag' = tag
      /\ Complete(op, "top")
  BY DEF read_delegate
<1>2. out' = [out EXCEPT !.tag = tag, !.destination = c]
  BY <1>1, Admitted DEF read_delegate
<1>3. /\ c \in parsed_contract
      /\ c = IF a = NoAddress THEN NoContract ELSE parse_implicit(NoContract, a)
  BY Fresh, StillNone, Contracts DEF Address
<1>4. op \in Operation /\ op.tag = tag /\ op.to = a /\ Own(op)
  BY <1>1, Admitted, Pieces DEF Operation, Maybe, Address, Own
<1> HIDE DEF c, op
<1>5. out' \in Group_t /\ out'.tag = tag /\ out'.destination = c
  BY <1>2, <1>3, Pieces DEF Group_t
<1>6. tag # "NONE" /\ tag \notin Reveals
  BY <1>1, TagKinds
<1> QED BY <1>1, <1>3, <1>4, <1>5, <1>6, Admitted, Ends, Pieces

LEMMA TransferSteps ==
    ASSUME IndInv, NEW amount \in Number, NEW a \in Address, NEW params \in BOOLEAN,
           read_transfer(amount, a, params)
    PROVE  IndInv'
<1> DEFINE c == parse_contract(out.destination, a)
           sent == [out EXCEPT !.tag = tag, !.amount = amount, !.destination = c]
           called == [sent EXCEPT !.is_manager_tz_operation = TRUE, !.source = c]
           op == [written EXCEPT !.to = a, !.amount = amount]
<1>1. admitted /\ tag \in Transactions /\ tag' = tag
  BY DEF read_transfer
<1>2. \/ out' = sent /\ Complete(op, "top")
      \/ out' \in {sent, called} /\ parse_error
      \/ out' = called /\ Goto("begin") /\ written' = op /\ group' = group
  BY DEF read_transfer
<1>3. c \in parsed_contract
  BY Contracts, Pieces
<1> HIDE DEF c
<1>4. sent \in Group_t /\ sent.tag = tag
  BY <1>3, Pieces DEF Group_t
<1>5. called \in Group_t /\ called.tag = tag
  <2> HIDE DEF sent
  <2>1. called = [sent EXCEPT !.is_manager_tz_operation = TRUE, !.source = c]
    OBVIOUS
  <2> HIDE DEF called
  <2> QED BY <1>3, <1>4, <2>1 DEF Group_t
<1>6. op \in Operation /\ op.tag = tag /\ op.source \in {me} \cup Kt
  BY <1>1, Admitted, Pieces DEF Operation, Maybe
<1>7. tag \notin Reveals /\ tag \notin Delegations /\ tag # "NONE"
  BY <1>1, TagKinds
<1> HIDE DEF sent, called, op
<1>8. CASE out' = sent /\ Complete(op, "top")
  BY <1>1, <1>4, <1>6, <1>7, <1>8, Admitted, Ends DEF Own
<1>9. CASE out' \in {sent, called} /\ parse_error
  BY <1>1, <1>4, <1>5, <1>9, Refuses, Pieces
<1>10. CASE out' = called /\ Goto("begin") /\ written' = op /\ group' = group
  <2>1. step' \in Mid /\ at' \in 1 .. 16
    BY <1>10 DEF Goto, Mid, Chains
  <2> QED BY <1>1, <1>5, <1>6, <1>7, <1>10, <2>1, Admitted, Continues
<1> QED BY <1>2, <1>8, <1>9, <1>10

LEMMA UnknownCurveSteps ==
    ASSUME IndInv, NEW amount \in Number, read_unknown_curve(amount) PROVE IndInv'
<1>1. parse_error /\ tag' = tag
  BY DEF read_unknown_curve
<1>2. \A c \in parsed_contract : [c EXCEPT !.originated = FALSE] \in parsed_contract
  BY DEF parsed_contract
<1> DEFINE s == [out.source EXCEPT !.originated = FALSE]
           d == [out.destination EXCEPT !.originated = FALSE]
<1>3. s \in parsed_contract /\ d \in parsed_contract
  BY <1>2, Pieces
<1>4. \/ out' = [out EXCEPT !.source = s]
      \/ out' = out
      \/ out' = [out EXCEPT !.tag = tag, !.destination = d]
      \/ out' = [out EXCEPT !.tag = tag, !.amount = amount, !.destination = d]
  BY DEF read_unknown_curve
<1> HIDE DEF s, d
<1>5. out' \in Group_t
  BY <1>3, <1>4, Pieces DEF Group_t
<1> QED BY <1>1, <1>5, Refuses, Pieces

-----------------------------------------------------------------------------
(* Scripts.                                                                *)

\* Where a script is being read.
LEMMA InScript ==
    ASSUME IndInv, step \in Mid
    PROVE  /\ Operations = {} /\ out.tag # "NONE" /\ tag \in Transactions
           /\ written.tag = tag /\ written.source \in {me} \cup Kt
           /\ tag \notin Reveals /\ tag \notin Delegations
BY TagKinds DEF IndInv, TagTells, Reading

LEMMA ScriptedType ==
    ASSUME IndInv, NEW code \in Script
    PROVE  /\ Scripted(code) \in Operation
           /\ Scripted(code).tag = written.tag
           /\ Scripted(code).source = written.source
<1>1. Append(written.script, code) \in Seq(Script)
  BY Pieces DEF Operation
<1> QED BY <1>1, Pieces DEF Operation, Scripted

LEMMA EffectType ==
    ASSUME IndInv, NEW chain, out.tag # "NONE"
    PROVE  Effect(chain, out) \in Group_t /\ Effect(chain, out).tag # "NONE"
<1> DEFINE o(t, d) == [out EXCEPT !.tag = t, !.destination = d]
           c == [out.destination EXCEPT !.originated = TRUE]
           d == [out.destination EXCEPT !.originated = FALSE, !.typed = FALSE]
<1>1. c \in parsed_contract /\ d \in parsed_contract
  BY Pieces DEF parsed_contract
<1>2. Effect(chain, out) \in {[out EXCEPT !.tag = "BABYLON_DELEGATION",
                                         !.destination = c],
                              [out EXCEPT !.tag = "BABYLON_DELEGATION",
                                         !.destination = d],
                              [out EXCEPT !.tag = "BABYLON_TRANSACTION"],
                              out}
  <2>1. CASE chain = "set_delegate"
    BY <2>1 DEF Effect
  <2>2. CASE chain = "no_delegate"
    <3>1. Effect(chain, out) = [out EXCEPT !.tag = "BABYLON_DELEGATION",
                                           !.destination.originated = FALSE,
                                           !.destination.typed = FALSE]
      BY <2>2 DEF Effect
    <3> QED BY <3>1, Pieces DEF Group_t, parsed_contract
  <2>3. CASE chain = "transfer"
    BY <2>3 DEF Effect
  <2>4. CASE chain \notin {"set_delegate", "no_delegate", "transfer"}
    BY <2>4 DEF Effect
  <2> QED BY <2>1, <2>2, <2>3, <2>4
<1> HIDE DEF c, d
<1> QED BY <1>1, <1>2, TagKinds, Pieces DEF Group_t

LEMMA LiteralSteps ==
    ASSUME IndInv, NEW code \in Code, read_literal(code) PROVE IndInv'
<1>1. step \in Chains /\ tag' = tag /\ step \in Mid
  BY Tables DEF read_literal, Mid
<1>2. at \in Nat /\ Len(Chain[step]) \in 1 .. 16
  BY <1>1, Lengths DEF IndInv, Typed
<1>3. /\ Scripted(code) \in Operation /\ Scripted(code).tag = written.tag
      /\ Scripted(code).source = written.source
  BY ScriptedType DEF Script
<1>4. /\ Effect(step, out) \in Group_t /\ Effect(step, out).tag # "NONE"
  BY <1>1, EffectType, InScript
<1>5. CASE at < Len(Chain[step])
  <2>1. at' = at + 1 /\ written' = Scripted(code) /\ UNCHANGED <<step, out, group>>
    BY <1>5, Zenon DEF read_literal
  <2>2. at' \in 1 .. 16
    BY <1>2, <1>5, <2>1, Advances
  <2> QED BY <1>1, <1>3, <2>1, <2>2, InScript, Continues, Pieces
<1>6. CASE ~(at < Len(Chain[step]))
  <2>1. CASE After[step] = "end"
    <3>1. out' = Effect(step, out) /\ Complete(Scripted(code), "end")
      BY <1>6, <2>1 DEF read_literal
    <3> QED BY <1>1, <1>3, <1>4, <3>1, InScript, Ends DEF Own
  <2>2. CASE After[step] # "end"
    <3>1. /\ out' = Effect(step, out) /\ Goto(After[step])
          /\ written' = Scripted(code) /\ group' = group
      BY <1>6, <2>2 DEF read_literal
    <3>2. step' \in Mid /\ at' \in 1 .. 16
      BY <1>1, <2>2, <3>1, Tables DEF Goto
    <3> QED BY <1>1, <1>3, <1>4, <3>1, <3>2, InScript, Continues
  <2> QED BY <2>1, <2>2
<1> QED BY <1>5, <1>6

LEMMA BranchSteps ==
    ASSUME IndInv, NEW code \in Code, read_branch(code) PROVE IndInv'
<1>1. /\ step \in Branches /\ step \in Mid /\ code \in DOMAIN Branch[step]
      /\ Goto(Branch[step][code]) /\ written' = Scripted(code)
      /\ UNCHANGED <<tag, out, group>>
  BY Tables DEF read_branch, Mid
<1>2. step' \in Mid /\ at' \in 1 .. 16
  BY <1>1, Tables DEF Goto
<1> QED BY <1>1, <1>2, ScriptedType, InScript, Continues, Pieces DEF Script

LEMMA AddressSteps ==
    ASSUME IndInv, NEW a \in Address, read_address(a) PROVE IndInv'
<1> DEFINE d == [out.destination EXCEPT !.text = a, !.originated = FALSE,
                                        !.typed = FALSE]
           s == Scripted("<address>")
<1>1. /\ step \in {"key_hash", "address"}
      /\ step' \in {"third", "fourth"} /\ at' = 1
      /\ written' = [s EXCEPT !.inner = a]
      /\ UNCHANGED <<tag, group>>
  BY DEF read_address, Goto
<1>2. out' = [out EXCEPT !.destination = d]
  BY Pieces DEF read_address, Group_t, parsed_contract
<1>3. d \in parsed_contract
  BY Pieces DEF parsed_contract
<1>4. s \in Operation /\ s.tag = written.tag /\ s.source = written.source
  BY ScriptedType DEF Script
<1> HIDE DEF d, s
<1>5. out' \in Group_t /\ out'.tag = out.tag
  BY <1>2, <1>3, Pieces DEF Group_t
<1>6. /\ written' \in Operation /\ written'.tag = written.tag
      /\ written'.source = written.source
  BY <1>1, <1>4 DEF Operation, Maybe
<1>7. step \in Mid /\ step' \in Mid /\ at' \in 1 .. 16
  BY <1>1 DEF Mid, Branches
<1> QED BY <1>1, <1>5, <1>6, <1>7, InScript, Continues

LEMMA MutezSteps ==
    ASSUME IndInv, NEW amount \in Number, read_mutez(amount) PROVE IndInv'
<1> DEFINE s == Scripted("<amount>")
<1>1. /\ step = "mutez" /\ step' = "transfer" /\ at' = 1
      /\ out' = [out EXCEPT !.amount = amount]
      /\ written' = [s EXCEPT !.moved = amount]
      /\ UNCHANGED <<tag, group>>
  BY DEF read_mutez, Goto
<1>2. s \in Operation /\ s.tag = written.tag /\ s.source = written.source
  BY ScriptedType DEF Script
<1> HIDE DEF s
<1>3. out' \in Group_t /\ out'.tag = out.tag
  BY <1>1, Pieces DEF Group_t
<1>4. /\ written' \in Operation /\ written'.tag = written.tag
      /\ written'.source = written.source
  BY <1>1, <1>2 DEF Operation
<1>5. step \in Mid /\ step' \in Mid /\ at' \in 1 .. 16
  BY <1>1 DEF Mid, Chains
<1> QED BY <1>1, <1>3, <1>4, <1>5, InScript, Continues

LEMMA OtherSteps ==
    IndInv /\ (read_other_code \/ read_address_bytes \/ read_past_end) => IndInv'
<1> SUFFICES ASSUME IndInv, read_other_code \/ read_address_bytes \/ read_past_end
             PROVE  IndInv'
  OBVIOUS
<1>1. CASE parse_error
  BY <1>1, Refuses, Pieces DEF read_other_code, read_address_bytes, read_past_end
<1>2. CASE ~parse_error
  <2>1. /\ step \in {"key_hash", "address"} /\ step' = "unread" /\ at' = 1
        /\ UNCHANGED <<written, group, tag, out>>
    BY <1>2 DEF read_other_code, read_address_bytes, read_past_end, Goto
  <2>2. step \in Mid /\ step' \in Mid /\ at' \in 1 .. 16
    BY <2>1 DEF Mid
  <2> QED BY <2>1, <2>2, InScript, Continues, Pieces
<1> QED BY <1>1, <1>2

LEMMA Steps == IndInv /\ [Next]_vars => IndInv'
<1> SUFFICES ASSUME IndInv, [Next]_vars PROVE IndInv'
  OBVIOUS
<1>1. CASE UNCHANGED vars
  BY <1>1 DEF vars, IndInv, Typed, Reading, TagTells, DelegateKept, AllOwn, Operations
<1>2. CASE Next
  BY <1>2, HeaderSteps, TagSteps, SourceSteps, ManagerSteps, RevealSteps,
     NotAdmittedSteps, VoteSteps, UnsupportedSteps, DelegateSteps, TransferSteps,
     UnknownCurveSteps, LiteralSteps, BranchSteps, AddressSteps, MutezSteps,
     OtherSteps, Restarts, Zenon DEF Next
<1> QED BY <1>1, <1>2

\* What the struct and the step say of the group holds wherever the message
\* is cut.
THEOREM Inductive == Spec => []IndInv
BY Starts, Steps, PTL DEF Spec

-----------------------------------------------------------------------------
(* The properties.                                                         *)

\* Every variable keeps its type.
THEOREM Typing == Spec => []TypeOK
<1>1. IndInv => TypeOK
  BY Tables, Lengths DEF IndInv, Typed, TypeOK, Fields, Mid, Group_t
<1> QED BY <1>1, Inductive, PTL

\* One operation, or a reveal, is all a prompt has to tell of.
THEOREM OneShown == Spec => []OneOperationShown
<1>1. IndInv => OneOperationShown
  <2> SUFFICES ASSUME IndInv, parse_operations_final
               PROVE  /\ \A i, j \in Operations : i = j
                      /\ Operations = {} => prompt_transaction.title = "reveal"
    BY DEF OneOperationShown
  <2>1. step \notin Mid \cup {"fail"}
    BY DEF parse_operations_final, Mid, Chains, Branches
  <2>2. ASSUME Operations = {} PROVE prompt_transaction.title = "reveal"
    <3>1. out.tag = "NONE"
      BY <2>1, <2>2 DEF IndInv, TagTells
    <3>2. out.tag \notin Votes \cup Delegations \cup Transactions
      BY <3>1 DEF Votes, Delegations, Transactions
    <3> QED BY <3>1, <3>2 DEF prompt_transaction
  <2> QED BY <2>2 DEF IndInv, TagTells
<1> QED BY <1>1, Inductive, PTL

\* Reveals are of the signer's key, and no operation spends from another's
\* account.
THEOREM OwnOnly == Spec => []OnlyOwnOperations
<1>1. IndInv => OnlyOwnOperations
  BY DEF IndInv, AllOwn, Own, OnlyOwnOperations
<1> QED BY <1>1, Inductive, PTL

\* A refusal and an end are for good.
THEOREM NoSecondVerdict == Spec => VerdictsAreFinal
<1>1. IndInv /\ [Next]_vars =>
         [(step \in {"fail", "end"}) => step' = "fail" \/ parse_operations_init]_vars
  <2> SUFFICES ASSUME IndInv, Next, step \in {"fail", "end"}, ~parse_operations_init
               PROVE  step' = "fail"
    OBVIOUS
  <2>1. step \notin DOMAIN Chain \cup DOMAIN Branch
    BY Tables DEF Chains, Branches
  <2>2. read_past_end
    BY <2>1 DEF Next, read_header, read_tag, read_source, read_address,
       read_manager_fields, read_public_key, not_admitted, admitted, read_vote,
       read_delegate, read_unsupported, read_transfer, read_literal, read_branch,
       read_other_code, read_address_bytes, read_mutez, read_unknown_curve
  <2> QED BY <2>2 DEF read_past_end, parse_error, Goto
<1> QED BY <1>1, Inductive, PTL DEF Spec, VerdictsAreFinal

\* What the Baking app takes for a registration delegates to its own key.
THEOREM RegistersItself == Spec => []RegistersDelegationsToItself
<1>1. IndInv => RegistersDelegationsToItself
  <2> SUFFICES ASSUME IndInv, registers
               PROVE  \E i \in Operations :
                         /\ Operations = {i}
                         /\ group[i].tag \in Delegations
                         /\ group[i].to = me
                         /\ group[i].source \in {me} \cup Kt
    BY DEF RegistersDelegationsToItself
  <2>1. /\ step \notin Mid \cup {"fail"} /\ out.destination = signing
        /\ \A i \in DOMAIN group : group[i].tag \in BakingTags
    BY DEF registers, baking_accepts, parse_operations_final, Mid, Chains, Branches
  <2>2. signing # NoContract /\ signing.hash = me
    BY Fresh DEF signing, parse_implicit, NoContract
  <2>3. PICK i \in Operations : TRUE
    BY <2>1, <2>2 DEF IndInv, TagTells, DelegateKept
  <2>4. Operations = {i}
    BY <2>3 DEF IndInv, TagTells
  <2>5. /\ i \in DOMAIN group /\ group[i].tag \in Delegations
        /\ group[i].tag \notin Reveals /\ group[i] \in Operation
    BY <2>1, <2>3, Pieces DEF Operations, BakingTags
  <2>6. signing = IF group[i].to = NoAddress THEN NoContract
                  ELSE parse_implicit(NoContract, group[i].to)
    BY <2>1, <2>3, <2>5 DEF IndInv, DelegateKept
  <2>7. group[i].to = me
    BY <2>2, <2>6 DEF parse_implicit, NoContract
  <2>8. group[i].source \in {me} \cup Kt
    BY <2>5 DEF IndInv, AllOwn, Own
  <2> QED BY <2>4, <2>5, <2>7, <2>8
<1> QED BY <1>1, Inductive, PTL

-----------------------------------------------------------------------------
(* Scripts, spelled out.  Add, Join and One stand for the operators on      *)
(* sequences once the facts below are known of them.                        *)

\* A sequence that goes one further than another.
LEMMA Longer ==
    ASSUME NEW S, NEW l \in Seq(S), NEW s \in Seq(S), NEW x \in S,
           Len(l) = Len(s) + 1, \A i \in 1 .. Len(s) : l[i] = s[i],
           l[Len(s) + 1] = x
    PROVE  l = Append(s, x)
<1>1. Append(s, x) \in Seq(S) /\ Len(Append(s, x)) = Len(s) + 1
  BY AppendProperties
<1>2. \A i \in 1 .. Len(l) : l[i] = Append(s, x)[i]
  BY AppendProperties
<1> QED BY <1>1, <1>2, SeqEqual

LEMMA Two ==
    ASSUME NEW a, NEW b
    PROVE  << a, b >> = Append(<< a >>, b)
<1> DEFINE S == {a, b}
<1>1. a \in S /\ b \in S
  OBVIOUS
<1> HIDE DEF S
<1> QED BY <1>1, Longer

LEMMA Three ==
    ASSUME NEW a, NEW b, NEW c
    PROVE  << a, b, c >> = Append(<< a, b >>, c)
<1> DEFINE S == {a, b, c}
<1>1. a \in S /\ b \in S /\ c \in S
  OBVIOUS
<1> HIDE DEF S
<1> QED BY <1>1, Longer

LEMMA Four ==
    ASSUME NEW a, NEW b, NEW c, NEW d
    PROVE  << a, b, c, d >> = Append(<< a, b, c >>, d)
<1> DEFINE S == {a, b, c, d}
<1>1. a \in S /\ b \in S /\ c \in S /\ d \in S
  OBVIOUS
<1> HIDE DEF S
<1> QED BY <1>1, Longer

LEMMA Five ==
    ASSUME NEW a, NEW b, NEW c, NEW d, NEW e
    PROVE  << a, b, c, d, e >> = Append(<< a, b, c, d >>, e)
<1> DEFINE S == {a, b, c, d, e}
<1>1. a \in S /\ b \in S /\ c \in S /\ d \in S /\ e \in S
  OBVIOUS
<1> HIDE DEF S
<1> QED BY <1>1, Longer

LEMMA Six ==
    ASSUME NEW a, NEW b, NEW c, NEW d, NEW e, NEW f
    PROVE  << a, b, c, d, e, f >> = Append(<< a, b, c, d, e >>, f)
<1> DEFINE S == {a, b, c, d, e, f}
<1>1. a \in S /\ b \in S /\ c \in S /\ d \in S /\ e \in S /\ f \in S
  OBVIOUS
<1> HIDE DEF S
<1> QED BY <1>1, Longer

LEMMA Seven ==
    ASSUME NEW a, NEW b, NEW c, NEW d, NEW e, NEW f, NEW g
    PROVE  << a, b, c, d, e, f, g >> = Append(<< a, b, c, d, e, f >>, g)
<1> DEFINE S == {a, b, c, d, e, f, g}
<1>1. a \in S /\ b \in S /\ c \in S /\ d \in S /\ e \in S /\ f \in S /\ g \in S
  OBVIOUS
<1> HIDE DEF S
<1> QED BY <1>1, Longer

Words == {"DO", "ARGUMENT_LENGTH", "SEQUENCE", "SEQUENCE_LENGTH", "DROP", "NIL",
          "OPERATION", "PUSH", "NONE", "KEY_HASH", "ADDRESS", "<address>", "SOME",
          "SET_DELEGATE", "IMPLICIT_ACCOUNT", "MUTEZ", "ZERO", "CONTRACT",
          "CONTRACT_WITH_ENTRYPOINT", "CONTRACT_UNIT", "DEFAULT", "21", "IF_NONE",
          "9", "4", "UNIT", "FAILWITH", "0", "<amount>", "TRANSFER_TOKENS", "CONS"}

Texts == Seq(Words)
Add(s, x) == Append(s, x)
One(x) == << x >>
Join(s, t) == s \o t

LEMMA Adding ==
    ASSUME NEW s \in Texts, NEW x \in Words
    PROVE  Add(s, x) \in Texts
BY AppendProperties DEF Texts, Add

LEMMA JoiningOne ==
    ASSUME NEW s \in Texts, NEW x \in Words
    PROVE  Join(s, One(x)) = Add(s, x)
BY AppendIsConcat DEF Texts, Add, Join, One

LEMMA Opens == ASSUME NEW x \in Words PROVE One(x) \in Texts
BY DEF One, Texts

LEMMA Joining ==
    ASSUME NEW s \in Texts, NEW t \in Texts
    PROVE  Join(s, t) \in Texts
BY ConcatProperties DEF Texts, Join

LEMMA Lengthening ==
    ASSUME NEW s \in Texts, NEW t \in Texts
    PROVE  Len(Join(s, t)) = Len(s) + Len(t)
BY ConcatProperties DEF Texts, Join

LEMMA JoiningAdded ==
    ASSUME NEW s \in Texts, NEW t \in Texts, NEW x \in Words
    PROVE  Join(s, Add(t, x)) = Add(Join(s, t), x)
<1>1. s \in Seq(Words) /\ t \in Seq(Words)
  BY DEF Texts
<1> HIDE DEF Words
<1>2. /\ s \o t \in Seq(Words) /\ << x >> \in Seq(Words)
      /\ Append(s \o t, x) = (s \o t) \o << x >> /\ Append(t, x) = t \o << x >>
  BY <1>1, AppendIsConcat, ConcatProperties
<1>3. (s \o t) \o << x >> = s \o (t \o << x >>)
  BY <1>1, <1>2, ConcatAssociative
<1> QED BY <1>2, <1>3 DEF Add, Join

LEMMA JoiningJoined ==
    ASSUME NEW s \in Texts, NEW t \in Texts, NEW u \in Texts
    PROVE  Join(Join(s, t), u) = Join(s, Join(t, u))
BY ConcatAssociative DEF Texts, Join

\* Scripts up to the address they hold, to what tells them apart after it, to
\* the amount, and to the last instruction, which ends the message.
Pushing == Append(Opening, "PUSH")
HoldingKey == Append(Append(Pushing, "KEY_HASH"), "<address>")
HoldingAddress == Append(Append(Pushing, "ADDRESS"), "<address>")
Setting == Append(HoldingKey, "SOME") \o Chain.set_delegate
Dropping == Append(Opening, "NONE") \o Chain.no_delegate
Calling == {Append(HoldingKey, "IMPLICIT_ACCOUNT") \o Chain.to_implicit,
            Append(HoldingAddress, "CONTRACT") \o Chain.to_contract,
            Append(HoldingAddress, "CONTRACT_WITH_ENTRYPOINT") \o Chain.to_default}
Moving == {Append(q, "<amount>") \o Chain.transfer : q \in Calling}

LEMMA Vocabulary ==
    /\ "PUSH" \in Words /\ "NONE" \in Words /\ "KEY_HASH" \in Words
    /\ "ADDRESS" \in Words /\ "<address>" \in Words /\ "SOME" \in Words
    /\ "SET_DELEGATE" \in Words /\ "IMPLICIT_ACCOUNT" \in Words
    /\ "MUTEZ" \in Words /\ "ZERO" \in Words /\ "CONTRACT" \in Words
    /\ "CONTRACT_WITH_ENTRYPOINT" \in Words /\ "CONTRACT_UNIT" \in Words
    /\ "DEFAULT" \in Words /\ "UNIT" \in Words /\ "<amount>" \in Words
    /\ "TRANSFER_TOKENS" \in Words /\ "CONS" \in Words
BY DEF Words

LEMMA Strings ==
    /\ Opening \in Texts /\ Guarded \in Texts /\ Paying \in Texts
    /\ Len(Opening) = 7 /\ Len(Guarded) = 14 /\ Len(Paying) = 4
<1>1. Opening \in Texts /\ Len(Opening) = 7
  BY DEF Words, Texts, Opening
<1>2. Guarded \in Texts /\ Len(Guarded) = 14
  BY DEF Words, Texts, Guarded
<1>3. Paying \in Texts /\ Len(Paying) = 4
  BY DEF Words, Texts, Paying
<1> QED BY <1>1, <1>2, <1>3

LEMMA SettingSpelled == Setting \o Chain.close = SetsDelegate
<1> DEFINE l1 == << "PUSH" >>
           l2 == << "PUSH", "KEY_HASH" >>
           l3 == << "PUSH", "KEY_HASH", "<address>" >>
           l4 == << "PUSH", "KEY_HASH", "<address>", "SOME" >>
           l5 == << "PUSH", "KEY_HASH", "<address>", "SOME", "SET_DELEGATE" >>
           l6 == << "PUSH", "KEY_HASH", "<address>", "SOME", "SET_DELEGATE", "CONS" >>
<1>1. /\ l1 = One("PUSH") /\ l2 = Add(l1, "KEY_HASH") /\ l3 = Add(l2, "<address>")
      /\ l4 = Add(l3, "SOME") /\ l5 = Add(l4, "SET_DELEGATE") /\ l6 = Add(l5, "CONS")
  BY Two, Three, Four, Five, Six DEF One, Add
<1>2. SetsDelegate = Join(Opening, l6)
  BY DEF SetsDelegate, Join
<1> HIDE DEF l1, l2, l3, l4, l5, l6
<1>3. Setting \o Chain.close =
         Join(Join(Add(Add(Add(Add(Opening, "PUSH"), "KEY_HASH"), "<address>"), "SOME"),
                   One("SET_DELEGATE")), One("CONS"))
  BY DEF Setting, HoldingKey, Pushing, Chain, Add, Join, One
<1>4. /\ l1 \in Texts /\ l2 \in Texts /\ l3 \in Texts /\ l4 \in Texts /\ l5 \in Texts
  BY <1>1, Vocabulary, Opens, Adding
<1>5. /\ Join(Opening, l1) = Add(Opening, "PUSH")
      /\ Join(Opening, l2) = Add(Join(Opening, l1), "KEY_HASH")
      /\ Join(Opening, l3) = Add(Join(Opening, l2), "<address>")
      /\ Join(Opening, l4) = Add(Join(Opening, l3), "SOME")
      /\ Join(Opening, l5) = Add(Join(Opening, l4), "SET_DELEGATE")
      /\ Join(Opening, l6) = Add(Join(Opening, l5), "CONS")
  BY <1>1, <1>4, Vocabulary, Strings, JoiningOne, JoiningAdded
<1>6. /\ Join(Opening, l4) \in Texts /\ Join(Opening, l5) \in Texts
  BY <1>4, Strings, Joining
<1>7. /\ Join(Join(Opening, l4), One("SET_DELEGATE")) = Join(Opening, l5)
      /\ Join(Join(Opening, l5), One("CONS")) = Join(Opening, l6)
  BY <1>5, <1>6, Vocabulary, JoiningOne
<1> QED BY <1>2, <1>3, <1>5, <1>7

LEMMA DroppingSpelled == Dropping \o Chain.close = DropsDelegate
<1> DEFINE l1 == << "NONE" >>
           l2 == << "NONE", "KEY_HASH" >>
           l3 == << "NONE", "KEY_HASH", "SET_DELEGATE" >>
           l4 == << "NONE", "KEY_HASH", "SET_DELEGATE", "CONS" >>
           k2 == << "KEY_HASH", "SET_DELEGATE" >>
<1>1. /\ l1 = One("NONE") /\ l2 = Add(l1, "KEY_HASH") /\ l3 = Add(l2, "SET_DELEGATE")
      /\ l4 = Add(l3, "CONS") /\ k2 = Add(One("KEY_HASH"), "SET_DELEGATE")
  BY Two, Three, Four DEF One, Add
<1>2. DropsDelegate = Join(Opening, l4)
  BY DEF DropsDelegate, Join
<1>3. Dropping \o Chain.close = Join(Join(Add(Opening, "NONE"), k2), One("CONS"))
  BY DEF Dropping, Chain, Add, Join, One
<1> HIDE DEF l1, l2, l3, l4, k2
<1>4. l1 \in Texts /\ l2 \in Texts /\ l3 \in Texts /\ Add(Opening, "NONE") \in Texts
  BY <1>1, Vocabulary, Strings, Opens, Adding
<1>5. Join(Opening, l4) = Add(Add(Add(Add(Opening, "NONE"), "KEY_HASH"),
                                  "SET_DELEGATE"), "CONS")
  BY <1>1, <1>4, Vocabulary, Strings, JoiningOne, JoiningAdded
<1>6. Join(Add(Opening, "NONE"), k2)
         = Add(Add(Add(Opening, "NONE"), "KEY_HASH"), "SET_DELEGATE")
  BY <1>1, <1>4, Vocabulary, Opens, JoiningOne, JoiningAdded
<1>7. Add(Add(Add(Opening, "NONE"), "KEY_HASH"), "SET_DELEGATE") \in Texts
  BY <1>4, Vocabulary, Adding
<1> QED BY <1>2, <1>3, <1>5, <1>6, <1>7, Vocabulary, JoiningOne

\* The three ways to a transfer, up to its amount.
LEMMA CallingSpelled ==
    /\ \A q \in Calling : q \in Texts /\ Len(q) \in {14, 26, 27}
    /\ PaysContract \cup {PaysImplicit} = {Join(q, Paying) : q \in Calling}
<1> DEFINE q1 == Append(HoldingKey, "IMPLICIT_ACCOUNT") \o Chain.to_implicit
           q2 == Append(HoldingAddress, "CONTRACT") \o Chain.to_contract
           q3 == Append(HoldingAddress, "CONTRACT_WITH_ENTRYPOINT") \o Chain.to_default
           k1 == << "PUSH" >>
           k2 == << "PUSH", "KEY_HASH" >>
           k3 == << "PUSH", "KEY_HASH", "<address>" >>
           k4 == << "PUSH", "KEY_HASH", "<address>", "IMPLICIT_ACCOUNT" >>
           k5 == << "PUSH", "KEY_HASH", "<address>", "IMPLICIT_ACCOUNT", "PUSH" >>
           k6 == << "PUSH", "KEY_HASH", "<address>", "IMPLICIT_ACCOUNT", "PUSH",
                    "MUTEZ" >>
           k7 == << "PUSH", "KEY_HASH", "<address>", "IMPLICIT_ACCOUNT", "PUSH",
                    "MUTEZ", "ZERO" >>
           m3 == << "PUSH", "MUTEZ", "ZERO" >>
           a2 == << "PUSH", "ADDRESS" >>
           a3 == << "PUSH", "ADDRESS", "<address>" >>
           c2 == << "CONTRACT", "CONTRACT_UNIT" >>
           d2 == << "CONTRACT_WITH_ENTRYPOINT", "CONTRACT_UNIT" >>
           d3 == << "CONTRACT_WITH_ENTRYPOINT", "CONTRACT_UNIT", "DEFAULT" >>
           u2 == << "CONTRACT_UNIT", "DEFAULT" >>
           held == Add(Add(Opening, "PUSH"), "ADDRESS")
<1>1. /\ k1 = One("PUSH") /\ k2 = Add(k1, "KEY_HASH") /\ k3 = Add(k2, "<address>")
      /\ k4 = Add(k3, "IMPLICIT_ACCOUNT") /\ k5 = Add(k4, "PUSH")
      /\ k6 = Add(k5, "MUTEZ") /\ k7 = Add(k6, "ZERO")
  BY Two, Three, Four, Five, Six, Seven DEF One, Add
<1>2. /\ m3 = Add(Add(One("PUSH"), "MUTEZ"), "ZERO")
      /\ a2 = Add(k1, "ADDRESS") /\ a3 = Add(a2, "<address>")
  BY Two, Three DEF One, Add
<1>3. /\ c2 = Add(One("CONTRACT"), "CONTRACT_UNIT")
      /\ d2 = Add(One("CONTRACT_WITH_ENTRYPOINT"), "CONTRACT_UNIT")
      /\ d3 = Add(d2, "DEFAULT") /\ u2 = Add(One("CONTRACT_UNIT"), "DEFAULT")
  BY Two, Three DEF One, Add
<1>4. /\ q1 = Join(Add(Add(Add(Add(Opening, "PUSH"), "KEY_HASH"), "<address>"),
                       "IMPLICIT_ACCOUNT"), m3)
      /\ q2 = Join(Add(Add(held, "<address>"), "CONTRACT"),
                   Join(One("CONTRACT_UNIT"), Guarded))
      /\ q3 = Join(Add(Add(held, "<address>"), "CONTRACT_WITH_ENTRYPOINT"),
                   Join(u2, Guarded))
  BY DEF HoldingKey, HoldingAddress, Pushing, Chain, Add, Join, One
<1>5. /\ PaysImplicit = Join(Join(Opening, k7), Paying)
      /\ PaysContract = {Join(Join(Join(Join(Opening, a3), c), Guarded), Paying) :
                            c \in {c2, d3}}
  BY Zenon DEF PaysImplicit, PaysContract, Guarded, Join
<1>6. Calling = {q1, q2, q3}
  BY DEF Calling
<1> HIDE DEF q1, q2, q3, k1, k2, k3, k4, k5, k6, k7, m3, a2, a3, c2, d2, d3, u2
<1>8. /\ k1 \in Texts /\ k2 \in Texts /\ k3 \in Texts /\ k4 \in Texts
      /\ k5 \in Texts /\ k6 \in Texts /\ k7 \in Texts
  BY <1>1, Vocabulary, Opens, Adding
<1>9. q1 = Join(Opening, k7) /\ q1 \in Texts
  <2> DEFINE p == Add(Add(Add(Add(Opening, "PUSH"), "KEY_HASH"), "<address>"),
                      "IMPLICIT_ACCOUNT")
  <2>1. Join(Opening, k4) = p
    BY <1>1, <1>8, Vocabulary, Strings, JoiningOne, JoiningAdded
  <2>2. p \in Texts
    BY Vocabulary, Strings, Adding
  <2> HIDE DEF p
  <2>3. Join(Opening, k7) = Add(Add(Add(p, "PUSH"), "MUTEZ"), "ZERO")
    BY <1>1, <1>8, <2>1, Vocabulary, Strings, JoiningAdded
  <2>4. One("PUSH") \in Texts /\ Add(One("PUSH"), "MUTEZ") \in Texts
    BY Vocabulary, Opens, Adding
  <2>5. Join(p, m3) = Add(Add(Add(p, "PUSH"), "MUTEZ"), "ZERO")
    BY <1>2, <2>2, <2>4, Vocabulary, JoiningOne, JoiningAdded
  <2> QED BY <1>4, <1>8, <2>3, <2>5, Strings, Joining DEF p
<1>10. /\ a2 \in Texts /\ a3 \in Texts /\ c2 \in Texts /\ d2 \in Texts /\ d3 \in Texts
       /\ u2 \in Texts /\ One("CONTRACT_UNIT") \in Texts
       /\ held \in Texts /\ Add(held, "<address>") \in Texts
  BY <1>1, <1>2, <1>3, <1>8, Vocabulary, Strings, Opens, Adding
<1> DEFINE h == Join(Opening, a3)
<1>11. h = Add(held, "<address>") /\ h \in Texts
  BY <1>1, <1>2, <1>8, <1>10, Vocabulary, Strings, JoiningOne, JoiningAdded
<1> HIDE DEF h, held
<1>12. /\ Add(h, "CONTRACT") \in Texts /\ Add(h, "CONTRACT_WITH_ENTRYPOINT") \in Texts
       /\ One("CONTRACT") \in Texts /\ One("CONTRACT_WITH_ENTRYPOINT") \in Texts
  BY <1>11, Vocabulary, Opens, Adding
<1>13. /\ Join(h, c2) = Add(Add(h, "CONTRACT"), "CONTRACT_UNIT")
       /\ Join(h, d2) = Add(Add(h, "CONTRACT_WITH_ENTRYPOINT"), "CONTRACT_UNIT")
       /\ Join(h, d3) = Add(Join(h, d2), "DEFAULT")
  BY <1>3, <1>10, <1>11, <1>12, Vocabulary, JoiningOne, JoiningAdded
<1>14. q2 = Join(Join(h, c2), Guarded)
  <2>1. q2 = Join(Join(Add(h, "CONTRACT"), One("CONTRACT_UNIT")), Guarded)
    BY <1>4, <1>10, <1>11, <1>12, Strings, JoiningJoined
  <2> QED BY <1>12, <1>13, <2>1, Vocabulary, JoiningOne
<1>15. q3 = Join(Join(h, d3), Guarded)
  <2> DEFINE e == Add(h, "CONTRACT_WITH_ENTRYPOINT")
  <2>1. q3 = Join(Join(e, u2), Guarded)
    BY <1>4, <1>10, <1>11, <1>12, Strings, JoiningJoined
  <2>2. Join(e, u2) = Add(Join(e, One("CONTRACT_UNIT")), "DEFAULT")
    BY <1>3, <1>10, <1>12, Vocabulary, JoiningAdded
  <2> QED BY <1>12, <1>13, <2>1, <2>2, Vocabulary, JoiningOne
<1>16. /\ Join(h, c2) \in Texts /\ Join(h, d3) \in Texts
       /\ q2 \in Texts /\ q3 \in Texts
  BY <1>10, <1>11, <1>14, <1>15, Strings, Joining
<1>17. Len(k7) = 7 /\ Len(a3) = 3 /\ Len(c2) = 2 /\ Len(d3) = 3
  BY DEF k7, a3, c2, d3
<1>18. /\ Len(Join(Opening, k7)) = Len(Opening) + Len(k7)
       /\ Len(Join(Opening, a3)) = Len(Opening) + Len(a3)
       /\ Len(Join(h, c2)) = Len(h) + Len(c2)
       /\ Len(Join(h, d3)) = Len(h) + Len(d3)
       /\ Len(Join(Join(h, c2), Guarded)) = Len(Join(h, c2)) + Len(Guarded)
       /\ Len(Join(Join(h, d3), Guarded)) = Len(Join(h, d3)) + Len(Guarded)
  BY <1>8, <1>10, <1>11, <1>16, Strings, Lengthening
<1>19. Len(h) = Len(Opening) + Len(a3)
  BY <1>18 DEF h
<1>20. Len(q1) = 14 /\ Len(q2) = 26 /\ Len(q3) = 27
  BY <1>9, <1>14, <1>15, <1>17, <1>18, <1>19, Strings
<1>21. /\ Join(q1, Paying) = PaysImplicit
       /\ PaysContract = {Join(q2, Paying), Join(q3, Paying)}
  BY <1>5, <1>9, <1>14, <1>15 DEF h
<1>22. PaysContract \cup {PaysImplicit} = {Join(q, Paying) : q \in Calling}
  BY <1>6, <1>21
<1> QED BY <1>6, <1>9, <1>16, <1>20, <1>22

LEMMA MovingSpelled ==
    \A p \in Moving : p \o Chain.close \in PaysContract \cup {PaysImplicit}
<1> SUFFICES ASSUME NEW q \in Calling
             PROVE  (Append(q, "<amount>") \o Chain.transfer) \o Chain.close = Join(q, Paying)
  BY CallingSpelled DEF Moving
<1> DEFINE t2 == << "UNIT", "TRANSFER_TOKENS" >>
           l1 == << "<amount>" >>
           l2 == << "<amount>", "UNIT" >>
           l3 == << "<amount>", "UNIT", "TRANSFER_TOKENS" >>
<1>1. /\ t2 = Add(One("UNIT"), "TRANSFER_TOKENS")
      /\ l1 = One("<amount>") /\ l2 = Add(l1, "UNIT")
      /\ l3 = Add(l2, "TRANSFER_TOKENS") /\ Paying = Add(l3, "CONS")
  BY Two, Three, Four DEF One, Add, Paying
<1>2. (Append(q, "<amount>") \o Chain.transfer) \o Chain.close
         = Join(Join(Add(q, "<amount>"), t2), One("CONS"))
  BY DEF Chain, Add, Join, One
<1> HIDE DEF t2, l1, l2, l3
<1> DEFINE p == Add(q, "<amount>")
<1>3. /\ q \in Texts /\ p \in Texts /\ One("UNIT") \in Texts
      /\ l1 \in Texts /\ l2 \in Texts /\ l3 \in Texts
  BY <1>1, Vocabulary, CallingSpelled, Opens, Adding
<1>4. Join(q, Paying) = Add(Add(Add(p, "UNIT"), "TRANSFER_TOKENS"), "CONS")
  BY <1>1, <1>3, Vocabulary, JoiningOne, JoiningAdded
<1> HIDE DEF p
<1>5. Join(p, t2) = Add(Add(p, "UNIT"), "TRANSFER_TOKENS")
  BY <1>1, <1>3, Vocabulary, JoiningOne, JoiningAdded
<1>6. Join(p, t2) \in Texts
  BY <1>3, <1>5, Vocabulary, Adding
<1>7. Join(Join(p, t2), One("CONS")) = Add(Add(Add(p, "UNIT"), "TRANSFER_TOKENS"), "CONS")
  BY <1>5, <1>6, Vocabulary, JoiningOne
<1> QED BY <1>2, <1>4, <1>7 DEF p

\* No two meanings go with scripts of the same length.
LEMMA ScriptLengths ==
    /\ Len(SetsDelegate) = 13 /\ Len(DropsDelegate) = 11
    /\ \A p \in PaysContract \cup {PaysImplicit} : Len(p) \in {18, 30, 31}
<1> DEFINE l6 == << "PUSH", "KEY_HASH", "<address>", "SOME", "SET_DELEGATE", "CONS" >>
           l4 == << "NONE", "KEY_HASH", "SET_DELEGATE", "CONS" >>
<1>1. l6 \in Texts /\ Len(l6) = 6 /\ l4 \in Texts /\ Len(l4) = 4
  BY Vocabulary DEF Texts
<1>2. SetsDelegate = Join(Opening, l6) /\ DropsDelegate = Join(Opening, l4)
  BY DEF SetsDelegate, DropsDelegate, Join
<1> HIDE DEF l6, l4
<1>3. /\ Len(Join(Opening, l6)) = Len(Opening) + Len(l6)
      /\ Len(Join(Opening, l4)) = Len(Opening) + Len(l4)
  BY <1>1, Strings, Lengthening
<1>4. ASSUME NEW q \in Calling PROVE Len(Join(q, Paying)) \in {18, 30, 31}
  <2>1. Len(Join(q, Paying)) = Len(q) + Len(Paying)
    BY Strings, CallingSpelled, Lengthening
  <2>2. Len(q) \in {14, 26, 27} /\ Len(Paying) = 4
    BY Strings, CallingSpelled
  <2>3. \A n \in {14, 26, 27} : n + 4 \in {18, 30, 31}
    OBVIOUS
  <2>4. Len(q) + 4 \in {18, 30, 31}
    BY <2>2, <2>3, Zenon
  <2> QED BY <2>1, <2>2, <2>4
<1>5. ASSUME NEW p \in PaysContract \cup {PaysImplicit} PROVE Len(p) \in {18, 30, 31}
  BY <1>4, CallingSpelled
<1> QED BY <1>1, <1>2, <1>3, <1>5, Strings

-----------------------------------------------------------------------------
(* What is shown is what is written: ToldInv says of every step how the     *)
(* struct and the operation written so far agree.  ScriptRead gives the     *)
(* script that leads there, ScriptTold what the struct has of it, and       *)
(* SourceTold and OperationTold what it has of the operations read.         *)

\* What has been read of a script when a step of it is entered.
Entered ==
    [begin        |-> {<< >>},
     first        |-> {Opening},
     second       |-> {Pushing},
     key_hash     |-> {Append(Pushing, "KEY_HASH")},
     address      |-> {Append(Pushing, "ADDRESS")},
     third        |-> {HoldingKey},
     fourth       |-> {HoldingAddress},
     set_delegate |-> {Append(HoldingKey, "SOME")},
     no_delegate  |-> {Append(Opening, "NONE")},
     to_implicit  |-> {Append(HoldingKey, "IMPLICIT_ACCOUNT")},
     to_contract  |-> {Append(HoldingAddress, "CONTRACT")},
     to_default   |-> {Append(HoldingAddress, "CONTRACT_WITH_ENTRYPOINT")},
     mutez        |-> Calling,
     transfer     |-> {Append(q, "<amount>") : q \in Calling},
     close        |-> {Setting, Dropping} \cup Moving]

ScriptRead ==
    /\ step \in Chains =>
          /\ at <= Len(Chain[step])
          /\ \E p \in Entered[step] :
                written.script = p \o SubSeq(Chain[step], 1, at - 1)
    /\ step \in Mid \ (Chains \cup {"unread"}) => written.script \in Entered[step]

Unaddressed == {"begin", "first", "second", "key_hash", "address", "no_delegate"}

Closing ==
    \/ /\ written.script = Setting /\ written.inner \in Address
       /\ out.tag = "BABYLON_DELEGATION" /\ out.destination.originated
    \/ /\ written.script = Dropping /\ written.inner = NoAddress
       /\ out.tag = "BABYLON_DELEGATION"
       /\ ~out.destination.originated /\ ~out.destination.typed
    \/ /\ written.script \in Moving /\ written.inner \in Address
       /\ out.tag = "BABYLON_TRANSACTION"

ScriptTold ==
    step \in Mid =>
        /\ Shown(out.source) = written.to
        /\ out.destination.text = written.inner /\ out.amount = written.moved
        /\ step \in Unaddressed => written.inner = NoAddress
        /\ step \notin Unaddressed \cup {"unread", "close"} => written.inner \in Address
        /\ step = "close" => Closing

Plain(op) == /\ op.script = << >> /\ op.to = NoAddress /\ op.amount = 0
             /\ op.inner = NoAddress /\ op.moved = 0

SourceTold ==
    /\ step \notin Mid => Plain(written)
    /\ step # "fail" => out.source.text = NoAddress
    /\ step \in {"manager", "public_key", "contents"} =>
          Shown(out.source) = written.source
    /\ step \in {"header", "top", "end"} /\ group # << >> =>
          LET last == group[Len(group)]
          IN  Shown(out.source) = IF last.tag \in Reveals THEN last.source
                                  ELSE Meaning(last).source

Agrees(op) ==
    /\ prompt_transaction.title = Meaning(op).title
    /\ prompt_transaction.destination = Meaning(op).destination
    /\ prompt_transaction.amount = Meaning(op).amount

OperationTold ==
    /\ step # "fail" /\ out.tag = "NONE" => out.amount = 0
    /\ \A i \in Operations : Agrees(group[i])

ToldInv == ScriptRead /\ ScriptTold /\ SourceTold /\ OperationTold

-----------------------------------------------------------------------------
(* The tables lead from script to script.                                   *)

LEMMA Spelling ==
    ASSUME NEW p \in Texts, NEW c \in Texts, NEW i \in 1 .. Len(c)
    PROVE  /\ Append(p \o SubSeq(c, 1, i - 1), c[i]) = p \o SubSeq(c, 1, i)
           /\ p \o SubSeq(c, 1, 0) = p /\ SubSeq(c, 1, Len(c)) = c
<1>1. p \in Seq(Words) /\ c \in Seq(Words)
  BY DEF Texts
<1> HIDE DEF Words
<1>2. Append(p \o SubSeq(c, 1, i - 1), c[i]) = p \o SubSeq(c, 1, i)
  BY <1>1
<1>3. p \o SubSeq(c, 1, 0) = p
  BY <1>1
<1>4. SubSeq(c, 1, Len(c)) = c
  BY <1>1
<1> QED BY <1>2, <1>3, <1>4

LEMMA ChainTexts == \A s \in Chains : Chain[s] \in Texts
<1>1. /\ Chain.begin = Opening
      /\ Chain.set_delegate = << "SET_DELEGATE" >>
      /\ Chain.no_delegate = << "KEY_HASH", "SET_DELEGATE" >>
      /\ Chain.to_implicit = << "PUSH", "MUTEZ", "ZERO" >>
      /\ Chain.to_contract = Join(<< "CONTRACT_UNIT" >>, Guarded)
      /\ Chain.to_default = Join(<< "CONTRACT_UNIT", "DEFAULT" >>, Guarded)
      /\ Chain.transfer = << "UNIT", "TRANSFER_TOKENS" >>
      /\ Chain.close = << "CONS" >>
  BY DEF Chain, Opening, Join
<1>2. /\ << "SET_DELEGATE" >> \in Texts /\ << "KEY_HASH", "SET_DELEGATE" >> \in Texts
      /\ << "PUSH", "MUTEZ", "ZERO" >> \in Texts /\ << "CONTRACT_UNIT" >> \in Texts
      /\ << "CONTRACT_UNIT", "DEFAULT" >> \in Texts
      /\ << "UNIT", "TRANSFER_TOKENS" >> \in Texts /\ << "CONS" >> \in Texts
  BY Vocabulary DEF Texts
<1>3. /\ Chain.begin \in Texts /\ Chain.set_delegate \in Texts
      /\ Chain.no_delegate \in Texts /\ Chain.to_implicit \in Texts
      /\ Chain.to_contract \in Texts /\ Chain.to_default \in Texts
      /\ Chain.transfer \in Texts /\ Chain.close \in Texts
  BY <1>1, <1>2, Strings, Joining
<1> QED BY <1>3 DEF Chains

LEMMA HeldTexts ==
    /\ Pushing \in Texts /\ HoldingKey \in Texts /\ HoldingAddress \in Texts
    /\ Append(Pushing, "KEY_HASH") \in Texts /\ Append(Pushing, "ADDRESS") \in Texts
    /\ Append(HoldingKey, "SOME") \in Texts /\ Append(Opening, "NONE") \in Texts
    /\ Append(HoldingKey, "IMPLICIT_ACCOUNT") \in Texts
    /\ Append(HoldingAddress, "CONTRACT") \in Texts
    /\ Append(HoldingAddress, "CONTRACT_WITH_ENTRYPOINT") \in Texts
    /\ \A q \in Calling : Append(q, "<amount>") \in Texts
<1>1. \A s \in Texts : \A x \in Words : Append(s, x) \in Texts
  BY Adding DEF Add
<1>2. Pushing \in Texts
  BY <1>1, Strings, Vocabulary DEF Pushing
<1>3. Append(Pushing, "KEY_HASH") \in Texts /\ Append(Pushing, "ADDRESS") \in Texts
  BY <1>1, <1>2, Vocabulary
<1>4. HoldingKey \in Texts /\ HoldingAddress \in Texts
  BY <1>1, <1>3, Vocabulary DEF HoldingKey, HoldingAddress
<1> QED BY <1>1, <1>2, <1>3, <1>4, Strings, Vocabulary, CallingSpelled

LEMMA Entries ==
    /\ Entered.begin = {<< >>} /\ Entered.first = {Opening}
    /\ Entered.second = {Pushing}
    /\ Entered.key_hash = {Append(Pushing, "KEY_HASH")}
    /\ Entered.address = {Append(Pushing, "ADDRESS")}
    /\ Entered.third = {HoldingKey} /\ Entered.fourth = {HoldingAddress}
    /\ Entered.set_delegate = {Append(HoldingKey, "SOME")}
    /\ Entered.no_delegate = {Append(Opening, "NONE")}
    /\ Entered.to_implicit = {Append(HoldingKey, "IMPLICIT_ACCOUNT")}
    /\ Entered.to_contract = {Append(HoldingAddress, "CONTRACT")}
    /\ Entered.to_default = {Append(HoldingAddress, "CONTRACT_WITH_ENTRYPOINT")}
    /\ Entered.mutez = Calling
    /\ Entered.transfer = {Append(q, "<amount>") : q \in Calling}
    /\ Entered.close = {Setting, Dropping} \cup Moving
BY DEF Entered

LEMMA EnteredTexts == \A s \in Chains : \A p \in Entered[s] : p \in Texts
<1>1. \A s, t \in Texts : s \o t \in Texts
  BY Joining DEF Join
<1>2. Setting \in Texts /\ Dropping \in Texts
  BY <1>1, HeldTexts, ChainTexts DEF Setting, Dropping, Chains
<1>3. ASSUME NEW q \in Calling PROVE Append(q, "<amount>") \o Chain.transfer \in Texts
  <2>1. Append(q, "<amount>") \in Texts /\ Chain.transfer \in Texts
    BY HeldTexts, ChainTexts DEF Chains
  <2> QED BY <1>1, <2>1
<1>4. \A p \in Moving : p \in Texts
  BY <1>3 DEF Moving
<1>5. << >> \in Texts
  BY DEF Texts
<1>6. /\ \A p \in Entered.begin : p \in Texts
      /\ \A p \in Entered.set_delegate : p \in Texts
      /\ \A p \in Entered.no_delegate : p \in Texts
      /\ \A p \in Entered.to_implicit : p \in Texts
      /\ \A p \in Entered.to_contract : p \in Texts
      /\ \A p \in Entered.to_default : p \in Texts
  BY <1>5, HeldTexts, Entries
<1>7. \A p \in Entered.transfer : p \in Texts
  <2>1. \A q \in Calling : Append(q, "<amount>") \in Texts
    BY HeldTexts
  <2>2. Entered.transfer = {Append(q, "<amount>") : q \in Calling}
    BY Entries
  <2> QED BY <2>1, <2>2, Zenon
<1>8. \A p \in Entered.close : p \in Texts
  BY <1>2, <1>4, Entries
<1> QED BY <1>6, <1>7, <1>8 DEF Chains

LEMMA ChainLeads ==
    \A s \in Chains \ {"close"} : \A p \in Entered[s] : p \o Chain[s] \in Entered[After[s]]
<1>1. << >> \o Chain.begin = Opening
  <2>1. \A t \in Seq(Words) : << >> \o t = t
    BY ConcatEmptySeq
  <2>2. Chain.begin = Opening
    BY DEF Chain, Opening
  <2> QED BY <2>1, <2>2, Strings DEF Texts
<1>2. /\ After.begin = "first" /\ After.set_delegate = "close"
      /\ After.no_delegate = "close" /\ After.to_implicit = "mutez"
      /\ After.to_contract = "mutez" /\ After.to_default = "mutez"
      /\ After.transfer = "close"
  BY DEF After
<1>3. \A p \in Entered.begin : p \o Chain.begin \in Entered[After.begin]
  BY <1>1, <1>2, Entries
<1>4. /\ \A p \in Entered.set_delegate : p \o Chain.set_delegate \in Entered.close
      /\ \A p \in Entered.no_delegate : p \o Chain.no_delegate \in Entered.close
  BY Entries DEF Setting, Dropping
<1>5. /\ \A p \in Entered.to_implicit : p \o Chain.to_implicit \in Entered.mutez
      /\ \A p \in Entered.to_contract : p \o Chain.to_contract \in Entered.mutez
      /\ \A p \in Entered.to_default : p \o Chain.to_default \in Entered.mutez
  BY Entries DEF Calling
<1>6. \A p \in Entered.transfer : p \o Chain.transfer \in Entered.close
  <2>1. \A q \in Calling : Append(q, "<amount>") \o Chain.transfer \in Moving
    BY DEF Moving
  <2> QED BY <2>1, Entries
<1> QED BY <1>2, <1>3, <1>4, <1>5, <1>6 DEF Chains

LEMMA BranchLeads ==
    \A b \in Branches : \A code \in DOMAIN Branch[b] : \A p \in Entered[b] :
        Append(p, code) \in Entered[Branch[b][code]]
<1>1. /\ Branch.first = [PUSH |-> "second", NONE |-> "no_delegate"]
      /\ Branch.second = [KEY_HASH |-> "key_hash", ADDRESS |-> "address"]
      /\ Branch.third = [SOME |-> "set_delegate", IMPLICIT_ACCOUNT |-> "to_implicit"]
      /\ Branch.fourth = [CONTRACT |-> "to_contract",
                          CONTRACT_WITH_ENTRYPOINT |-> "to_default"]
  BY DEF Branch
<1>2. ASSUME NEW code \in DOMAIN Branch.first, NEW p \in Entered.first
      PROVE  Append(p, code) \in Entered[Branch.first[code]]
  <2>1. Append(p, "PUSH") \in Entered.second /\ Append(p, "NONE") \in Entered.no_delegate
    BY Entries DEF Pushing
  <2>2. \/ code = "PUSH" /\ Branch.first[code] = "second"
        \/ code = "NONE" /\ Branch.first[code] = "no_delegate"
    BY <1>1
  <2> QED BY <2>1, <2>2
<1>3. ASSUME NEW code \in DOMAIN Branch.second, NEW p \in Entered.second
      PROVE  Append(p, code) \in Entered[Branch.second[code]]
  <2>1. Append(p, "KEY_HASH") \in Entered.key_hash /\ Append(p, "ADDRESS") \in Entered.address
    BY Entries
  <2>2. \/ code = "KEY_HASH" /\ Branch.second[code] = "key_hash"
        \/ code = "ADDRESS" /\ Branch.second[code] = "address"
    BY <1>1
  <2> QED BY <2>1, <2>2
<1>4. ASSUME NEW code \in DOMAIN Branch.third, NEW p \in Entered.third
      PROVE  Append(p, code) \in Entered[Branch.third[code]]
  <2>1. Append(p, "SOME") \in Entered.set_delegate /\ Append(p, "IMPLICIT_ACCOUNT") \in Entered.to_implicit
    BY Entries
  <2>2. \/ code = "SOME" /\ Branch.third[code] = "set_delegate"
        \/ code = "IMPLICIT_ACCOUNT" /\ Branch.third[code] = "to_implicit"
    BY <1>1
  <2> QED BY <2>1, <2>2
<1>5. ASSUME NEW code \in DOMAIN Branch.fourth, NEW p \in Entered.fourth
      PROVE  Append(p, code) \in Entered[Branch.fourth[code]]
  <2>1. Append(p, "CONTRACT") \in Entered.to_contract /\ Append(p, "CONTRACT_WITH_ENTRYPOINT") \in Entered.to_default
    BY Entries
  <2>2. \/ code = "CONTRACT" /\ Branch.fourth[code] = "to_contract"
        \/ code = "CONTRACT_WITH_ENTRYPOINT" /\ Branch.fourth[code] = "to_default"
    BY <1>1
  <2> QED BY <2>1, <2>2
<1> QED BY <1>2, <1>3, <1>4, <1>5 DEF Branches

-----------------------------------------------------------------------------
(* What an operation means, and what the struct shows.                      *)

LEMMA ScriptsDiffer ==
    /\ SetsDelegate # << >> /\ DropsDelegate # << >> /\ SetsDelegate # DropsDelegate
    /\ \A p \in PaysContract \cup {PaysImplicit} :
          p \notin {<< >>, SetsDelegate, DropsDelegate}
<1>1. Len(<< >>) = 0 /\ Len(SetsDelegate) = 13 /\ Len(DropsDelegate) = 11
  BY ScriptLengths
<1>2. 0 # 13 /\ 0 # 11 /\ 13 # 11
  OBVIOUS
<1>3. ASSUME NEW p \in PaysContract \cup {PaysImplicit}
      PROVE  Len(p) # 0 /\ Len(p) # 13 /\ Len(p) # 11
  <2>1. Len(p) \in {18, 30, 31}
    BY ScriptLengths
  <2>2. \A n \in {18, 30, 31} : n # 0 /\ n # 13 /\ n # 11
    OBVIOUS
  <2> QED BY <2>1, <2>2, Zenon
<1> QED BY <1>1, <1>2, <1>3, Zenon

\* Meaning's cases exclude each other.
PlainTold(op, t) == [title |-> t, source |-> op.source, destination |-> op.to,
                     amount |-> op.amount]
InnerTold(op, t) == [title |-> t, source |-> op.to, destination |-> op.inner,
                     amount |-> op.moved]

LEMMA SameTold ==
    ASSUME NEW T, NEW A, NEW N,
           NEW r \in [title : T, source : A, destination : A, amount : N],
           NEW q \in [title : T, source : A, destination : A, amount : N],
           r.title = q.title, r.source = q.source,
           r.destination = q.destination, r.amount = q.amount
    PROVE  r = q
OBVIOUS

LEMMA Entitled ==
    ASSUME NEW a, NEW b, NEW c, NEW t
    PROVE  [[title |-> "", source |-> a, destination |-> b, amount |-> c]
               EXCEPT !.title = t]
            = [title |-> t, source |-> a, destination |-> b, amount |-> c]
<1> DEFINE r == [title |-> "", source |-> a, destination |-> b, amount |-> c]
           q == [title |-> t, source |-> a, destination |-> b, amount |-> c]
           e == [r EXCEPT !.title = t]
           T == {"", t}
           A == {a, b}
           N == {c}
           R == [title : T, source : A, destination : A, amount : N]
<1>1. r \in R /\ q \in R
  OBVIOUS
<1>2. /\ q.title = t /\ q.source = r.source /\ q.destination = r.destination
      /\ q.amount = r.amount
  OBVIOUS
<1>3. t \in T
  OBVIOUS
<1> HIDE DEF r, q, T, A, N
<1>4. e \in R
  BY <1>1, <1>3
<1>5. /\ e.title = t /\ e.source = r.source /\ e.destination = r.destination
      /\ e.amount = r.amount
  BY <1>1
<1> HIDE DEF e
<1>6. e = q
  BY <1>1, <1>2, <1>4, <1>5, SameTold
<1> QED BY <1>6 DEF r, q, e

LEMMA Titled ==
    ASSUME NEW op, NEW t
    PROVE  /\ [PlainTold(op, "") EXCEPT !.title = t] = PlainTold(op, t)
           /\ [InnerTold(op, "") EXCEPT !.title = t] = InnerTold(op, t)
BY Entitled, Zenon DEF PlainTold, InnerTold

LEMMA Meanings ==
    ASSUME NEW op \in Operation
    PROVE  /\ op.tag \in Votes /\ op.script = << >> =>
                 Meaning(op) = PlainTold(op, op.tag)
           /\ op.tag \in Delegations /\ op.script = << >> =>
                 Meaning(op) = PlainTold(op, IF op.to = NoAddress THEN "withdraw"
                                             ELSE "delegation")
           /\ op.tag \in Transactions =>
                 /\ op.script = << >> => Meaning(op) = PlainTold(op, "transaction")
                 /\ op.script = SetsDelegate => Meaning(op) = InnerTold(op, "delegation")
                 /\ op.script = DropsDelegate => Meaning(op) = InnerTold(op, "withdraw")
                 /\ op.script \in PaysContract \cup {PaysImplicit} =>
                       Meaning(op) = InnerTold(op, "transaction")
<1> DEFINE plain == PlainTold(op, "")
           inner == InnerTold(op, "")
           v == [plain EXCEPT !.title = op.tag]
           d == [plain EXCEPT !.title = IF op.to = NoAddress THEN "withdraw"
                                                             ELSE "delegation"]
           t == [plain EXCEPT !.title = "transaction"]
           s == [inner EXCEPT !.title = "delegation"]
           n == [inner EXCEPT !.title = "withdraw"]
           m == [inner EXCEPT !.title = "transaction"]
           sets == op.script = SetsDelegate
           drops == op.script = DropsDelegate
           empty == op.script = << >>
           pays == op.script \in PaysContract \cup {PaysImplicit}
<1>1. /\ v = PlainTold(op, op.tag) /\ t = PlainTold(op, "transaction")
      /\ d = PlainTold(op, IF op.to = NoAddress THEN "withdraw" ELSE "delegation")
      /\ s = InnerTold(op, "delegation") /\ n = InnerTold(op, "withdraw")
      /\ m = InnerTold(op, "transaction")
  BY Titled, Zenon
<1>2. /\ \A x \in Votes : x \notin Delegations /\ x \notin Transactions
      /\ \A x \in Delegations : x \notin Transactions
  BY DEF Votes, Delegations, Transactions
<1>3. /\ sets => ~drops /\ ~empty /\ ~pays
      /\ drops => ~empty /\ ~pays
      /\ empty => ~pays
  BY ScriptsDiffer, Zenon
<1>4. Meaning(op) =
        CASE op.tag \in Votes -> v
          [] op.tag \in Delegations -> d
          [] op.tag \in Transactions /\ empty -> t
          [] sets -> s
          [] drops -> n
          [] pays -> m
          [] OTHER -> plain
  BY Zenon DEF Meaning, PlainTold, InnerTold
<1> HIDE DEF plain, inner, v, d, t, s, n, m, sets, drops, empty, pays
<1>5. ASSUME op.tag \in Votes, empty PROVE Meaning(op) = v
  BY <1>2, <1>3, <1>4, <1>5
<1>6. ASSUME op.tag \in Delegations, empty PROVE Meaning(op) = d
  BY <1>2, <1>3, <1>4, <1>6
<1>7. ASSUME op.tag \in Transactions, empty PROVE Meaning(op) = t
  BY <1>2, <1>3, <1>4, <1>7
<1>8. ASSUME op.tag \in Transactions, sets PROVE Meaning(op) = s
  BY <1>2, <1>3, <1>4, <1>8
<1>9. ASSUME op.tag \in Transactions, drops PROVE Meaning(op) = n
  BY <1>2, <1>3, <1>4, <1>9, Zenon
<1>10. ASSUME op.tag \in Transactions, pays PROVE Meaning(op) = m
  BY <1>2, <1>3, <1>4, <1>10, Zenon
<1> QED BY <1>1, <1>5, <1>6, <1>7, <1>8, <1>9, <1>10, Zenon DEF sets, drops, empty, pays

LEMMA TagsDiffer ==
    /\ \A x \in Votes : x \notin Delegations /\ x \notin Transactions /\ x # "NONE"
    /\ \A x \in Delegations : x \notin Transactions /\ x # "NONE"
    /\ "NONE" \notin Transactions
    /\ "BABYLON_DELEGATION" \in Delegations /\ "BABYLON_TRANSACTION" \in Transactions
BY DEF Votes, Delegations, Transactions

\* The prompt of the next state.
LEMMA NextPrompt ==
    /\ out'.tag \in Votes => prompt_transaction'.title = out'.tag
    /\ out'.tag \in Delegations =>
          prompt_transaction'.title =
             IF ~out'.destination.originated /\ ~out'.destination.typed
             THEN "withdraw" ELSE "delegation"
    /\ out'.tag \in Transactions => prompt_transaction'.title = "transaction"
    /\ prompt_transaction'.source = Shown(out'.source)
    /\ prompt_transaction'.destination = Shown(out'.destination)
    /\ prompt_transaction'.amount = out'.amount
<1> DEFINE delegated == IF ~out'.destination.originated /\ ~out'.destination.typed
                         THEN "withdraw" ELSE "delegation"
           title == CASE out'.tag \in Votes -> out'.tag
                      [] out'.tag \in Delegations -> delegated
                      [] out'.tag \in Transactions -> "transaction"
                      [] out'.tag = "NONE" -> "reveal"
                      [] OTHER -> "not shown"
           destination == Shown(out'.destination)
           source == Shown(out'.source)
<1>1. prompt_transaction' = [title |-> title, source |-> source,
                             destination |-> destination, amount |-> out'.amount]
  BY DEF prompt_transaction
<1> HIDE DEF destination, source, delegated
<1>2. out'.tag \in Votes => title = out'.tag
  BY TagsDiffer
<1>3. out'.tag \in Delegations => title = delegated
  BY TagsDiffer
<1>4. out'.tag \in Transactions => title = "transaction"
  BY TagsDiffer
<1> HIDE DEF title
<1>5. /\ prompt_transaction'.title = title /\ prompt_transaction'.source = source
      /\ prompt_transaction'.destination = destination
      /\ prompt_transaction'.amount = out'.amount
  BY <1>1
<1> QED BY <1>2, <1>3, <1>4, <1>5 DEF destination, source, delegated

LEMMA ShownHash ==
    ASSUME NEW c, c.text = NoAddress, c.originated = FALSE, c.typed, c.hash \notin Kt
    PROVE  Shown(c) = c.hash
<1>1. (c.hash \in Kt) = FALSE
  OBVIOUS
<1>2. c.originated = (c.hash \in Kt)
  BY <1>1, Zenon
<1> QED BY <1>2, Zenon DEF Shown

\* Addresses read into a struct that has no text read back.
LEMMA ReadsBack ==
    ASSUME NEW c \in parsed_contract, NEW a \in Address, c.text = NoAddress
    PROVE  /\ Shown(parse_contract(c, a)) = a /\ parse_contract(c, a).text = NoAddress
           /\ a \in Tz => /\ Shown(parse_implicit(c, a)) = a
                          /\ parse_implicit(c, a).typed
<1>1. a # NoAddress /\ (a \in Tz => a \notin Kt)
  BY DEF Address
<1>2. LET d == parse_implicit(c, a)
      IN  d.text = NoAddress /\ d.typed /\ d.originated = FALSE /\ d.hash = a
  BY DEF parse_implicit, parsed_contract
<1>3. LET d == parse_contract(c, a)
      IN  /\ d.text = NoAddress /\ d.hash = a
          /\ a \in Kt => d.originated = TRUE
          /\ a \notin Kt => d.originated = FALSE /\ d.typed
  BY DEF parse_contract, parse_implicit, parsed_contract
<1> DEFINE d == parse_contract(c, a)
           e == parse_implicit(c, a)
<1> HIDE DEF d, e
<1>4. Shown(d) = a
  <2>1. CASE a \in Kt
    BY <1>3, <2>1 DEF Shown, d
  <2>2. CASE a \notin Kt
    BY <1>3, <2>2, ShownHash DEF d
  <2> QED BY <2>1, <2>2
<1>5. a \in Tz => Shown(e) = a
  BY <1>1, <1>2, ShownHash DEF e
<1> QED BY <1>2, <1>3, <1>4, <1>5 DEF d, e

LEMMA ClearReadsBack ==
    /\ Shown(NoContract) = NoAddress /\ NoContract.text = NoAddress
    /\ ~NoContract.originated /\ ~NoContract.typed /\ NoContract \in parsed_contract
    /\ signing.text = NoAddress /\ Plain(Unwritten)
BY Fresh DEF NoContract, Shown, signing, parse_implicit, Plain, Unwritten

-----------------------------------------------------------------------------
(* Steps of the four kinds again.                                           *)

LEMMA ToldRefused == ASSUME parse_error PROVE ToldInv'
<1>1. step' = "fail" /\ written' = Unwritten /\ group' = << >> /\ Operations' = {}
  BY EmptyGroup DEF parse_error, Goto
<1>2. step' \notin Mid /\ step' \notin Chains
  BY <1>1 DEF Mid, Chains, Branches
<1>3. ScriptRead' /\ ScriptTold'
  BY <1>2 DEF ScriptRead, ScriptTold
<1>4. SourceTold'
  BY <1>1, <1>2, ClearReadsBack DEF SourceTold, Plain
<1>5. OperationTold'
  BY <1>1 DEF OperationTold
<1> QED BY <1>3, <1>4, <1>5 DEF ToldInv

LEMMA ToldRestarts == parse_operations_init => ToldInv'
<1> SUFFICES ASSUME parse_operations_init PROVE ToldInv'
  OBVIOUS
<1>1. /\ step' = "header" /\ written' = Unwritten /\ group' = << >>
      /\ out' = FreshOut /\ Operations' = {}
  BY EmptyGroup DEF parse_operations_init
<1>2. step' \notin Mid /\ step' \notin Chains
  BY <1>1 DEF Mid, Chains, Branches
<1>3. ScriptRead' /\ ScriptTold'
  BY <1>2 DEF ScriptRead, ScriptTold
<1>4. SourceTold'
  BY <1>1, <1>2, ClearReadsBack DEF SourceTold, Plain, FreshOut
<1>5. OperationTold'
  BY <1>1 DEF OperationTold, FreshOut
<1> QED BY <1>3, <1>4, <1>5 DEF ToldInv

LEMMA ToldEnds ==
    ASSUME IndInv, NEW op \in Operation, NEW next \in {"top", "end"},
           Complete(op, next), Operations = {}, op.tag \notin Reveals,
           out'.tag # "NONE", out'.source.text = NoAddress,
           Shown(out'.source) = Meaning(op).source,
           prompt_transaction'.title = Meaning(op).title,
           prompt_transaction'.destination = Meaning(op).destination,
           prompt_transaction'.amount = Meaning(op).amount
    PROVE  ToldInv'
<1>1. step' = next /\ written' = Unwritten /\ group' = Append(group, op)
  BY DEF Complete, Goto
<1>2. /\ group' \in Seq(Operation) /\ Len(group') = Len(group) + 1
      /\ group'[Len(group) + 1] = op
      /\ Operations' = {Len(group) + 1}
  BY <1>1, Appended, Pieces
<1>3. step' \notin Mid /\ step' \notin Chains
  BY <1>1 DEF Mid, Chains, Branches
<1>4. ScriptRead' /\ ScriptTold'
  BY <1>3 DEF ScriptRead, ScriptTold
<1>5. SourceTold'
  BY <1>1, <1>2, <1>3, ClearReadsBack DEF SourceTold, Plain
<1>6. OperationTold'
  BY <1>1, <1>2 DEF OperationTold, Agrees
<1> QED BY <1>4, <1>5, <1>6 DEF ToldInv

LEMMA ToldContinues ==
    ASSUME IndInv, step' \in Mid, group' = group, Operations = {},
           out'.tag # "NONE", out'.source.text = NoAddress, ScriptRead', ScriptTold'
    PROVE  ToldInv'
<1>1. step' \notin {"manager", "public_key", "contents", "header", "top", "end", "fail"}
  BY DEF Mid, Chains, Branches
<1>2. Operations' = {}
  BY DEF Operations
<1>3. SourceTold'
  BY <1>1 DEF SourceTold
<1>4. OperationTold'
  BY <1>2 DEF OperationTold
<1> QED BY <1>3, <1>4 DEF ToldInv

LEMMA ToldReads ==
    ASSUME IndInv, ToldInv, step \in Fields, step \notin {"end", "fail"},
           step' \in Fields \ {"end", "fail"}, group' = group,
           out'.tag = out.tag, out'.destination = out.destination,
           out'.amount = out.amount, Plain(written)', SourceTold'
    PROVE  ToldInv'
<1>1. step' \notin Mid /\ step' \notin Chains
  BY DEF Mid, Chains, Branches, Fields
<1>2. ScriptRead' /\ ScriptTold'
  BY <1>1 DEF ScriptRead, ScriptTold
<1>3. Operations' = Operations
  BY DEF Operations
<1>4. OperationTold'
  BY <1>3 DEF ToldInv, OperationTold, Agrees, prompt_transaction
<1> QED BY <1>2, <1>4 DEF ToldInv

-----------------------------------------------------------------------------
(* The fields, again.                                                       *)

LEMMA ToldHeader == ToldInv /\ IndInv /\ read_header => ToldInv'
<1> SUFFICES ASSUME ToldInv, IndInv, read_header PROVE ToldInv'
  OBVIOUS
<1>1. CASE parse_error
  BY <1>1, ToldRefused
<1>2. CASE ~parse_error
  <2>1. step = "header" /\ step' = "top" /\ UNCHANGED <<written, group, tag, out>>
    BY <1>2 DEF read_header, Goto
  <2>2. step \notin Mid /\ step' \notin Mid
    BY <2>1 DEF Mid, Chains, Branches
  <2>3. Plain(written)' /\ SourceTold'
    BY <2>1, <2>2 DEF ToldInv, SourceTold, Plain
  <2> QED BY <2>1, <2>3, ToldReads DEF Fields
<1> QED BY <1>1, <1>2

LEMMA ToldTag == ASSUME ToldInv, IndInv, NEW t \in Tag, read_tag(t) PROVE ToldInv'
<1>1. CASE t \in Allowed
  <2>1. /\ step = "top" /\ step' = "source"
        /\ written' = [written EXCEPT !.tag = t] /\ UNCHANGED <<group, out>>
    BY <1>1 DEF read_tag, Goto
  <2>2. step \notin Mid /\ step' \notin Mid
    BY <2>1 DEF Mid, Chains, Branches
  <2>3. Plain(written)'
    BY <2>1, <2>2, Pieces DEF ToldInv, SourceTold, Plain, Operation
  <2>4. SourceTold'
    BY <2>1, <2>2, <2>3 DEF ToldInv, SourceTold
  <2> QED BY <2>1, <2>3, <2>4, ToldReads DEF Fields
<1>2. CASE t \notin Allowed
  BY <1>2, ToldRefused DEF read_tag
<1> QED BY <1>1, <1>2

LEMMA ToldSource ==
    ASSUME ToldInv, IndInv, NEW a \in Address, read_source(a) PROVE ToldInv'
<1> DEFINE c == parse_contract(out.source, a)
<1>1. /\ step = "source" /\ step' \in {"contents", "manager"}
      /\ out' = [out EXCEPT !.source = c]
      /\ written' = [written EXCEPT !.source = a] /\ UNCHANGED group
  BY DEF read_source, Goto
<1>2. step \notin Mid /\ step' \notin Mid
  BY <1>1 DEF Mid, Chains, Branches
<1>3. Shown(c) = a /\ c.text = NoAddress
  BY <1>1, Pieces, ReadsBack DEF ToldInv, SourceTold
<1> HIDE DEF c
<1>4. /\ out'.source = c /\ out'.tag = out.tag
      /\ out'.destination = out.destination /\ out'.amount = out.amount
  BY <1>1, Pieces DEF Group_t
<1>5. Plain(written)' /\ written'.source = a
  BY <1>1, <1>2, Pieces DEF ToldInv, SourceTold, Plain, Operation
<1>6. SourceTold'
  BY <1>1, <1>2, <1>3, <1>4, <1>5 DEF SourceTold
<1> QED BY <1>1, <1>4, <1>5, <1>6, ToldReads DEF Fields

LEMMA ToldManager ==
    ASSUME ToldInv, IndInv, NEW fee \in Number, NEW storage \in Number,
           read_manager_fields(fee, storage)
    PROVE  ToldInv'
<1>1. /\ step = "manager" /\ step' \in {"public_key", "contents"}
      /\ out' = [out EXCEPT
                   !.total_fee = (out.total_fee + fee) % Word,
                   !.total_storage_limit = (out.total_storage_limit + storage) % Word]
      /\ written' = [written EXCEPT !.fee = fee, !.storage = storage]
      /\ UNCHANGED group
  BY DEF read_manager_fields, Goto
<1>2. step \notin Mid /\ step' \notin Mid
  BY <1>1 DEF Mid, Chains, Branches
<1>3. /\ out'.source = out.source /\ out'.tag = out.tag
      /\ out'.destination = out.destination /\ out'.amount = out.amount
  BY <1>1, Pieces DEF Group_t
<1>4. Plain(written)' /\ written'.source = written.source
  BY <1>1, <1>2, Pieces DEF ToldInv, SourceTold, Plain, Operation
<1>5. SourceTold'
  BY <1>1, <1>2, <1>3, <1>4 DEF ToldInv, SourceTold
<1> QED BY <1>1, <1>3, <1>4, <1>5, ToldReads DEF Fields

\* A reveal leaves its source in the struct, and nothing else.
LEMMA ToldReveal ==
    ASSUME ToldInv, IndInv, NEW key \in Tz, read_public_key(key) PROVE ToldInv'
<1>1. CASE key = me
  <2> DEFINE op == [written EXCEPT !.key = me]
  <2>1. /\ step = "public_key" /\ step' = "top"
        /\ out' = [out EXCEPT !.has_reveal = TRUE]
        /\ group' = Append(group, op) /\ written' = Unwritten
    BY <1>1 DEF read_public_key, Complete, Goto
  <2>2. step \notin Mid /\ step' \notin Mid /\ step' \notin Chains
    BY <2>1 DEF Mid, Chains, Branches
  <2>3. op \in Operation /\ op.source = written.source /\ op.tag \in Reveals
    BY <2>1, Pieces DEF Operation, IndInv, Reading
  <2> HIDE DEF op
  <2>4. /\ group' \in Seq(Operation) /\ Operations' = Operations
        /\ Len(group') = Len(group) + 1 /\ group'[Len(group) + 1] = op
        /\ \A i \in Operations : group'[i] = group[i]
    BY <2>1, <2>3, Appended, Pieces DEF Operations
  <2>5. /\ out'.source = out.source /\ out'.tag = out.tag
        /\ out'.destination = out.destination /\ out'.amount = out.amount
    BY <2>1, Pieces DEF Group_t
  <2>6. ScriptRead' /\ ScriptTold'
    BY <2>2 DEF ScriptRead, ScriptTold
  <2>7. Plain(written)'
    BY <2>1, ClearReadsBack DEF Plain
  <2>8. SourceTold'
    BY <2>1, <2>2, <2>3, <2>4, <2>5, <2>7 DEF ToldInv, SourceTold
  <2>9. OperationTold'
    BY <2>1, <2>4, <2>5 DEF ToldInv, OperationTold, Agrees, prompt_transaction
  <2> QED BY <2>6, <2>8, <2>9 DEF ToldInv
<1>2. CASE key # me
  BY <1>2, ToldRefused DEF read_public_key
<1> QED BY <1>1, <1>2

\* Where the contents of an operation are read.
LEMMA ToldAdmitted ==
    ASSUME ToldInv, IndInv, admitted
    PROVE  /\ Operations = {} /\ out.destination = NoContract
           /\ written.tag = tag /\ tag \in Tag \ Reveals
           /\ Plain(written) /\ out.amount = 0 /\ out.source.text = NoAddress
           /\ Shown(out.source) = written.source
<1>1. step = "contents" /\ out.tag = "NONE"
  BY DEF admitted
<1>2. step \notin Mid
  BY <1>1 DEF Mid, Chains, Branches
<1> QED BY <1>1, <1>2, Admitted DEF ToldInv, SourceTold, OperationTold

LEMMA ToldVote == ToldInv /\ IndInv /\ read_vote => ToldInv'
<1> SUFFICES ASSUME ToldInv, IndInv, read_vote PROVE ToldInv'
  OBVIOUS
<1>1. /\ admitted /\ tag \in Votes /\ out' = [out EXCEPT !.tag = tag]
      /\ Complete(written, "end")
  BY DEF read_vote
<1>2. /\ out'.tag = tag /\ out'.source = out.source
      /\ out'.destination = NoContract /\ out'.amount = 0
  BY <1>1, ToldAdmitted, Pieces DEF Group_t
<1>3. /\ Meaning(written) = PlainTold(written, tag)
      /\ written.to = NoAddress /\ written.amount = 0
  BY <1>1, ToldAdmitted, Meanings, Pieces DEF Plain
<1>4. /\ Meaning(written).title = tag /\ Meaning(written).source = written.source
      /\ Meaning(written).destination = NoAddress /\ Meaning(written).amount = 0
  BY <1>3 DEF PlainTold
<1>5. tag # "NONE"
  BY <1>1, TagsDiffer
<1>6. /\ prompt_transaction'.title = tag
      /\ prompt_transaction'.destination = NoAddress
      /\ prompt_transaction'.amount = 0
  BY <1>1, <1>2, NextPrompt, ClearReadsBack
<1> QED BY <1>1, <1>2, <1>4, <1>5, <1>6, ToldAdmitted, ToldEnds, Pieces

LEMMA ToldDelegate ==
    ASSUME ToldInv, IndInv, NEW a \in Tz \cup {NoAddress}, read_delegate(a)
    PROVE  ToldInv'
<1> DEFINE op == [written EXCEPT !.to = a]
           c == IF a = NoAddress
                THEN [NoContract EXCEPT !.originated = FALSE, !.typed = FALSE]
                ELSE parse_implicit(NoContract, a)
           word == IF a = NoAddress THEN "withdraw" ELSE "delegation"
<1>1. admitted /\ tag \in Delegations /\ Complete(op, "top")
  BY DEF read_delegate
<1>2. out' = [out EXCEPT !.tag = tag, !.destination = c]
  BY <1>1, ToldAdmitted DEF read_delegate
<1>3. /\ Shown(c) = a
      /\ a = NoAddress => ~c.originated /\ ~c.typed
      /\ a # NoAddress => c.typed
  <2>1. CASE a = NoAddress
    BY <2>1, StillNone, ClearReadsBack
  <2>2. CASE a # NoAddress
    BY <2>2, ClearReadsBack, ReadsBack DEF Address
  <2> QED BY <2>1, <2>2
<1>4. /\ op \in Operation /\ op.tag = tag /\ op.to = a /\ op.amount = 0
      /\ op.script = << >> /\ op.source = written.source
  BY <1>1, ToldAdmitted, Pieces DEF Operation, Maybe, Address, Plain
<1> HIDE DEF c, op, word
<1>5. /\ out'.tag = tag /\ out'.source = out.source
      /\ out'.destination = c /\ out'.amount = 0
  BY <1>1, <1>2, ToldAdmitted, Pieces DEF Group_t
<1>6. Meaning(op) = PlainTold(op, word)
  BY <1>1, <1>4, Meanings DEF word
<1>7. /\ Meaning(op).title = word /\ Meaning(op).source = written.source
      /\ Meaning(op).destination = a /\ Meaning(op).amount = 0
  BY <1>4, <1>6 DEF PlainTold
<1>8. tag # "NONE"
  BY <1>1, TagsDiffer
<1>9. /\ prompt_transaction'.title = word
      /\ prompt_transaction'.destination = a
      /\ prompt_transaction'.amount = 0
  BY <1>1, <1>3, <1>5, NextPrompt DEF word
<1> QED BY <1>1, <1>4, <1>5, <1>7, <1>8, <1>9, ToldAdmitted, ToldEnds, Pieces

LEMMA ToldTransfer ==
    ASSUME ToldInv, IndInv, NEW amount \in Number, NEW a \in Address,
           NEW params \in BOOLEAN, read_transfer(amount, a, params)
    PROVE  ToldInv'
<1> DEFINE c == parse_contract(out.destination, a)
           sent == [out EXCEPT !.tag = tag, !.amount = amount, !.destination = c]
           called == [sent EXCEPT !.is_manager_tz_operation = TRUE, !.source = c]
           op == [written EXCEPT !.to = a, !.amount = amount]
<1>1. admitted /\ tag \in Transactions
  BY DEF read_transfer
<1>2. \/ out' = sent /\ Complete(op, "top")
      \/ parse_error
      \/ /\ amount = 0 /\ out' = called /\ Goto("begin") /\ written' = op
         /\ group' = group
  BY DEF read_transfer
<1>3. Shown(c) = a /\ c.text = NoAddress
  BY <1>1, ToldAdmitted, ClearReadsBack, ReadsBack
<1>4. /\ op \in Operation /\ op.tag = tag /\ op.to = a /\ op.amount = amount
      /\ op.script = << >> /\ op.source = written.source
      /\ op.inner = NoAddress /\ op.moved = 0
  BY <1>1, ToldAdmitted, Pieces DEF Operation, Maybe, Plain
<1> HIDE DEF c, op
<1>5. /\ sent.tag = tag /\ sent.source = out.source /\ sent.destination = c
      /\ sent.amount = amount
  BY Pieces DEF Group_t
<1>6. /\ called.tag = tag /\ called.source = c /\ called.destination = c
      /\ called.amount = amount
  <2>1. /\ \A x \in parsed_contract :
              LET s == [out EXCEPT !.tag = tag, !.amount = amount, !.destination = x]
                  q == [s EXCEPT !.is_manager_tz_operation = TRUE, !.source = x]
              IN  q.tag = tag /\ q.source = x /\ q.destination = x /\ q.amount = amount
    BY Pieces DEF Group_t
  <2>2. c \in parsed_contract
    BY Contracts, Pieces DEF c
  <2> QED BY <2>1, <2>2
<1>7. tag # "NONE" /\ tag \notin Reveals
  BY <1>1, TagKinds, TagsDiffer
<1> HIDE DEF sent, called
<1>8. CASE out' = sent /\ Complete(op, "top")
  <2>1. Meaning(op) = PlainTold(op, "transaction")
    BY <1>1, <1>4, Meanings
  <2>2. /\ Meaning(op).title = "transaction" /\ Meaning(op).source = written.source
        /\ Meaning(op).destination = a /\ Meaning(op).amount = amount
    BY <1>4, <2>1 DEF PlainTold
  <2>3. /\ prompt_transaction'.title = "transaction"
        /\ prompt_transaction'.destination = a
        /\ prompt_transaction'.amount = amount
    BY <1>1, <1>3, <1>5, <1>8, NextPrompt
  <2> QED BY <1>1, <1>4, <1>5, <1>7, <1>8, <2>2, <2>3, ToldAdmitted, ToldEnds
<1>9. CASE /\ amount = 0 /\ out' = called /\ Goto("begin") /\ written' = op
           /\ group' = group
  <2>1. step' = "begin" /\ at' = 1
    BY <1>9 DEF Goto
  <2>2. step' \in Mid /\ step' \in Chains /\ step' \in Unaddressed
    BY <2>1 DEF Mid, Chains, Unaddressed
  <2>3. ScriptRead'
    <3>1. << >> \o SubSeq(Chain.begin, 1, 0) = << >>
      <4>1. << >> \in Texts /\ Chain.begin \in Texts /\ Len(Chain.begin) = 7
        BY ChainTexts DEF Texts, Chains, Chain
      <4>2. 1 \in 1 .. Len(Chain.begin)
        BY <4>1
      <4> QED BY <4>1, <4>2, Spelling
    <3>2. at' <= Len(Chain.begin) /\ at' - 1 = 0
      BY <2>1 DEF Chain
    <3>3. << >> \in Entered.begin
      BY Entries
    <3> QED BY <1>4, <1>9, <2>1, <2>2, <3>1, <3>2, <3>3 DEF ScriptRead
  <2>4. ScriptTold'
    BY <1>3, <1>4, <1>6, <1>9, <2>1, <2>2 DEF ScriptTold
  <2> QED BY <1>1, <1>3, <1>6, <1>7, <1>9, <2>2, <2>3, <2>4, ToldAdmitted, ToldContinues
<1>10. CASE parse_error
  BY <1>10, ToldRefused
<1> QED BY <1>2, <1>8, <1>9, <1>10

-----------------------------------------------------------------------------
(* Scripts, again.                                                          *)

LEMMA ScriptedTold ==
    ASSUME IndInv, NEW code
    PROVE  /\ Scripted(code).script = Append(written.script, code)
           /\ Scripted(code).to = written.to /\ Scripted(code).inner = written.inner
           /\ Scripted(code).moved = written.moved
BY Pieces DEF Operation, Scripted

LEMMA ToldMid ==
    ASSUME ToldInv, IndInv, step \in Mid
    PROVE  /\ Operations = {} /\ out.tag # "NONE" /\ out.source.text = NoAddress
           /\ Shown(out.source) = written.to
           /\ out.destination.text = written.inner /\ out.amount = written.moved
           /\ written.tag \in Transactions
<1>1. step # "fail"
  BY DEF Mid, Chains, Branches
<1> QED BY <1>1, InScript DEF ToldInv, ScriptTold, SourceTold

LEMMA ToldBranch ==
    ASSUME ToldInv, IndInv, NEW code \in Code, read_branch(code) PROVE ToldInv'
<1>1. /\ step \in Branches /\ step \in Mid /\ code \in DOMAIN Branch[step]
      /\ step' = Branch[step][code] /\ at' = 1 /\ written' = Scripted(code)
      /\ UNCHANGED <<out, group>>
  BY Tables DEF read_branch, Mid, Goto
<1>2. step' \in Mid
  BY <1>1, Tables
<1>3. written.script \in Entered[step]
  <2>1. step \in Mid \ (Chains \cup {"unread"})
    BY <1>1 DEF Mid, Branches, Chains
  <2> QED BY <2>1 DEF ToldInv, ScriptRead
<1>4. written'.script \in Entered[step']
  BY <1>1, <1>3, BranchLeads, ScriptedTold
<1>5. /\ step = "first" => step' \in {"second", "no_delegate"}
      /\ step = "second" => step' \in {"key_hash", "address"}
      /\ step = "third" => step' \in {"set_delegate", "to_implicit"}
      /\ step = "fourth" => step' \in {"to_contract", "to_default"}
  BY <1>1 DEF Branch
<1>6. ScriptRead'
  <2>1. ASSUME step' \in Chains
        PROVE  /\ at' <= Len(Chain[step'])
               /\ written'.script = written'.script \o SubSeq(Chain[step'], 1, at' - 1)
    <3>1. /\ Chain[step'] \in Texts /\ written'.script \in Texts
          /\ Len(Chain[step']) \in 1 .. 16
      BY <1>4, <2>1, ChainTexts, EnteredTexts, Lengths
    <3>2. /\ \A n \in 1 .. 16 : 1 \in 1 .. n /\ 1 <= n
          /\ 1 - 1 = 0
      OBVIOUS
    <3>3. 1 \in 1 .. Len(Chain[step']) /\ 1 <= Len(Chain[step']) /\ at' - 1 = 0
      BY <1>1, <3>1, <3>2, Zenon
    <3> QED BY <1>1, <3>1, <3>3, Spelling
  <2> QED BY <1>4, <2>1 DEF ScriptRead
<1>7. ScriptTold'
  <2>1. /\ Shown(out'.source) = written'.to
        /\ out'.destination.text = written'.inner /\ out'.amount = written'.moved
        /\ written'.inner = written.inner
    BY <1>1, ToldMid, ScriptedTold
  <2>2. step' \notin {"close", "unread"} /\ step \notin {"close", "unread"}
    BY <1>1, <1>5 DEF Branches
  <2>3. CASE step \in {"first", "second"}
    <3>1. written.inner = NoAddress /\ step' \in Unaddressed
      BY <1>1, <1>5, <2>3 DEF ToldInv, ScriptTold, Unaddressed
    <3> QED BY <2>1, <2>2, <3>1 DEF ScriptTold
  <2>4. CASE step \in {"third", "fourth"}
    <3>1. written.inner \in Address /\ step' \notin Unaddressed
      BY <1>1, <1>5, <2>4 DEF ToldInv, ScriptTold, Unaddressed
    <3> QED BY <2>1, <2>2, <3>1 DEF ScriptTold
  <2> QED BY <1>1, <2>3, <2>4 DEF Branches
<1> QED BY <1>1, <1>2, <1>6, <1>7, ToldMid, ToldContinues

LEMMA ToldAddress ==
    ASSUME ToldInv, IndInv, NEW a \in Address, read_address(a) PROVE ToldInv'
<1> DEFINE d == [out.destination EXCEPT !.text = a, !.originated = FALSE,
                                        !.typed = FALSE]
           s == Scripted("<address>")
<1>1. /\ step \in {"key_hash", "address"}
      /\ step' = IF step = "key_hash" THEN "third" ELSE "fourth"
      /\ written' = [s EXCEPT !.inner = a]
      /\ UNCHANGED group
  BY DEF read_address, Goto
<1>2. out' = [out EXCEPT !.destination = d]
  BY Pieces DEF read_address, Group_t, parsed_contract
<1>3. d.text = a
  BY Pieces DEF parsed_contract
<1>4. /\ s \in Operation /\ s.to = written.to /\ s.moved = written.moved
      /\ s.script = Append(written.script, "<address>")
  BY ScriptedType, ScriptedTold DEF Script
<1> HIDE DEF d, s
<1>5. /\ out'.tag = out.tag /\ out'.source = out.source /\ out'.amount = out.amount
      /\ out'.destination.text = a
  BY <1>2, <1>3, Pieces DEF Group_t
<1>6. /\ written'.to = written.to /\ written'.moved = written.moved
      /\ written'.inner = a /\ written'.script = Append(written.script, "<address>")
  BY <1>1, <1>4 DEF Operation, Maybe
<1>7. /\ step \in Mid /\ step' \in Mid
      /\ step \in Mid \ (Chains \cup {"unread"}) /\ step' \notin Chains
      /\ step' \notin Unaddressed /\ step' \notin {"close", "unread"}
  BY <1>1 DEF Mid, Branches, Chains, Unaddressed
<1>8. written'.script \in Entered[step']
  <2>1. written.script \in Entered[step]
    BY <1>7 DEF ToldInv, ScriptRead
  <2>2. CASE step = "key_hash"
    BY <1>1, <1>6, <2>1, <2>2, Entries DEF HoldingKey
  <2>3. CASE step = "address"
    BY <1>1, <1>6, <2>1, <2>3, Entries DEF HoldingAddress
  <2> QED BY <1>1, <2>2, <2>3
<1>9. ScriptRead' /\ ScriptTold'
  BY <1>5, <1>6, <1>7, <1>8, ToldMid DEF ScriptRead, ScriptTold
<1> QED BY <1>1, <1>5, <1>7, <1>9, ToldMid, ToldContinues

LEMMA ToldMutez ==
    ASSUME ToldInv, IndInv, NEW amount \in Number, read_mutez(amount) PROVE ToldInv'
<1> DEFINE s == Scripted("<amount>")
<1>1. /\ step = "mutez" /\ step' = "transfer" /\ at' = 1
      /\ out' = [out EXCEPT !.amount = amount]
      /\ written' = [s EXCEPT !.moved = amount]
      /\ UNCHANGED group
  BY DEF read_mutez, Goto
<1>2. /\ s \in Operation /\ s.to = written.to /\ s.inner = written.inner
      /\ s.script = Append(written.script, "<amount>")
  BY ScriptedType, ScriptedTold DEF Script
<1> HIDE DEF s
<1>3. /\ out'.tag = out.tag /\ out'.source = out.source /\ out'.amount = amount
      /\ out'.destination = out.destination
  BY <1>1, Pieces DEF Group_t
<1>4. /\ written'.to = written.to /\ written'.inner = written.inner
      /\ written'.moved = amount /\ written'.script = Append(written.script, "<amount>")
  BY <1>1, <1>2 DEF Operation
<1>5. /\ step \in Mid \ (Chains \cup {"unread"}) /\ step' \in Chains
      /\ step \in Mid /\ step' \in Mid
      /\ step \notin Unaddressed \cup {"close", "unread"}
      /\ step' \notin Unaddressed \cup {"close", "unread"}
  BY <1>1 DEF Mid, Chains, Branches, Unaddressed
<1>6. written'.script \in Entered.transfer
  <2>1. written.script \in Calling
    BY <1>1, <1>5, Entries DEF ToldInv, ScriptRead
  <2> QED BY <1>4, <2>1, Entries
<1>7. ScriptRead'
  <2>1. /\ Chain.transfer \in Texts /\ written'.script \in Texts
        /\ Len(Chain.transfer) = 2
    BY <1>1, <1>5, <1>6, ChainTexts, EnteredTexts DEF Chain
  <2>2. 1 \in 1 .. Len(Chain.transfer) /\ 1 <= Len(Chain.transfer) /\ at' - 1 = 0
    BY <1>1, <2>1
  <2>3. written'.script \o SubSeq(Chain.transfer, 1, 0) = written'.script
    BY <2>1, <2>2, Spelling
  <2> QED BY <1>1, <1>5, <1>6, <2>2, <2>3 DEF ScriptRead
<1>8. ScriptTold'
  BY <1>3, <1>4, <1>5, ToldMid DEF ToldInv, ScriptTold
<1> QED BY <1>1, <1>3, <1>5, <1>7, <1>8, ToldMid, ToldContinues

\* What the last literal of a chain does to the struct.
LEMMA EffectTold ==
    ASSUME IndInv, NEW chain, out.tag # "NONE"
    PROVE  LET o == Effect(chain, out)
           IN  /\ o.source = out.source /\ o.amount = out.amount /\ o.tag # "NONE"
               /\ o.destination.text = out.destination.text
               /\ chain = "set_delegate" =>
                     o.tag = "BABYLON_DELEGATION" /\ o.destination.originated
               /\ chain = "no_delegate" =>
                     /\ o.tag = "BABYLON_DELEGATION"
                     /\ ~o.destination.originated /\ ~o.destination.typed
               /\ chain = "transfer" => o.tag = "BABYLON_TRANSACTION"
               /\ chain \notin {"set_delegate", "no_delegate", "transfer"} => o = out
<1> DEFINE c == [out.destination EXCEPT !.originated = TRUE]
           d == [out.destination EXCEPT !.originated = FALSE, !.typed = FALSE]
<1>1. /\ c \in parsed_contract /\ c.text = out.destination.text /\ c.originated
      /\ d \in parsed_contract /\ d.text = out.destination.text
      /\ ~d.originated /\ ~d.typed
  BY Pieces DEF parsed_contract
<1>2. chain = "set_delegate" =>
         Effect(chain, out) = [out EXCEPT !.tag = "BABYLON_DELEGATION", !.destination = c]
  BY DEF Effect
<1>3. chain = "no_delegate" =>
         Effect(chain, out) = [out EXCEPT !.tag = "BABYLON_DELEGATION", !.destination = d]
  <2>1. chain = "no_delegate" =>
           Effect(chain, out) = [out EXCEPT !.tag = "BABYLON_DELEGATION",
                                            !.destination.originated = FALSE,
                                            !.destination.typed = FALSE]
    BY DEF Effect
  <2> QED BY <2>1, Pieces DEF Group_t, parsed_contract
<1>4. chain = "transfer" =>
         Effect(chain, out) = [out EXCEPT !.tag = "BABYLON_TRANSACTION"]
  BY DEF Effect
<1>5. chain \notin {"set_delegate", "no_delegate", "transfer"} => Effect(chain, out) = out
  BY DEF Effect
<1> HIDE DEF c, d
<1>6. CASE chain = "set_delegate"
  BY <1>1, <1>2, <1>6, Pieces DEF Group_t
<1>7. CASE chain = "no_delegate"
  BY <1>1, <1>3, <1>7, Pieces DEF Group_t
<1>8. CASE chain = "transfer"
  BY <1>4, <1>8, Pieces DEF Group_t
<1>9. CASE chain \notin {"set_delegate", "no_delegate", "transfer"}
  BY <1>5, <1>9
<1> QED BY <1>6, <1>7, <1>8, <1>9

\* A literal within its chain.
LEMMA ToldWithin ==
    ASSUME ToldInv, IndInv, NEW code \in Code, read_literal(code),
           at < Len(Chain[step])
    PROVE  ToldInv'
<1>1. /\ step \in Chains /\ step \in Mid /\ code = Chain[step][at]
      /\ at' = at + 1 /\ written' = Scripted(code) /\ UNCHANGED <<step, out, group>>
  BY Tables, Zenon DEF read_literal, Mid
<1>2. /\ at \in 1 .. 16 /\ Len(Chain[step]) \in 1 .. 16 /\ Chain[step] \in Texts
  BY <1>1, Lengths, ChainTexts DEF IndInv, Typed
<1>3. step # "close"
  <2>1. Len(Chain.close) = 1
    BY DEF Chain
  <2>2. \A n \in 1 .. 16 : ~ (n < 1)
    OBVIOUS
  <2> QED BY <1>2, <2>1, <2>2, Zenon
<1>4. ScriptRead'
  <2>1. PICK p \in Entered[step] : written.script = p \o SubSeq(Chain[step], 1, at - 1)
    BY <1>1 DEF ToldInv, ScriptRead
  <2>2. /\ at \in 1 .. Len(Chain[step]) /\ at + 1 <= Len(Chain[step])
        /\ (at + 1) - 1 = at
    BY <1>2
  <2>3. p \in Texts
    BY <1>1, EnteredTexts
  <2> DEFINE c == Chain[step]
  <2>5. Append(p \o SubSeq(c, 1, at - 1), c[at]) = p \o SubSeq(c, 1, at)
    <3> HIDE DEF c
    <3> QED BY <1>2, <2>2, <2>3, Spelling DEF c
  <2>6. written'.script = Append(written.script, code)
    BY <1>1, ScriptedTold
  <2>4. written'.script = p \o SubSeq(Chain[step], 1, at)
    BY <1>1, <2>1, <2>5, <2>6, Zenon
  <2> QED BY <1>1, <2>2, <2>4 DEF ScriptRead
<1>5. ScriptTold'
  BY <1>1, <1>3, ToldMid, ScriptedTold DEF ToldInv, ScriptTold
<1> QED BY <1>1, <1>4, <1>5, ToldMid, ToldContinues

\* The last literal of a chain completes what the chain spells.
LEMMA Spelled ==
    ASSUME ToldInv, IndInv, NEW code \in Code, read_literal(code),
           ~(at < Len(Chain[step]))
    PROVE  \E p \in Entered[step] :
              p \in Texts /\ Append(written.script, code) = p \o Chain[step]
<1> DEFINE c == Chain[step]
<1>1. step \in Chains /\ code = c[at] /\ at <= Len(c)
  BY Tables DEF read_literal, ToldInv, ScriptRead
<1>2. at \in 1 .. 16 /\ Len(c) \in 1 .. 16 /\ c \in Texts
  BY <1>1, Lengths, ChainTexts DEF IndInv, Typed
<1>3. PICK p \in Entered[step] : written.script = p \o SubSeq(c, 1, at - 1)
  BY <1>1 DEF ToldInv, ScriptRead
<1>4. p \in Texts
  BY <1>1, EnteredTexts
<1> HIDE DEF c
<1>5. at = Len(c) /\ at \in 1 .. Len(c)
  BY <1>1, <1>2 DEF c
<1>6. /\ Append(p \o SubSeq(c, 1, at - 1), c[at]) = p \o SubSeq(c, 1, at)
      /\ SubSeq(c, 1, Len(c)) = c
  BY <1>2, <1>4, <1>5, Spelling
<1>7. Append(written.script, code) = p \o c
  BY <1>1, <1>3, <1>5, <1>6, Zenon
<1> QED BY <1>4, <1>7 DEF c

\* The last literal of a chain that another step follows.
LEMMA ToldLast ==
    ASSUME ToldInv, IndInv, NEW code \in Code, read_literal(code),
           ~(at < Len(Chain[step])), step # "close"
    PROVE  ToldInv'
<1>1. step \in Chains /\ step \in Mid
  BY Tables DEF read_literal, Mid
<1>2. /\ After.begin = "first" /\ After.set_delegate = "close"
      /\ After.no_delegate = "close" /\ After.to_implicit = "mutez"
      /\ After.to_contract = "mutez" /\ After.to_default = "mutez"
      /\ After.transfer = "close"
  BY DEF After
<1>3. /\ After[step] # "end" /\ After[step] \in {"first", "close", "mutez"}
      /\ step = "begin" <=> After[step] = "first"
      /\ step \in {"set_delegate", "no_delegate", "transfer"} <=> After[step] = "close"
  BY <1>1, <1>2 DEF Chains
<1>4. /\ out' = Effect(step, out) /\ step' = After[step] /\ at' = 1
      /\ written' = Scripted(code) /\ group' = group
  BY <1>3, Zenon DEF read_literal, Goto
<1>5. PICK p \in Entered[step] :
         p \in Texts /\ Append(written.script, code) = p \o Chain[step]
  BY Spelled
<1>6. /\ written'.script = p \o Chain[step] /\ written'.to = written.to
      /\ written'.inner = written.inner /\ written'.moved = written.moved
  BY <1>4, <1>5, ScriptedTold
<1>7. written'.script \in Entered[step']
  BY <1>1, <1>4, <1>5, <1>6, ChainLeads
<1>8. /\ step' \in Mid /\ step' # "unread"
      /\ step' \in Chains => step' = "close"
  BY <1>3, <1>4 DEF Mid, Chains, Branches
<1>9. ScriptRead'
  <2>1. ASSUME step' = "close"
        PROVE  /\ at' <= Len(Chain[step'])
               /\ written'.script = written'.script \o SubSeq(Chain[step'], 1, at' - 1)
    <3>1. /\ Chain.close \in Texts /\ written'.script \in Texts
          /\ Len(Chain.close) = 1
      BY <1>7, <2>1, ChainTexts, EnteredTexts DEF Chain, Chains
    <3>2. 1 \in 1 .. Len(Chain.close) /\ 1 <= Len(Chain.close) /\ at' - 1 = 0
      BY <1>4, <3>1
    <3>3. written'.script \o SubSeq(Chain.close, 1, 0) = written'.script
      BY <3>1, <3>2, Spelling
    <3> QED BY <1>4, <2>1, <3>2, <3>3
  <2> QED BY <1>7, <1>8, <2>1 DEF ScriptRead
<1>10. /\ out'.source = out.source /\ out'.amount = out.amount /\ out'.tag # "NONE"
       /\ out'.destination.text = out.destination.text
       /\ step = "set_delegate" =>
             out'.tag = "BABYLON_DELEGATION" /\ out'.destination.originated
       /\ step = "no_delegate" =>
             /\ out'.tag = "BABYLON_DELEGATION"
             /\ ~out'.destination.originated /\ ~out'.destination.typed
       /\ step = "transfer" => out'.tag = "BABYLON_TRANSACTION"
  BY <1>1, <1>4, ToldMid, EffectTold
<1>11. /\ step \in Unaddressed => written.inner = NoAddress
       /\ step \notin Unaddressed => written.inner \in Address
  <2>1. step \notin {"unread", "close"}
    BY <1>1 DEF Chains
  <2> QED BY <1>1, <2>1 DEF ToldInv, ScriptTold
<1>12. ASSUME step' = "close" PROVE Closing'
  <2>1. step \in {"set_delegate", "no_delegate", "transfer"}
    BY <1>3, <1>4, <1>12
  <2>2. CASE step = "set_delegate"
    <3>1. written'.script = Setting /\ written'.inner \in Address
      BY <1>5, <1>6, <1>11, <2>2, Entries DEF Setting, Unaddressed
    <3> QED BY <1>10, <2>2, <3>1 DEF Closing
  <2>3. CASE step = "no_delegate"
    <3>1. written'.script = Dropping /\ written'.inner = NoAddress
      BY <1>5, <1>6, <1>11, <2>3, Entries DEF Dropping, Unaddressed
    <3> QED BY <1>10, <2>3, <3>1 DEF Closing
  <2>4. CASE step = "transfer"
    <3>1. PICK q \in Calling : p = Append(q, "<amount>")
      BY <2>4, Entries
    <3>2. written'.script \in Moving
      BY <1>6, <2>4, <3>1 DEF Moving
    <3>3. written'.inner \in Address
      BY <1>6, <1>11, <2>4 DEF Unaddressed
    <3> QED BY <1>10, <2>4, <3>2, <3>3 DEF Closing
  <2> QED BY <2>1, <2>2, <2>3, <2>4
<1>13. ScriptTold'
  <2>1. /\ step' \in Unaddressed => step \in Unaddressed
        /\ step' \notin Unaddressed \cup {"unread", "close"} => step \notin Unaddressed
    BY <1>1, <1>3, <1>4 DEF Unaddressed, Chains
  <2> QED BY <1>1, <1>6, <1>10, <1>11, <1>12, <2>1, ToldMid DEF ScriptTold
<1> QED BY <1>1, <1>4, <1>8, <1>9, <1>10, <1>13, ToldMid, ToldContinues

\* The last literal of all.
LEMMA ToldClose ==
    ASSUME ToldInv, IndInv, NEW code \in Code, read_literal(code),
           ~(at < Len(Chain[step])), step = "close"
    PROVE  ToldInv'
<1> DEFINE op == Scripted(code)
<1>1. step \in Mid /\ After[step] = "end"
  BY DEF Mid, Chains, After
<1>2. out' = Effect(step, out) /\ Complete(op, "end")
  BY <1>1, Zenon DEF read_literal
<1>3. PICK p \in Entered.close : op.script = p \o Chain.close
  BY Spelled, ScriptedTold
<1>4. /\ op \in Operation /\ op.tag = written.tag /\ op.to = written.to
      /\ op.inner = written.inner /\ op.moved = written.moved
  BY ScriptedType, ScriptedTold DEF Script
<1>5. out' = out
  BY <1>1, <1>2, ToldMid, EffectTold
<1>6. Closing /\ op.tag \in Transactions /\ op.tag \notin Reveals
  BY <1>1, <1>4, ToldMid, TagKinds DEF ToldInv, ScriptTold
<1>7. written.script \in Texts /\ op.script = written.script \o Chain.close
  <2>1. PICK q \in Entered.close : written.script = q \o SubSeq(Chain.close, 1, at - 1)
    BY <1>1 DEF ToldInv, ScriptRead, Chains
  <2>2. q \in Texts /\ Chain.close \in Texts /\ Len(Chain.close) = 1
    BY EnteredTexts, ChainTexts DEF Chains, Chain
  <2>3. at - 1 = 0
    <3>1. at \in 1 .. 16 /\ at <= 1
      BY <2>2 DEF ToldInv, ScriptRead, Chains, IndInv, Typed
    <3>2. \A n \in 1 .. 16 : n <= 1 => n - 1 = 0
      OBVIOUS
    <3> QED BY <3>1, <3>2
  <2>4. q \o SubSeq(Chain.close, 1, 0) = q
    <3>1. 1 \in 1 .. Len(Chain.close)
      BY <2>2
    <3> QED BY <2>2, <3>1, Spelling
  <2>5. written.script = q
    BY <2>1, <2>3, <2>4
  <2>6. code = "CONS" /\ Chain.close = << "CONS" >>
    <3>1. at = 1 /\ code = Chain.close[at] /\ Chain.close = << "CONS" >>
      BY <2>3 DEF read_literal, Chain, IndInv, Typed
    <3> QED BY <3>1
  <2>7. op.script = Append(q, "CONS")
    BY <2>5, <2>6, ScriptedTold
  <2>8. Append(q, "CONS") = q \o << "CONS" >>
    BY <2>2, Vocabulary, JoiningOne DEF Add, Join, One
  <2> QED BY <2>2, <2>5, <2>6, <2>7, <2>8
<1> HIDE DEF op
<1>8. /\ out'.tag # "NONE" /\ out'.source.text = NoAddress /\ Operations = {}
      /\ Shown(out'.source) = op.to /\ out'.destination.text = op.inner
      /\ out'.amount = op.moved
  BY <1>1, <1>4, <1>5, ToldMid
<1>9. op.inner \in Address => Shown(out'.destination) = op.inner
  BY <1>8 DEF Shown
<1>10. \E t : /\ prompt_transaction'.title = t
               /\ Shown(out'.destination) = op.inner
               /\ Meaning(op) = InnerTold(op, t)
  <2>1. CASE /\ written.script = Setting /\ written.inner \in Address
             /\ out.tag = "BABYLON_DELEGATION" /\ out.destination.originated
    <3>1. op.script = SetsDelegate
      BY <1>7, <2>1, SettingSpelled
    <3>2. prompt_transaction'.title = "delegation"
      BY <1>5, <2>1, NextPrompt, TagsDiffer
    <3> QED BY <1>4, <1>6, <1>9, <2>1, <3>1, <3>2, Meanings
  <2>2. CASE /\ written.script = Dropping /\ written.inner = NoAddress
             /\ out.tag = "BABYLON_DELEGATION"
             /\ ~out.destination.originated /\ ~out.destination.typed
    <3>1. op.script = DropsDelegate
      BY <1>7, <2>2, DroppingSpelled
    <3>2. prompt_transaction'.title = "withdraw"
      BY <1>5, <2>2, NextPrompt, TagsDiffer
    <3>3. Shown(out'.destination) = op.inner
      BY <1>4, <1>5, <1>8, <2>2 DEF Shown
    <3> QED BY <1>4, <1>6, <2>2, <3>1, <3>2, <3>3, Meanings
  <2>3. CASE /\ written.script \in Moving /\ written.inner \in Address
             /\ out.tag = "BABYLON_TRANSACTION"
    <3>1. op.script \in PaysContract \cup {PaysImplicit}
      BY <1>7, <2>3, MovingSpelled
    <3>2. prompt_transaction'.title = "transaction"
      BY <1>5, <2>3, NextPrompt, TagsDiffer
    <3> QED BY <1>4, <1>6, <1>9, <2>3, <3>1, <3>2, Meanings
  <2> QED BY <1>6, <2>1, <2>2, <2>3 DEF Closing
<1>11. /\ Shown(out'.source) = Meaning(op).source
       /\ prompt_transaction'.title = Meaning(op).title
       /\ prompt_transaction'.destination = Meaning(op).destination
       /\ prompt_transaction'.amount = Meaning(op).amount
  BY <1>8, <1>10, NextPrompt DEF InnerTold
<1> QED BY <1>2, <1>4, <1>6, <1>8, <1>11, ToldEnds

\* An address given as bytes, and whatever is refused.
LEMMA ToldOther ==
    ASSUME ToldInv, IndInv,
           \/ not_admitted \/ read_unsupported \/ read_other_code
           \/ read_address_bytes \/ read_past_end
           \/ \E amount \in Number : read_unknown_curve(amount)
    PROVE  ToldInv'
<1>1. CASE parse_error
  BY <1>1, ToldRefused
<1>2. CASE ~parse_error
  <2>1. /\ step \in {"key_hash", "address"} /\ step' = "unread"
        /\ UNCHANGED <<written, group, tag, out>>
    BY <1>2 DEF not_admitted, read_unsupported, read_other_code,
       read_address_bytes, read_past_end, read_unknown_curve, Goto
  <2>2. /\ step \in Mid /\ step' \in Mid /\ step' \notin Chains
        /\ step' \notin Unaddressed /\ step' # "close"
    BY <2>1 DEF Mid, Chains, Branches, Unaddressed
  <2>3. ScriptRead'
    BY <2>1, <2>2 DEF ScriptRead
  <2>4. ScriptTold'
    BY <2>1, <2>2, ToldMid DEF ScriptTold
  <2> QED BY <2>1, <2>2, <2>3, <2>4, ToldMid, ToldContinues
<1> QED BY <1>1, <1>2

LEMMA ToldStarts == Init => ToldInv
<1> SUFFICES ASSUME Init PROVE ToldInv
  OBVIOUS
<1>1. /\ step = "header" /\ written = Unwritten /\ group = << >>
      /\ out = FreshOut /\ Operations = {}
  BY DEF Init, Operations
<1>2. step \notin Mid /\ step \notin Chains
  BY <1>1 DEF Mid, Chains, Branches
<1>3. ScriptRead /\ ScriptTold
  BY <1>2 DEF ScriptRead, ScriptTold
<1>4. SourceTold
  BY <1>1, <1>2, ClearReadsBack DEF SourceTold, Plain, FreshOut
<1>5. OperationTold
  BY <1>1 DEF OperationTold, FreshOut
<1> QED BY <1>3, <1>4, <1>5 DEF ToldInv

LEMMA ToldSteps == IndInv /\ ToldInv /\ [Next]_vars => ToldInv'
<1> SUFFICES ASSUME IndInv, ToldInv, [Next]_vars PROVE ToldInv'
  OBVIOUS
<1>1. CASE UNCHANGED vars
  <2>1. UNCHANGED <<step, at, tag, out, written, group>>
    BY <1>1 DEF vars
  <2>2. prompt_transaction' = prompt_transaction /\ Operations' = Operations
    BY <2>1 DEF prompt_transaction, Operations
  <2>3. ScriptRead' /\ ScriptTold'
    BY <2>1 DEF ToldInv, ScriptRead, ScriptTold, Closing
  <2>4. SourceTold'
    BY <2>1 DEF ToldInv, SourceTold, Plain
  <2>5. OperationTold'
    BY <2>1, <2>2 DEF ToldInv, OperationTold, Agrees
  <2> QED BY <2>3, <2>4, <2>5 DEF ToldInv
<1>2. ASSUME NEW code \in Code, read_literal(code) PROVE ToldInv'
  BY <1>2, ToldWithin, ToldLast, ToldClose
<1>3. CASE Next
  BY <1>2, <1>3, ToldHeader, ToldTag, ToldSource, ToldManager, ToldReveal, ToldVote,
     ToldDelegate, ToldTransfer, ToldBranch, ToldAddress, ToldMutez, ToldOther,
     ToldRestarts, Zenon DEF Next
<1> QED BY <1>1, <1>3

\* The struct holds what the message says, wherever it is cut.
THEOREM Told == Spec => []ToldInv
BY Inductive, ToldStarts, ToldSteps, PTL DEF Spec

\* A meaning is a record of the four things a prompt shows.
LEMMA MeaningFields ==
    ASSUME NEW op \in Operation
    PROVE  \E t : Meaning(op) = PlainTold(op, t) \/ Meaning(op) = InnerTold(op, t)
<1> DEFINE plain == PlainTold(op, "")
           inner == InnerTold(op, "")
           v == [plain EXCEPT !.title = op.tag]
           d == [plain EXCEPT !.title = IF op.to = NoAddress THEN "withdraw"
                                                             ELSE "delegation"]
           t == [plain EXCEPT !.title = "transaction"]
           s == [inner EXCEPT !.title = "delegation"]
           n == [inner EXCEPT !.title = "withdraw"]
           m == [inner EXCEPT !.title = "transaction"]
<1>1. /\ v = PlainTold(op, op.tag) /\ t = PlainTold(op, "transaction")
      /\ d = PlainTold(op, IF op.to = NoAddress THEN "withdraw" ELSE "delegation")
      /\ s = InnerTold(op, "delegation") /\ n = InnerTold(op, "withdraw")
      /\ m = InnerTold(op, "transaction")
  BY Titled, Zenon
<1>2. Meaning(op) =
        CASE op.tag \in Votes -> v
          [] op.tag \in Delegations -> d
          [] op.tag \in Transactions /\ op.script = << >> -> t
          [] op.script = SetsDelegate -> s
          [] op.script = DropsDelegate -> n
          [] op.script \in PaysContract \cup {PaysImplicit} -> m
          [] OTHER -> plain
  BY Zenon DEF Meaning, PlainTold, InnerTold
<1> HIDE DEF v, d, t, s, n, m, plain
<1>3. Meaning(op) \in {v, d, t, s, n, m, plain}
  BY <1>2
<1> QED BY <1>1, <1>3 DEF plain

\* What a complete group shows is what its operation means.
THEOREM ToldAsWritten == Spec => []ShownIsWritten
<1>1. IndInv /\ ToldInv => ShownIsWritten
  <2> SUFFICES ASSUME IndInv, ToldInv, parse_operations_final,
                      NEW i \in Operations
               PROVE  IF i = Len(group) THEN prompt_transaction = Meaning(group[i])
                      ELSE prompt_transaction = [Meaning(group[i]) EXCEPT
                                                   !.source = group[Len(group)].source]
    BY DEF ShownIsWritten
  <2> DEFINE op == group[i]
             last == group[Len(group)]
             p == prompt_transaction
             told == Meaning(op)
  <2>1. step \in {"end", "top"} /\ Agrees(op)
    BY DEF parse_operations_final, ToldInv, OperationTold
  <2>2. /\ i \in DOMAIN group /\ Len(group) \in DOMAIN group /\ group # << >>
        /\ op \in Operation /\ op.tag \notin Reveals
    BY Pieces DEF Operations
  <2>3. Shown(out.source) = IF last.tag \in Reveals THEN last.source
                            ELSE Meaning(last).source
    BY <2>1, <2>2 DEF ToldInv, SourceTold
  <2>4. i # Len(group) => last.tag \in Reveals
    BY <2>2 DEF Operations, IndInv, TagTells
  <2>5. /\ p.source = Shown(out.source)
        /\ p = [title |-> p.title, source |-> p.source,
                destination |-> p.destination, amount |-> p.amount]
    <3> DEFINE title == CASE out.tag \in Votes -> out.tag
                         [] out.tag \in Delegations ->
                              IF ~out.destination.originated /\ ~out.destination.typed
                              THEN "withdraw" ELSE "delegation"
                         [] out.tag \in Transactions -> "transaction"
                         [] out.tag = "NONE" -> "reveal"
                         [] OTHER -> "not shown"
    <3>1. p = [title |-> title, source |-> Shown(out.source),
               destination |-> Shown(out.destination), amount |-> out.amount]
      BY DEF prompt_transaction
    <3> HIDE DEF title, p
    <3> QED BY <3>1
  <2>6. told = [title |-> told.title, source |-> told.source,
                destination |-> told.destination, amount |-> told.amount]
    <3>1. PICK t : told = PlainTold(op, t) \/ told = InnerTold(op, t)
      BY <2>2, MeaningFields
    <3> HIDE DEF told
    <3> QED BY <3>1 DEF PlainTold, InnerTold
  <2>7. /\ p.title = told.title /\ p.destination = told.destination
        /\ p.amount = told.amount
    BY <2>1 DEF Agrees
  <2>8. CASE i = Len(group)
    <3>1. p.source = told.source
      BY <2>2, <2>3, <2>5, <2>8
    <3> HIDE DEF p, told
    <3>2. p = told
      BY <2>5, <2>6, <2>7, <3>1, Zenon
    <3> QED BY <2>8, <3>2 DEF p, told
  <2>9. CASE i # Len(group)
    <3>1. p.source = last.source
      BY <2>3, <2>4, <2>5, <2>9
    <3> DEFINE e == [told EXCEPT !.source = last.source]
    <3> HIDE DEF p, told, last
    <3>2. e = [title |-> told.title, source |-> last.source,
               destination |-> told.destination, amount |-> told.amount]
      BY <2>6
    <3> HIDE DEF e
    <3>3. p = e
      BY <2>5, <2>7, <3>1, <3>2, Zenon
    <3> QED BY <2>9, <3>3 DEF p, told, last, e
  <2> QED BY <2>8, <2>9
<1> QED BY <1>1, Inductive, Told, PTL

-----------------------------------------------------------------------------
(* Sums.  TotalsOf is a recursive function over the places of the group;    *)
(* what it adds up to is known by induction on them.                        *)

\* TotalsOf, of any sequence g of records: f sums its fields up to each place.
Sums(f, g, field, n) ==
    f = [i \in 0 .. n |-> IF i = 0 THEN 0 ELSE f[i - 1] + g[i][field]]
Total(g, field, n) == (CHOOSE f : Sums(f, g, field, n))[n]

LEMMA TotalsAre ==
    ASSUME NEW field PROVE TotalsOf(field) = Total(group, field, Len(group))
BY DEF TotalsOf, Total, Sums

\* Induction, as the absence of a least exception.
LEMMA NatInd ==
    ASSUME NEW S, 0 \in S, \A n \in Nat : n \in S => n + 1 \in S
    PROVE  Nat \subseteq S
<1> DEFINE T == Nat \ S
           R == OpToRel(<, Nat)
<1>1. SUFFICES ASSUME T # {} PROVE FALSE
  OBVIOUS
<1>2. PICK x \in T : \A y \in T : ~ (<<y, x>> \in R)
  BY <1>1, NatLessThanWellFounded, WFMin
<1>3. \A y \in Nat : y < x => <<y, x>> \in R
  BY DEF OpToRel
<1> HIDE DEF R
<1>4. x - 1 \in Nat /\ x - 1 < x /\ (x - 1) + 1 = x
  OBVIOUS
<1>5. x - 1 \in S
  BY <1>2, <1>3, <1>4
<1>6. (x - 1) + 1 \in S
  BY <1>4, <1>5
<1> QED BY <1>4, <1>6

\* Only one function does.
LEMMA OneSum ==
    ASSUME NEW g, NEW field, NEW n \in Nat, NEW f, NEW e,
           Sums(f, g, field, n), Sums(e, g, field, n)
    PROVE  f = e
<1> DEFINE S == {i \in Nat : i <= n => f[i] = e[i]}
<1>1. /\ f = [i \in 0 .. n |-> IF i = 0 THEN 0 ELSE f[i - 1] + g[i][field]]
      /\ e = [i \in 0 .. n |-> IF i = 0 THEN 0 ELSE e[i - 1] + g[i][field]]
  BY Zenon DEF Sums
<1>2. \A i \in 0 .. n : /\ f[i] = IF i = 0 THEN 0 ELSE f[i - 1] + g[i][field]
                        /\ e[i] = IF i = 0 THEN 0 ELSE e[i - 1] + g[i][field]
  BY <1>1, Zenon
<1>3. 0 \in S
  BY <1>2
<1>4. ASSUME NEW i \in Nat, i \in S PROVE i + 1 \in S
  <2>1. SUFFICES ASSUME i + 1 <= n PROVE f[i + 1] = e[i + 1]
    OBVIOUS
  <2>2. i + 1 \in 0 .. n /\ i + 1 # 0 /\ (i + 1) - 1 = i /\ i <= n
    BY <2>1
  <2>3. f[i] = e[i]
    BY <1>4, <2>2
  <2> QED BY <1>2, <2>2, <2>3
<1> HIDE DEF S
<1>5. Nat \subseteq S
  BY <1>3, <1>4, NatInd
<1>6. \A i \in 0 .. n : f[i] = e[i]
  BY <1>5 DEF S
<1>7. DOMAIN f = 0 .. n /\ DOMAIN e = 0 .. n /\ f = [i \in DOMAIN f |-> f[i]]
      /\ e = [i \in DOMAIN e |-> e[i]]
  BY <1>1, Zenon
<1> QED BY <1>6, <1>7

\* A sum of one more.
Further(f, n, x) == [i \in 0 .. n + 1 |-> IF i <= n THEN f[i] ELSE f[n] + x]

LEMMA SumFurther ==
    ASSUME NEW g, NEW h, NEW field, NEW n \in Nat, NEW f \in [0 .. n -> Nat],
           Sums(f, g, field, n), h[n + 1][field] \in Nat,
           \A i \in 1 .. n : h[i] = g[i]
    PROVE  LET e == Further(f, n, h[n + 1][field])
           IN  e \in [0 .. n + 1 -> Nat] /\ Sums(e, h, field, n + 1)
<1> DEFINE x == h[n + 1][field]
           e == Further(f, n, x)
<1>1. e = [i \in 0 .. n + 1 |-> IF i <= n THEN f[i] ELSE f[n] + x]
  BY DEF Further
<1>2. e \in [0 .. n + 1 -> Nat]
  <2>1. \A i \in 0 .. n : f[i] \in Nat
    OBVIOUS
  <2>2. f[n] + x \in Nat
    BY <2>1
  <2> HIDE DEF e, x
  <2> QED BY <1>1, <2>1, <2>2
<1>3. \A i \in 0 .. n : f[i] = IF i = 0 THEN 0 ELSE f[i - 1] + g[i][field]
  <2>1. f = [i \in 0 .. n |-> IF i = 0 THEN 0 ELSE f[i - 1] + g[i][field]]
    BY Zenon DEF Sums
  <2> QED BY <2>1, Zenon
<1>4. ASSUME NEW i \in 0 .. n + 1
      PROVE  e[i] = IF i = 0 THEN 0 ELSE e[i - 1] + h[i][field]
  <2> HIDE DEF e, x
  <2>1. CASE i = 0
    <3>1. 0 \in 0 .. n /\ 0 \in 0 .. n + 1 /\ 0 <= n
      OBVIOUS
    <3>2. e[0] = f[0] /\ f[0] = 0
      BY <1>1, <1>3, <3>1, Zenon
    <3> QED BY <2>1, <3>2
  <2>2. CASE i # 0 /\ i <= n
    <3>1. /\ i \in 0 .. n /\ i \in 1 .. n /\ i - 1 \in 0 .. n + 1 /\ i - 1 <= n
      BY <2>2
    <3>2. e[i] = f[i] /\ e[i - 1] = f[i - 1]
      BY <1>1, <2>2, <3>1
    <3>3. f[i] = f[i - 1] + g[i][field] /\ h[i] = g[i]
      BY <1>3, <2>2, <3>1
    <3> QED BY <2>2, <3>2, <3>3
  <2>3. CASE ~ (i <= n)
    <3>1. i = n + 1 /\ i - 1 = n /\ n \in 0 .. n + 1 /\ n <= n /\ i # 0
      BY <2>3
    <3>2. e[i] = f[n] + x /\ e[n] = f[n]
      BY <1>1, <2>3, <3>1
    <3> QED BY <3>1, <3>2 DEF x
  <2> QED BY <2>1, <2>2, <2>3
<1>5. e = [i \in 0 .. n + 1 |-> IF i = 0 THEN 0 ELSE e[i - 1] + h[i][field]]
  <2> HIDE DEF e
  <2> QED BY <1>2, <1>4
<1> QED BY <1>2, <1>5, Zenon DEF Sums

\* One does.
LEMMA SumThere ==
    ASSUME NEW g, NEW field, NEW n \in Nat, \A i \in 1 .. n : g[i][field] \in Nat
    PROVE  \E f \in [0 .. n -> Nat] : Sums(f, g, field, n)
<1> DEFINE S == {k \in Nat : k <= n => \E f \in [0 .. k -> Nat] : Sums(f, g, field, k)}
<1>1. 0 \in S
  <2> DEFINE f == [i \in 0 .. 0 |-> 0]
  <2>1. f \in [0 .. 0 -> Nat]
    OBVIOUS
  <2>2. f = [i \in 0 .. 0 |-> IF i = 0 THEN 0 ELSE f[i - 1] + g[i][field]]
    OBVIOUS
  <2>3. Sums(f, g, field, 0)
    BY <2>2, Zenon DEF Sums
  <2> QED BY <2>1, <2>3
<1>2. ASSUME NEW k \in Nat, k \in S PROVE k + 1 \in S
  <2>1. SUFFICES ASSUME k + 1 <= n
                 PROVE  \E f \in [0 .. k + 1 -> Nat] : Sums(f, g, field, k + 1)
    OBVIOUS
  <2>2. k <= n /\ k + 1 \in 1 .. n
    BY <2>1
  <2>3. PICK f \in [0 .. k -> Nat] : Sums(f, g, field, k)
    BY <1>2, <2>2
  <2>4. g[k + 1][field] \in Nat
    BY <2>2
  <2> QED BY <2>3, <2>4, SumFurther
<1> HIDE DEF S
<1>3. Nat \subseteq S
  BY <1>1, <1>2, NatInd
<1>4. n \in S /\ n <= n
  BY <1>3
<1> QED BY <1>4 DEF S

LEMMA TotalIs ==
    ASSUME NEW g, NEW field, NEW n \in Nat, NEW f, Sums(f, g, field, n)
    PROVE  Total(g, field, n) = f[n]
<1> DEFINE e == CHOOSE x : Sums(x, g, field, n)
<1>1. Sums(e, g, field, n)
  OBVIOUS
<1> HIDE DEF e
<1>2. e = f
  BY <1>1, OneSum
<1> QED BY <1>2 DEF Total, e

LEMMA TotalMore ==
    ASSUME NEW g, NEW h, NEW field, NEW n \in Nat,
           \A i \in 1 .. n : g[i][field] \in Nat /\ h[i] = g[i],
           h[n + 1][field] \in Nat
    PROVE  /\ Total(g, field, n) \in Nat
           /\ Total(h, field, n + 1) = Total(g, field, n) + h[n + 1][field]
<1>1. PICK f \in [0 .. n -> Nat] : Sums(f, g, field, n)
  BY SumThere
<1> DEFINE x == h[n + 1][field]
           e == Further(f, n, x)
<1>2. Sums(e, h, field, n + 1)
  BY <1>1, SumFurther
<1>3. e[n + 1] = f[n] + x /\ f[n] \in Nat
  BY DEF Further
<1>4. Total(g, field, n) = f[n]
  BY <1>1, TotalIs
<1>5. Total(h, field, n + 1) = e[n + 1]
  <2>1. n + 1 \in Nat
    OBVIOUS
  <2> HIDE DEF e
  <2> QED BY <1>2, <2>1, TotalIs
<1> QED BY <1>3, <1>4, <1>5

LEMMA TotalNone == ASSUME NEW g, NEW field PROVE Total(g, field, 0) = 0
<1>1. PICK f \in [0 .. 0 -> Nat] : Sums(f, g, field, 0)
  <2>1. 0 \in Nat /\ \A i \in 1 .. 0 : g[i][field] \in Nat
    OBVIOUS
  <2> QED BY <2>1, SumThere, Zenon
<1>2. f[0] = 0
  <2>1. f = [i \in 0 .. 0 |-> IF i = 0 THEN 0 ELSE f[i - 1] + g[i][field]]
    BY <1>1, Zenon DEF Sums
  <2> QED BY <2>1
<1> QED BY <1>1, <1>2, TotalIs

-----------------------------------------------------------------------------
(* Remainders.                                                              *)

LEMMA Product == ASSUME NEW k \in Int, NEW w \in Nat \ {0}, k >= 1 PROVE k * w >= w
OBVIOUS
LEMMA Divided == ASSUME NEW a \in Int, NEW w \in Nat \ {0}
  PROVE a % w \in 0 .. w - 1 /\ a \div w \in Int /\ a = (a \div w) * w + (a % w)
OBVIOUS
LEMMA OneRemainder ==
  ASSUME NEW w \in Nat \ {0}, NEW k \in Int, NEW m \in Int, NEW s \in 0 .. w - 1, NEW t \in 0 .. w - 1,
         k * w + s = m * w + t
  PROVE s = t
<1>1. (k - m) * w = t - s /\ (m - k) * w = s - t
  OBVIOUS
<1>2. k - m >= 1 => (k - m) * w >= w
  BY Product
<1>3. m - k >= 1 => (m - k) * w >= w
  BY Product
<1> DEFINE d == k - m
           e == m - k
<1>4. d \in Int /\ e = 0 - d
  OBVIOUS
<1>5. ~ (k - m >= 1) /\ ~ (m - k >= 1)
  BY <1>1, <1>2, <1>3
<1>6. k = m
  BY <1>5
<1> QED BY <1>6
LEMMA ModAdd ==
  ASSUME NEW w \in Nat \ {0}, NEW a \in Nat, NEW b \in Nat
  PROVE ((a % w) + b) % w = (a + b) % w
<1> DEFINE x == a % w
           q == a \div w
           s == (x + b) % w
           r == (x + b) \div w
           t == (a + b) % w
           m == (a + b) \div w
<1>1. x \in 0 .. w - 1 /\ q \in Int /\ a = q * w + x
  BY Divided
<1>2. s \in 0 .. w - 1 /\ r \in Int /\ x + b = r * w + s
  <2>1. x + b \in Int
    BY <1>1
  <2> HIDE DEF x
  <2> QED BY <2>1, Divided
<1>3. t \in 0 .. w - 1 /\ m \in Int /\ a + b = m * w + t
  <2>1. a + b \in Int
    OBVIOUS
  <2> QED BY <2>1, Divided
<1> HIDE DEF x, q, s, r, t, m
<1>4. (q + r) * w = q * w + r * w
  BY <1>1, <1>2
<1>5. (q + r) * w + s = m * w + t
  BY <1>1, <1>2, <1>3, <1>4
<1>7. q + r \in Int
  BY <1>1, <1>2
<1> DEFINE k == q + r
<1>8. k \in Int /\ k * w + s = m * w + t
  BY <1>5, <1>7
<1> HIDE DEF k
<1>6. s = t
  BY <1>2, <1>3, <1>8, OneRemainder
<1> QED BY <1>6 DEF s, t, x

-----------------------------------------------------------------------------
(* The totals: those of the operations read, and the fields of the one that *)
(* is being read.                                                           *)

Counts == {"fee", "storage"}
Counted(total, field) == total = (TotalsOf(field) + written[field]) % Word

Totalled ==
    step # "fail" =>
        /\ step \in {"header", "top", "source", "manager", "end"} =>
              written.fee = 0 /\ written.storage = 0
        /\ Counted(out.total_fee, "fee")
        /\ Counted(out.total_storage_limit, "storage")

LEMMA GroupTotals ==
    ASSUME IndInv, NEW field \in Counts
    PROVE  /\ TotalsOf(field) = Total(group, field, Len(group))
           /\ TotalsOf(field) \in Nat /\ written[field] \in Nat
           /\ Len(group) \in Nat
           /\ \A i \in 1 .. Len(group) : group[i][field] \in Nat
<1>1. \A op \in Operation : op[field] \in Nat
  BY DEF Counts, Operation, Number
<1>2. /\ Len(group) \in Nat /\ written[field] \in Nat
      /\ \A i \in 1 .. Len(group) : group[i][field] \in Nat
  BY <1>1, Pieces
<1>3. TotalsOf(field) = Total(group, field, Len(group))
  BY TotalsAre
<1>4. Total(group, field, Len(group)) \in Nat
  <2> DEFINE n == Len(group)
  <2> HIDE DEF n
  <2>1. PICK f \in [0 .. n -> Nat] : Sums(f, group, field, n)
    BY <1>2, SumThere DEF n
  <2>2. Total(group, field, n) = f[n] /\ f[n] \in Nat
    BY <1>2, <2>1, TotalIs DEF n
  <2> QED BY <2>2 DEF n
<1> QED BY <1>2, <1>3, <1>4

\* An operation that completes takes its fields along.
LEMMA CountedEnds ==
    ASSUME IndInv, NEW op \in Operation, NEW field \in Counts, group' = Append(group, op),
           written' = Unwritten, op[field] = written[field],
           NEW total, Counted(total, field)
    PROVE  total = (TotalsOf(field)' + written'[field]) % Word
<1> DEFINE n == Len(group)
           h == Append(group, op)
<1>1. Len(h) = n + 1 /\ h[n + 1] = op /\ \A i \in 1 .. n : h[i] = group[i]
  BY Pieces
<1>2. TotalsOf(field)' = Total(group', field, Len(group'))
  BY TotalsAre DEF TotalsOf, Total, Sums
<1>3. op[field] \in Nat
  BY GroupTotals
<1> HIDE DEF h, n
<1>4. Total(h, field, n + 1) = Total(group, field, n) + op[field]
  BY <1>1, <1>3, GroupTotals, TotalMore DEF n
<1>5. TotalsOf(field)' = TotalsOf(field) + written[field]
  BY <1>1, <1>2, <1>4, GroupTotals DEF n, h
<1>6. written'[field] = 0
  BY DEF Unwritten, Counts
<1>7. TotalsOf(field)' + written'[field] = TotalsOf(field) + written[field]
  BY <1>5, <1>6, GroupTotals
<1> QED BY <1>7 DEF Counted

LEMMA TotalledEnds ==
    ASSUME IndInv, Totalled, NEW op \in Operation, NEW next \in {"top", "end"},
           Complete(op, next), step # "fail",
           op.fee = written.fee, op.storage = written.storage,
           out'.total_fee = out.total_fee,
           out'.total_storage_limit = out.total_storage_limit
    PROVE  Totalled'
<1>1. step' = next /\ written' = Unwritten /\ group' = Append(group, op)
  BY DEF Complete, Goto
<1>2. written'.fee = 0 /\ written'.storage = 0
  BY <1>1 DEF Unwritten
<1>3. /\ out.total_fee = (TotalsOf("fee")' + written'["fee"]) % Word
      /\ out.total_storage_limit = (TotalsOf("storage")' + written'["storage"]) % Word
  BY <1>1, CountedEnds DEF Totalled, Counts
<1> QED BY <1>2, <1>3 DEF Totalled, Counted

LEMMA TotalledStays ==
    ASSUME IndInv, Totalled, step # "fail", group' = group,
           written'.fee = written.fee, written'.storage = written.storage,
           out'.total_fee = out.total_fee,
           out'.total_storage_limit = out.total_storage_limit,
           step' \in {"header", "top", "source", "manager", "end"} =>
              step \in {"header", "top", "source", "manager", "end"}
    PROVE  Totalled'
<1>1. TotalsOf("fee")' = TotalsOf("fee") /\ TotalsOf("storage")' = TotalsOf("storage")
  BY DEF TotalsOf
<1> QED BY <1>1 DEF Totalled, Counted

LEMMA TotalledManager ==
    ASSUME IndInv, Totalled, NEW fee \in Number, NEW storage \in Number,
           read_manager_fields(fee, storage)
    PROVE  Totalled'
<1>1. /\ step = "manager" /\ step' \in {"public_key", "contents"} /\ group' = group
      /\ written' = [written EXCEPT !.fee = fee, !.storage = storage]
      /\ out' = [out EXCEPT
                   !.total_fee = (out.total_fee + fee) % Word,
                   !.total_storage_limit = (out.total_storage_limit + storage) % Word]
  BY DEF read_manager_fields, Goto
<1>2. written'.fee = fee /\ written'.storage = storage
  BY <1>1, Pieces DEF Operation
<1>3. /\ out'.total_fee = (out.total_fee + fee) % Word
      /\ out'.total_storage_limit = (out.total_storage_limit + storage) % Word
  BY <1>1, Pieces DEF Group_t
<1>4. TotalsOf("fee")' = TotalsOf("fee") /\ TotalsOf("storage")' = TotalsOf("storage")
  BY <1>1 DEF TotalsOf
<1>5. /\ out.total_fee = (TotalsOf("fee") + 0) % Word
      /\ out.total_storage_limit = (TotalsOf("storage") + 0) % Word
  BY <1>1 DEF Totalled, Counted
<1>6. TotalsOf("fee") \in Nat /\ TotalsOf("storage") \in Nat
  BY GroupTotals DEF Counts
<1>7. TotalsOf("fee") + 0 = TotalsOf("fee") /\ TotalsOf("storage") + 0 = TotalsOf("storage")
  BY <1>6
<1>8. fee \in Nat /\ storage \in Nat /\ Word \in Nat \ {0}
  BY DEF Number
<1>9. /\ ((TotalsOf("fee") % Word) + fee) % Word = (TotalsOf("fee") + fee) % Word
      /\ ((TotalsOf("storage") % Word) + storage) % Word = (TotalsOf("storage") + storage) % Word
  BY <1>6, <1>8, ModAdd
<1>10. /\ out'.total_fee = (TotalsOf("fee")' + written'["fee"]) % Word
       /\ out'.total_storage_limit = (TotalsOf("storage")' + written'["storage"]) % Word
  BY <1>2, <1>3, <1>4, <1>5, <1>7, <1>9
<1> QED BY <1>1, <1>10 DEF Totalled, Counted

LEMMA TotalledRefused == parse_error => Totalled'
BY DEF parse_error, Goto, Totalled

LEMMA TotalledStarts ==
    /\ Init => Totalled
    /\ parse_operations_init => Totalled'
<1>1. 0 % Word = 0
  <2>1. \A w \in Nat \ {0} : 0 % w = 0
    OBVIOUS
  <2> QED BY <2>1
<1>2. /\ Unwritten.fee = 0 /\ Unwritten.storage = 0
      /\ FreshOut.total_fee = 0 /\ FreshOut.total_storage_limit = 0
  BY DEF Unwritten, FreshOut
<1>3. Len(<< >>) = 0
  OBVIOUS
<1>4. ASSUME Init PROVE Totalled
  <2>1. group = << >> /\ written = Unwritten /\ out = FreshOut
    BY <1>4 DEF Init
  <2>2. \A field : TotalsOf(field) = 0
    BY <1>3, <2>1, TotalsAre, TotalNone
  <2> QED BY <1>1, <1>2, <2>1, <2>2 DEF Totalled, Counted
<1>5. ASSUME parse_operations_init PROVE Totalled'
  <2>1. group' = << >> /\ written' = Unwritten /\ out' = FreshOut
    BY <1>5 DEF parse_operations_init
  <2>2. \A field : TotalsOf(field)' = Total(group', field, Len(group'))
    BY DEF TotalsOf, Total, Sums
  <2>3. \A field : TotalsOf(field)' = 0
    BY <1>3, <2>1, <2>2, TotalNone
  <2> QED BY <1>1, <1>2, <2>1, <2>3 DEF Totalled, Counted
<1> QED BY <1>4, <1>5

\* The fields before the contents.
LEMMA TotalledFields ==
    ASSUME IndInv, Totalled,
           \/ read_header
           \/ \E t \in Tag : read_tag(t)
           \/ \E a \in Address : read_source(a)
           \/ \E key \in Tz : read_public_key(key)
    PROVE  Totalled'
<1>1. CASE parse_error
  BY <1>1, TotalledRefused
<1>2. CASE read_header /\ ~parse_error
  <2>1. step = "header" /\ UNCHANGED <<written, group, out>>
    BY <1>2 DEF read_header
  <2> QED BY <2>1, TotalledStays
<1>3. ASSUME NEW t \in Tag, read_tag(t), ~parse_error PROVE Totalled'
  <2>1. /\ step = "top" /\ UNCHANGED <<group, out>>
        /\ written' = [written EXCEPT !.tag = t]
    BY <1>3 DEF read_tag
  <2>2. written'.fee = written.fee /\ written'.storage = written.storage
    BY <2>1, Pieces DEF Operation
  <2> QED BY <2>1, <2>2, TotalledStays
<1>4. ASSUME NEW a \in Address, read_source(a) PROVE Totalled'
  <2> DEFINE c == parse_contract(out.source, a)
  <2>1. /\ step = "source" /\ UNCHANGED group
        /\ written' = [written EXCEPT !.source = a]
        /\ out' = [out EXCEPT !.source = c]
    BY <1>4 DEF read_source
  <2> HIDE DEF c
  <2>2. /\ written'.fee = written.fee /\ written'.storage = written.storage
        /\ out'.total_fee = out.total_fee
        /\ out'.total_storage_limit = out.total_storage_limit
    BY <2>1, Pieces DEF Operation, Group_t
  <2> QED BY <2>1, <2>2, TotalledStays
<1>5. ASSUME NEW key \in Tz, read_public_key(key), ~parse_error PROVE Totalled'
  <2> DEFINE op == [written EXCEPT !.key = key]
  <2>1. /\ step = "public_key" /\ Complete(op, "top")
        /\ out' = [out EXCEPT !.has_reveal = TRUE]
    BY <1>5 DEF read_public_key
  <2>2. op \in Operation /\ op.fee = written.fee /\ op.storage = written.storage
    BY Pieces DEF Operation
  <2> HIDE DEF op
  <2>3. /\ out'.total_fee = out.total_fee
        /\ out'.total_storage_limit = out.total_storage_limit
    BY <2>1, Pieces DEF Group_t
  <2> QED BY <2>1, <2>2, <2>3, TotalledEnds
<1> QED BY <1>1, <1>2, <1>3, <1>4, <1>5

\* The contents that end an operation, or begin a script.
LEMMA TotalledContents ==
    ASSUME IndInv, Totalled,
           \/ read_vote
           \/ \E a \in Tz \cup {NoAddress} : read_delegate(a)
           \/ \E amount \in Number, a \in Address, params \in BOOLEAN :
                 read_transfer(amount, a, params)
    PROVE  Totalled'
<1>1. admitted /\ step = "contents"
  BY DEF read_vote, read_delegate, read_transfer, admitted
<1>2. CASE read_vote
  <2>1. Complete(written, "end") /\ out' = [out EXCEPT !.tag = tag]
    BY <1>2 DEF read_vote
  <2>2. /\ out'.total_fee = out.total_fee
        /\ out'.total_storage_limit = out.total_storage_limit
    BY <2>1, Pieces DEF Group_t
  <2> QED BY <1>1, <2>1, <2>2, Pieces, TotalledEnds
<1>3. ASSUME NEW a \in Tz \cup {NoAddress}, read_delegate(a) PROVE Totalled'
  <2> DEFINE op == [written EXCEPT !.to = a]
             c == IF a = NoAddress
                  THEN [out.destination EXCEPT !.originated = FALSE, !.typed = FALSE]
                  ELSE parse_implicit(out.destination, a)
  <2>1. Complete(op, "top") /\ out' = [out EXCEPT !.tag = tag, !.destination = c]
    BY <1>3 DEF read_delegate
  <2>2. op \in Operation /\ op.fee = written.fee /\ op.storage = written.storage
    BY Pieces DEF Operation, Maybe, Address
  <2> HIDE DEF op, c
  <2>3. /\ out'.total_fee = out.total_fee
        /\ out'.total_storage_limit = out.total_storage_limit
    BY <2>1, Pieces DEF Group_t
  <2> QED BY <1>1, <2>1, <2>2, <2>3, TotalledEnds
<1>4. ASSUME NEW amount \in Number, NEW a \in Address, NEW params \in BOOLEAN,
             read_transfer(amount, a, params)
      PROVE  Totalled'
  <2> DEFINE c == parse_contract(out.destination, a)
             sent == [out EXCEPT !.tag = tag, !.amount = amount, !.destination = c]
             called == [sent EXCEPT !.is_manager_tz_operation = TRUE, !.source = c]
             op == [written EXCEPT !.to = a, !.amount = amount]
  <2>1. \/ out' = sent /\ Complete(op, "top")
        \/ parse_error
        \/ out' = called /\ Goto("begin") /\ written' = op /\ group' = group
    BY <1>4 DEF read_transfer
  <2>2. c \in parsed_contract
    BY Contracts, Pieces
  <2> HIDE DEF c
  <2>3. /\ sent \in Group_t /\ sent.total_fee = out.total_fee
        /\ sent.total_storage_limit = out.total_storage_limit
    BY <2>2, Pieces DEF Group_t
  <2>4. /\ called.total_fee = out.total_fee
        /\ called.total_storage_limit = out.total_storage_limit
    <3> HIDE DEF sent
    <3>1. called = [sent EXCEPT !.is_manager_tz_operation = TRUE, !.source = c]
      OBVIOUS
    <3> HIDE DEF called
    <3> QED BY <2>2, <2>3, <3>1 DEF Group_t
  <2>5. op \in Operation /\ op.fee = written.fee /\ op.storage = written.storage
    BY Pieces DEF Operation, Maybe
  <2> HIDE DEF sent, called, op
  <2>6. CASE out' = sent /\ Complete(op, "top")
    BY <1>1, <2>3, <2>5, <2>6, TotalledEnds
  <2>7. CASE parse_error
    BY <2>7, TotalledRefused
  <2>8. CASE out' = called /\ Goto("begin") /\ written' = op /\ group' = group
    BY <1>1, <2>4, <2>5, <2>8, TotalledStays DEF Goto
  <2> QED BY <2>1, <2>6, <2>7, <2>8
<1> QED BY <1>2, <1>3, <1>4

\* Scripts have no fields that count.
LEMMA ScriptedTotals ==
    ASSUME IndInv, NEW code
    PROVE  /\ Scripted(code).fee = written.fee
           /\ Scripted(code).storage = written.storage
BY Pieces DEF Operation, Scripted

LEMMA EffectTotals ==
    ASSUME IndInv, NEW chain
    PROVE  /\ Effect(chain, out).total_fee = out.total_fee
           /\ Effect(chain, out).total_storage_limit = out.total_storage_limit
<1>1. /\ [out EXCEPT !.tag = "BABYLON_DELEGATION",
                     !.destination.originated = TRUE].total_fee = out.total_fee
      /\ [out EXCEPT !.tag = "BABYLON_DELEGATION",
                     !.destination.originated = TRUE].total_storage_limit
            = out.total_storage_limit
  BY Pieces DEF Group_t
<1>2. /\ [out EXCEPT !.tag = "BABYLON_DELEGATION",
                     !.destination.originated = FALSE,
                     !.destination.typed = FALSE].total_fee = out.total_fee
      /\ [out EXCEPT !.tag = "BABYLON_DELEGATION",
                     !.destination.originated = FALSE,
                     !.destination.typed = FALSE].total_storage_limit
            = out.total_storage_limit
  BY Pieces DEF Group_t
<1>3. /\ [out EXCEPT !.tag = "BABYLON_TRANSACTION"].total_fee = out.total_fee
      /\ [out EXCEPT !.tag = "BABYLON_TRANSACTION"].total_storage_limit
            = out.total_storage_limit
  BY Pieces DEF Group_t
<1>4. CASE chain = "set_delegate"
  BY <1>1, <1>4 DEF Effect
<1>5. CASE chain = "no_delegate"
  BY <1>2, <1>5 DEF Effect
<1>6. CASE chain = "transfer"
  BY <1>3, <1>6 DEF Effect
<1>7. CASE chain \notin {"set_delegate", "no_delegate", "transfer"}
  BY <1>7 DEF Effect
<1> QED BY <1>4, <1>5, <1>6, <1>7

LEMMA TotalledScripts ==
    ASSUME IndInv, Totalled,
           \/ \E code \in Code : read_literal(code) \/ read_branch(code)
           \/ \E a \in Address : read_address(a)
           \/ \E amount \in Number : read_mutez(amount)
    PROVE  Totalled'
<1>1. ASSUME NEW code \in Code, read_literal(code) PROVE Totalled'
  <2>1. step \in Mid /\ step \in Chains /\ step # "fail"
    BY <1>1, Tables DEF read_literal, Mid, Chains
  <2>2. /\ Scripted(code) \in Operation /\ Scripted(code).fee = written.fee
        /\ Scripted(code).storage = written.storage
    BY ScriptedType, ScriptedTotals DEF Script
  <2>3. CASE at < Len(Chain[step])
    <3>1. written' = Scripted(code) /\ UNCHANGED <<step, out, group>>
      BY <1>1, <2>3, Zenon DEF read_literal
    <3> QED BY <2>1, <2>2, <3>1, TotalledStays
  <2>4. CASE ~(at < Len(Chain[step])) /\ After[step] = "end"
    <3>1. out' = Effect(step, out) /\ Complete(Scripted(code), "end")
      BY <1>1, <2>4 DEF read_literal
    <3> QED BY <2>1, <2>2, <3>1, EffectTotals, TotalledEnds
  <2>5. CASE ~(at < Len(Chain[step])) /\ After[step] # "end"
    <3>1. /\ out' = Effect(step, out) /\ step' = After[step]
          /\ written' = Scripted(code) /\ group' = group
      BY <1>1, <2>5 DEF read_literal, Goto
    <3>2. step' \notin {"header", "top", "source", "manager", "end"}
      BY <2>1, <2>5, <3>1, Tables DEF Mid, Chains, Branches
    <3> QED BY <2>1, <2>2, <3>1, <3>2, EffectTotals, TotalledStays
  <2> QED BY <2>3, <2>4, <2>5
<1>2. ASSUME NEW code \in Code, read_branch(code) PROVE Totalled'
  <2>1. /\ step \in Branches /\ step' = Branch[step][code] /\ code \in DOMAIN Branch[step]
        /\ written' = Scripted(code) /\ UNCHANGED <<out, group>>
    BY <1>2, Tables DEF read_branch, Goto
  <2>2. step # "fail" /\ step' \notin {"header", "top", "source", "manager", "end"}
    BY <2>1, Tables DEF Mid, Chains, Branches
  <2> QED BY <2>1, <2>2, ScriptedTotals, TotalledStays
<1>3. ASSUME NEW a \in Address, read_address(a) PROVE Totalled'
  <2> DEFINE s == Scripted("<address>")
  <2>1. /\ step \in {"key_hash", "address"} /\ step' \in {"third", "fourth"}
        /\ written' = [s EXCEPT !.inner = a] /\ group' = group
    BY <1>3 DEF read_address, Goto
  <2>2. s \in Operation /\ s.fee = written.fee /\ s.storage = written.storage
    BY ScriptedType, ScriptedTotals DEF Script
  <2> HIDE DEF s
  <2>3. written'.fee = written.fee /\ written'.storage = written.storage
    BY <2>1, <2>2 DEF Operation
  <2>4. /\ out'.total_fee = out.total_fee
        /\ out'.total_storage_limit = out.total_storage_limit
    BY <1>3, Pieces DEF read_address, Group_t
  <2> QED BY <2>1, <2>3, <2>4, TotalledStays
<1>4. ASSUME NEW amount \in Number, read_mutez(amount) PROVE Totalled'
  <2> DEFINE s == Scripted("<amount>")
  <2>1. /\ step = "mutez" /\ step' = "transfer"
        /\ out' = [out EXCEPT !.amount = amount]
        /\ written' = [s EXCEPT !.moved = amount] /\ group' = group
    BY <1>4 DEF read_mutez, Goto
  <2>2. s \in Operation /\ s.fee = written.fee /\ s.storage = written.storage
    BY ScriptedType, ScriptedTotals DEF Script
  <2> HIDE DEF s
  <2>3. /\ written'.fee = written.fee /\ written'.storage = written.storage
        /\ out'.total_fee = out.total_fee
        /\ out'.total_storage_limit = out.total_storage_limit
    BY <2>1, <2>2, Pieces DEF Operation, Group_t
  <2> QED BY <2>1, <2>3, TotalledStays
<1> QED BY <1>1, <1>2, <1>3, <1>4

LEMMA TotalledOther ==
    ASSUME IndInv, Totalled,
           \/ not_admitted \/ read_unsupported \/ read_other_code
           \/ read_address_bytes \/ read_past_end
           \/ \E amount \in Number : read_unknown_curve(amount)
    PROVE  Totalled'
<1>1. CASE parse_error
  BY <1>1, TotalledRefused
<1>2. CASE ~parse_error
  <2>1. /\ step \in {"key_hash", "address"} /\ step' = "unread"
        /\ UNCHANGED <<written, group, out>>
    BY <1>2 DEF not_admitted, read_unsupported, read_other_code,
       read_address_bytes, read_past_end, read_unknown_curve, Goto
  <2> QED BY <2>1, TotalledStays
<1> QED BY <1>1, <1>2

LEMMA TotalledSteps == IndInv /\ Totalled /\ [Next]_vars => Totalled'
<1> SUFFICES ASSUME IndInv, Totalled, [Next]_vars PROVE Totalled'
  OBVIOUS
<1>1. CASE UNCHANGED vars
  BY <1>1 DEF vars, Totalled, Counted, TotalsOf
<1>2. CASE Next
  BY <1>2, TotalledFields, TotalledManager, TotalledContents, TotalledScripts,
     TotalledOther, TotalledStarts, Zenon DEF Next
<1> QED BY <1>1, <1>2

\* The fee and the storage limit on the screen are the sums over the group.
THEOREM TotalsCover == Spec => []TotalsCoverTheGroup
<1>1. Init => Totalled
  BY TotalledStarts
<1>2. IndInv /\ Totalled => TotalsCoverTheGroup
  <2> SUFFICES ASSUME IndInv, Totalled, parse_operations_final
               PROVE  /\ out.total_fee = TotalsOf("fee") % Word
                      /\ out.total_storage_limit = TotalsOf("storage") % Word
    BY DEF TotalsCoverTheGroup
  <2>1. step \in {"end", "top"}
    BY DEF parse_operations_final
  <2>2. /\ out.total_fee = (TotalsOf("fee") + 0) % Word
        /\ out.total_storage_limit = (TotalsOf("storage") + 0) % Word
    BY <2>1 DEF Totalled, Counted
  <2>3. TotalsOf("fee") \in Nat /\ TotalsOf("storage") \in Nat
    BY GroupTotals DEF Counts
  <2>4. TotalsOf("fee") + 0 = TotalsOf("fee") /\ TotalsOf("storage") + 0 = TotalsOf("storage")
    BY <2>3
  <2> QED BY <2>2, <2>4
<1> QED BY <1>1, <1>2, TotalledSteps, Inductive, PTL DEF Spec
=============================================================================
