-------------------------- MODULE AuditedOperation --------------------------
(***************************************************************************)
(* What SDS promises about every file or key (item) of a request, without  *)
(* handlers, S3 or DynamoDB: the items of a request are dealt with one     *)
(* after the other; an item that is to be saved is stored at most once,    *)
(* before its end; at its end one record and one status appear together,   *)
(* agree with what was stored, and never change.  An item may stay without *)
(* an end: a promise kept by a replica that dies.                          *)
(***************************************************************************)
EXTENDS Integers

CONSTANTS
  Requests,
  Positions   \* positions of the items of a request: 1 .. n

VARIABLES
  asked,      \* what is to be done with each item: "none" is no item
  stored,     \* how often each item's file was stored
  recorded,   \* kind of each item's record, "NONE" before
  status      \* each item's status, 0 before

promised == <<asked, stored, recorded, status>>

Items == Requests \X Positions
Asks  == {"none", "save", "delete", "read"}

(* The record and the status an item may end with. *)
SaveEnds(n) ==
  {<<"FAILED", code>> : code \in IF n = 0 THEN {400, 409, 500} ELSE {500}}
    \cup {<<"NONE", 500>>}
    \cup IF n = 1 THEN {"CREATE", "UPDATE"} \X {500} \cup {<<"CREATE", 201>>, <<"UPDATE", 200>>}
                  ELSE {}

(* A deletion does not promise its record: its status is taken before the    *)
(* record is written, and the 500 meant for a failure to write it is set     *)
(* after that and lost (delete_files.py:46,57).                              *)
DeleteEnds == {<<"DELETE", 204>>} \cup {"FAILED"} \X {404, 500}
                \cup {"NONE"} \X {204, 404, 500}

ReadEnds == {"READ", "INFO"} \X {200, 500} \cup {"FAILED"} \X {400, 404, 500}
              \cup {<<"NONE", 500>>}

Ends(i) == CASE asked[i] = "save"   -> SaveEnds(stored[i])
             [] asked[i] = "delete" -> DeleteEnds
             [] asked[i] = "read"   -> ReadEnds
             [] OTHER               -> {}

(* It is an item's turn when the items before it have their status. *)
Turn(i) ==
  /\ status[i] = 0
  /\ \A p \in Positions : p < i[2] => status[<<i[1], p>>] # 0

Ask(r) ==
  /\ \A p \in Positions : asked[<<r, p>>] = "none"
  /\ asked' \in [Items -> Asks]
  /\ \A i \in Items : i[1] # r => asked'[i] = asked[i]
  /\ UNCHANGED <<stored, recorded, status>>

Store(i) ==
  /\ asked[i] = "save" /\ Turn(i) /\ stored[i] = 0
  /\ stored' = [stored EXCEPT ![i] = 1]
  /\ UNCHANGED <<asked, recorded, status>>

End(i) ==
  /\ Turn(i)
  /\ \E e \in Ends(i) :
       /\ recorded' = [recorded EXCEPT ![i] = e[1]]
       /\ status' = [status EXCEPT ![i] = e[2]]
  /\ UNCHANGED <<asked, stored>>

Init ==
  /\ asked = [i \in Items |-> "none"]
  /\ stored = [i \in Items |-> 0]
  /\ recorded = [i \in Items |-> "NONE"]
  /\ status = [i \in Items |-> 0]

Next ==
  \/ \E r \in Requests : Ask(r)
  \/ \E i \in Items : Store(i) \/ End(i)

Spec == Init /\ [][Next]_promised

=============================================================================
