----------------------------- MODULE SessionStore -----------------------------
(***************************************************************************)
(* What a session promises the client that carries it from request to      *)
(* request: a value set stays set until it is set again or deleted, a get  *)
(* answers with the value of that moment, whatever else a request does.    *)
(***************************************************************************)
CONSTANTS Name, Value, Unset

VARIABLES data,     \* what the session holds: name by name
          asked,    \* the operation of the request under way
          answer    \* what the last request answered

ssvars == <<data, asked, answer>>

Entries == [Name -> Value \cup {Unset}]

\* An operation; over holds the values of an overriding header, if any.
Operation == [op : {"none", "look", "get", "set"}, name : Name,
              value : Value \cup {Unset}, over : Entries]

Overlay(base, over) ==
  [n \in Name |-> IF over[n] = Unset THEN base[n] ELSE over[n]]

Init ==
  /\ data \in Entries
  /\ asked.op = "none"
  /\ answer = Unset

Ask ==
  /\ asked.op = "none"
  /\ asked' \in Operation
  /\ asked'.op # "none"
  /\ UNCHANGED <<data, answer>>

Answer ==
  /\ asked.op # "none"
  /\ asked'.op = "none"
  /\ data' = Overlay(IF asked.op = "set"
                       THEN [data EXCEPT ![asked.name] = asked.value]
                       ELSE data, asked.over)
  /\ answer' = IF asked.op = "get" THEN data[asked.name] ELSE Unset

Next == Ask \/ Answer

Spec == Init /\ [][Next]_ssvars
=============================================================================
