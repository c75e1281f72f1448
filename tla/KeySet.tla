------------------------------- MODULE KeySet -------------------------------
(***************************************************************************)
(* What a set to which threads add keys promises its users.  Find answers  *)
(* with what is so at one moment of the call.  Insert first looks the same *)
(* way, gives up if the key is there, and otherwise adds it at a second    *)
(* moment: inserts of one key that overlap may all succeed.                *)
(***************************************************************************)
CONSTANTS Thread, Key, Null

VARIABLES
    keys,   \* the set
    call,   \* call[t]: "find" or "insert"
    arg,    \* arg[t]: the key
    answer  \* answer[t]: what t has done of its call

vars == <<keys, call, arg, answer>>

Init == /\ keys = {}
        /\ call = [t \in Thread |-> "find"]
        /\ arg = [t \in Thread |-> Null]
        /\ answer = [t \in Thread |-> "none"]

Says(t, a) == answer' = [answer EXCEPT ![t] = a]

\* a is the truth about k, or no answer yet.
Right(a, k) == /\ a = "present" => k \in keys
              /\ a = "absent" => k \notin keys

\* The call begins, and may look at once.
Begin(t, c, k) == /\ answer[t] = "none"
                  /\ call' = [call EXCEPT ![t] = c]
                  /\ arg' = [arg EXCEPT ![t] = k]
                  /\ \E a \in {"open", "present", "absent"} : Says(t, a) /\ Right(a, k)
                  /\ UNCHANGED keys

Look(t) == /\ answer[t] = "open"
           /\ \E a \in {"present", "absent"} : Says(t, a) /\ Right(a, arg[t])
           /\ UNCHANGED <<keys, call, arg>>

Add(t) == /\ call[t] = "insert" /\ answer[t] = "absent"
          /\ Says(t, "added")
          /\ keys' = keys \cup {arg[t]}
          /\ UNCHANGED <<call, arg>>

Return(t) == /\ \/ answer[t] \in {"present", "added"}
                \/ call[t] = "find" /\ answer[t] = "absent"
             /\ call' = [call EXCEPT ![t] = "find"]
             /\ arg' = [arg EXCEPT ![t] = Null]
             /\ Says(t, "none")
             /\ UNCHANGED keys

Next == \E t \in Thread :
          \/ Look(t) \/ Add(t) \/ Return(t)
          \/ \E k \in Key, c \in {"find", "insert"} : Begin(t, c, k)

Spec == Init /\ [][Next]_vars

=============================================================================
