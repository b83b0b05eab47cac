---------------------------- MODULE FolderPromise ----------------------------
(***************************************************************************)
(* What the clients of one IMAP folder may rely on, whatever the other     *)
(* sessions, deliveries and POP3 sessions do: UIDs ascend, a client's      *)
(* numbering grows only at its end, and it shrinks only by EXPUNGE, which  *)
(* names mail that really is gone and which is never sent between two      *)
(* commands or in answer to FETCH, STORE or SEARCH.                        *)
(***************************************************************************)
EXTENDS Naturals, Sequences, SequencesExt

CONSTANT Sessions

VARIABLES
    mail,   \* the UIDs of the messages in the folder
    known,  \* for every session the UIDs its client knows, by number
    mode    \* "closed", "quiet" (no command), "numbers" (FETCH, STORE, SEARCH),
            \* or "free" (any other command, or idling)

folder == <<mail, known, mode>>

Ascending(list) == \A i, j \in DOMAIN list : i < j => list[i] < list[j]

Init ==
    /\ \A s \in Sessions : IF mode[s] = "closed" THEN known[s] = <<>>
                           ELSE ToSet(known[s]) = mail /\ Ascending(known[s])
    /\ mode \in [Sessions -> {"closed", "quiet"}]

\* A message arrives, above all there is and all that any client knows.
Arrive ==
    /\ \E u \in mail' \ mail :
          /\ mail' = mail \cup {u}
          /\ \A v \in mail \cup UNION {ToSet(known[s]) : s \in Sessions} : v < u
    /\ UNCHANGED <<known, mode>>

MayExpunge(s) == "free" \in {mode[s], mode'[s]}

\* The session goes from one command to the next, its client hears nothing new.
Turn(s) == mode[s] # "closed" /\ mode'[s] # "closed" /\ known'[s] = known[s]

\* The session hears of changes.
Hear(s) ==
    LET old == ToSet(known[s])
        now == ToSet(known'[s])
    IN  /\ mode[s] # "closed" /\ mode'[s] # "closed"
        /\ Ascending(known'[s])
        /\ IsPrefix(SelectSeq(known[s], LAMBDA u : u \in now), known'[s])
        /\ old \subseteq now \/ MayExpunge(s)
        /\ (old \ now) \cap mail' = {}

Open(s) == mode[s] = "closed" /\ mode'[s] # "closed" /\ Ascending(known'[s])

Close(s) == mode'[s] = "closed" /\ known'[s] = <<>>

\* Mail may be deleted in any step; no step touches two sessions.
Next ==
    \/ Arrive
    \/ /\ mail' \subseteq mail
       /\ \E s \in Sessions :
             /\ \A t \in Sessions \ {s} : known'[t] = known[t] /\ mode'[t] = mode[t]
             /\ Turn(s) \/ Hear(s) \/ Open(s) \/ Close(s)

Spec == Init /\ [][Next]_folder

=============================================================================
