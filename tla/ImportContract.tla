---------------------------- MODULE ImportContract ----------------------------
(***************************************************************************)
(* What somebody who asks for an import of backups may rely on, whatever   *)
(* calls fail and however the documents in the bucket change meanwhile.    *)
(* The import owes a Backup to every document that was done when it began, *)
(* for as long as the document is there, and pays all it owes as it ends.  *)
(* A document that never was done gets none.                               *)
(***************************************************************************)
CONSTANT Documents

VARIABLES
    content,    \* content[n]: other, done or gone
    status,     \* state of the import: none, Pending or Succeeded
    due,        \* the documents it owes a Backup to
    held        \* the documents that have one

vars == <<content, status, due, held>>

Complete == {n \in Documents : content[n] = "done"}

Init ==
    /\ content \in [Documents -> {"other", "done"}]
    /\ status = "none"
    /\ due = {}
    /\ held = {}

Begin ==
    /\ status # "Pending"
    /\ status' = "Pending"
    /\ due' = Complete
    /\ UNCHANGED <<content, held>>

\* The import starts over: it may owe more by now, never less.
Again ==
    /\ status = "Pending"
    /\ due \subseteq due' /\ due' \subseteq Complete
    /\ UNCHANGED <<content, status, held>>

End ==
    /\ status = "Pending"
    /\ status' = "Succeeded"
    /\ due' = {}
    /\ \E made \in SUBSET Documents :
          /\ due \subseteq made
          /\ \A n \in made : content[n] # "other"
          /\ held' = held \cup made
    /\ UNCHANGED content

\* A backup that is done only now may be too late for this import.
Finish(n) ==
    /\ content[n] = "other"
    /\ content' = [content EXCEPT ![n] = "done"]
    /\ due' \in {due, due \cup {n}}
    /\ UNCHANGED <<status, held>>

Remove(n) ==
    /\ content[n] # "gone"
    /\ content' = [content EXCEPT ![n] = "gone"]
    /\ due' = due \ {n}
    /\ UNCHANGED <<status, held>>

\* Backups are created by hand, and deleted.
Manage(n) ==
    /\ held' \in {held \cup {n}, held \ {n}}
    /\ UNCHANGED <<content, status, due>>

Next ==
    \/ Begin \/ Again \/ End
    \/ \E n \in Documents : Finish(n) \/ Remove(n) \/ Manage(n)

Spec == Init /\ [][Next]_vars
=============================================================================
