------------------------------ MODULE FileStore ------------------------------
(***************************************************************************)
(* What the file system of Project06 promises its user, without blocks: a  *)
(* set of files, each a string of units, of which one at a time is being   *)
(* copied in.                                                              *)
(*                                                                         *)
(* The promise is conditional: a user of the store learns from intact      *)
(* whether it still holds, and formatting makes it hold again.             *)
(***************************************************************************)
EXTENDS Integers

CONSTANTS Inumbers, Words,
          Text(_, _),         (* unit p of the text that is named by a word  *)
          ChunkSize           (* units that are written at once, at most     *)

NoFile == <<-1>>            \* no text has a negative unit
NoCopy == [inumber |-> -1, word |-> 0, offset |-> 0]

\* The first k units of a text.
Prefix(x, k) == [p \in 1..k |-> Text(x, p - 1)]

VARIABLES files, copy, mounted, intact

vars == <<files, copy, mounted, intact>>

Init ==
    /\ files = [n \in Inumbers |-> NoFile]
    /\ copy = NoCopy
    /\ mounted = FALSE
    /\ intact = TRUE

Mount ==
    /\ mounted' = TRUE
    /\ UNCHANGED <<files, copy>>

\* The program ends, of its own or not, and is started again: files persist.
Restart ==
    /\ mounted' = FALSE
    /\ copy' = NoCopy
    /\ UNCHANGED files

\* One write of format takes some files away at once.
Format ==
    /\ ~mounted
    /\ \E gone \in SUBSET Inumbers :
          files' = [n \in Inumbers |-> IF n \in gone THEN NoFile ELSE files[n]]
    /\ UNCHANGED <<copy, mounted>>

\* After its last write the store is as good as new.
Formatted ==
    /\ ~mounted
    /\ files' = [n \in Inumbers |-> NoFile]
    /\ UNCHANGED <<copy, mounted>>

Create(n) ==
    /\ mounted /\ copy = NoCopy
    /\ files[n] = NoFile
    /\ files' = [files EXCEPT ![n] = <<>>]
    /\ UNCHANGED <<copy, mounted>>

Delete(n) ==
    /\ mounted /\ copy = NoCopy
    /\ files[n] # NoFile
    /\ files' = [files EXCEPT ![n] = NoFile]
    /\ UNCHANGED <<copy, mounted>>

BeginCopy(n, x) ==
    /\ mounted /\ copy = NoCopy
    /\ copy' = [inumber |-> n, word |-> x, offset |-> 0]
    /\ UNCHANGED <<files, mounted>>

EndCopy == copy' = NoCopy /\ UNCHANGED <<files, mounted>>

\* A file that was empty grows by the next units of the text, all at once.
Append ==
    /\ copy # NoCopy
    /\ files[copy.inumber] = Prefix(copy.word, copy.offset)
    /\ \E k \in 0..ChunkSize :
          /\ files' = [files EXCEPT ![copy.inumber] = Prefix(copy.word, copy.offset + k)]
          /\ copy' \in {[copy EXCEPT !.offset = @ + k], NoCopy}
    /\ UNCHANGED mounted

\* Nothing is promised of a file that is copied over, except that it is the
\* only one to change.
Overwrite ==
    /\ copy # NoCopy
    /\ files[copy.inumber] \notin {NoFile, Prefix(copy.word, copy.offset)}
    /\ \A n \in Inumbers \ {copy.inumber} : files'[n] = files[n]
    /\ copy' = NoCopy \/ copy' = [copy EXCEPT !.offset = copy'.offset]
    /\ UNCHANGED mounted

Operation ==
    \/ Mount \/ Restart \/ Format
    \/ \E n \in Inumbers : Create(n) \/ Delete(n) \/ \E x \in Words : BeginCopy(n, x)
    \/ EndCopy \/ Append \/ Overwrite

Next ==
    \/ Operation /\ UNCHANGED intact
    \/ Formatted /\ intact' = TRUE
    \/ intact' = FALSE

Spec == Init /\ [][Next]_vars

=============================================================================
