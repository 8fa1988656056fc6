----------------------------- MODULE PageStore -----------------------------
(***************************************************************************)
(* What the buffer pool promises the rest of the system: a store of pages  *)
(* in which a read returns what was last written.  Any pages may be made   *)
(* stable at any time; a crash takes every page back to its stable value.  *)
(* Creating a page that exists may make the store unsound; an unsound      *)
(* store promises nothing until it crashes.                                *)
(***************************************************************************)
EXTENDS Integers

CONSTANTS
  Page,
  MaxVersion,   \* bound on the writes of a page
  InitPages     \* pages of the table files at the start

NoVersion == -1    \* the page does not exist

VARIABLES
  content,   \* version of each page last written
  stable,    \* version that survives a crash
  reply,     \* version returned by the last read
  sound      \* whether the store keeps its promise

vars == <<content, stable, reply, sound>>

Init ==
  /\ content = [p \in Page |-> IF p \in InitPages THEN 0 ELSE NoVersion]
  /\ stable = content
  /\ reply = NoVersion
  /\ sound = TRUE

Stabilise(pages) == stable' = [p \in Page |-> IF p \in pages THEN content[p] ELSE stable[p]]

Read(p) ==
  /\ content[p] # NoVersion
  /\ reply' = content[p]
  /\ UNCHANGED <<content, sound>>

Create(p) ==
  /\ content' = [content EXCEPT ![p] = 0]
  /\ content[p] = NoVersion => sound'
  /\ UNCHANGED reply

Write(p) ==
  /\ content[p] \in 0 .. MaxVersion - 1
  /\ content' = [content EXCEPT ![p] = @ + 1]
  /\ UNCHANGED <<stable, reply, sound>>

Crash ==
  /\ content' = stable
  /\ sound' = TRUE
  /\ UNCHANGED <<stable, reply>>

Next ==
  \/ sound /\ \E p \in Page : Write(p)
  \/ sound /\ \E pages \in SUBSET Page :
       /\ Stabilise(pages)
       /\ UNCHANGED <<content, reply, sound>> \/ \E p \in Page : Read(p) \/ Create(p)
  \/ ~sound /\ ~sound'
  \/ Crash

Spec == Init /\ [][Next]_vars
============================================================================
