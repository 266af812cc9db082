--------------------------- MODULE VersionArchive --------------------------
(***************************************************************************)
(* What the snapshot discipline of docs/ESPEC.md 6.3 promises, with one    *)
(* archive of whole images instead of the six maps of src/src/memory.rs:   *)
(* a version names one image for ever, version numbers are never issued    *)
(* twice, the newest `window` images are kept, and a restore brings back   *)
(* the whole image of a kept version or changes nothing.                   *)
(***************************************************************************)
EXTENDS Naturals

CONSTANTS
  FirstImage, FirstWindow,
  Windows,   \* windows a caller may set
  Asked      \* versions a caller may ask for, issued or not

VARIABLES
  cur,      \* the current image
  version,  \* the last version issued
  window,   \* how many versions are kept; 0 is "all"
  archive,  \* version -> image, for the versions kept
  answer    \* what the last call was told

vars == <<cur, version, window, archive, answer>>

Done == [kind |-> "done", of |-> 0]

\* The part of an archive that a window of k versions keeps when the last
\* version issued is top.
Kept(a, k, top) ==
  [v \in {w \in DOMAIN a : k = 0 \/ w + k > top} |-> a[v]]

Init ==
  /\ cur = FirstImage
  /\ version = 0
  /\ window = FirstWindow
  /\ archive = [v \in {} |-> FirstImage]
  /\ answer = Done

\* The program writes: the archive does not see it.
Change ==
  /\ answer' = Done
  /\ UNCHANGED <<version, window, archive>>

Take ==
  /\ version' = version + 1
  /\ archive' = Kept([v \in DOMAIN archive \cup {version + 1} |->
                        IF v = version + 1 THEN cur ELSE archive[v]],
                     window, version + 1)
  /\ answer' = Done
  /\ UNCHANGED <<cur, window>>

SetWindow(k) ==
  /\ window' = k
  /\ archive' = Kept(archive, k, version)
  /\ answer' = Done
  /\ UNCHANGED <<cur, version>>

Return(v) ==
  /\ v \in DOMAIN archive
  /\ cur' = archive[v]
  /\ answer' = [kind |-> "restored", of |-> v]
  /\ UNCHANGED <<version, window, archive>>

\* A version that is not kept: evicted, or never issued.
Refuse(v) ==
  /\ v \notin DOMAIN archive
  /\ answer' = [kind |-> "refused", of |-> v]
  /\ UNCHANGED <<cur, version, window, archive>>

Next ==
  \/ Change
  \/ Take
  \/ \E k \in Windows : SetWindow(k)
  \/ \E v \in Asked : Return(v) \/ Refuse(v)

Spec == Init /\ [][Next]_vars
=============================================================================
