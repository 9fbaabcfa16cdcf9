--------------------------- MODULE TagCommandProofs ---------------------------
(***************************************************************************)
(* For any tags and EPCs and any number of retries: which tags a command   *)
(* of the CLI may touch, what selection it leaves, and how often it tries. *)
(***************************************************************************)
EXTENDS TagCommand, TLAPS

(* From the moment the command has chosen an EPC until the tag operation   *)
(* is done, or is to be tried again.                                       *)
Selecting == pc \in {"select", "mode", "operate", "reset", "resetMode", "look"}

(* Where the command is tells what the reader's selection is.              *)
SelectionKnown ==
  /\ Selecting => select # NoEpc
  /\ pc = "mode" => mask = select
  /\ pc = "operate" => mask = select /\ masked
  /\ pc = "clearMode" => mask = NoEpc
  /\ pc = "verify" => mask = NoEpc /\ ~masked

(* Only write_epc_reliable tries again, and only then a tag is rediscovered. *)
RetriesReliable ==
  /\ pc \in {"reset", "resetMode", "look"} => Reliable
  /\ found # {} => Reliable

HowItEnded ==
  /\ exit # "none" => pc = "done"
  /\ exit = "Ok" => mask = NoEpc /\ ~masked
  /\ exit = "WriteFail" => Reliable /\ attempt = MaxRetries

(* Tags that were never touched have EPCs of their own, and what a write   *)
(* leaves is on touched tags only.                                         *)
EpcsApart ==
  /\ \A t, u \in Tags : epc[t] = epc[u] /\ epc[t] \in Epcs => t = u
  /\ \A t \in Tags : epc[t] \notin Epcs => t \in touched

(* Every tag the selection matches is the target, or was taken for it.     *)
SelectsKnownTags ==
  /\ pc = "find" => target = {} /\ found = {}
  /\ Selecting => \A t \in Tags : epc[t] = select => t \in target \cup found
  /\ touched \subseteq target \cup found

IInv ==
  TypeOK /\ SelectionKnown /\ RetriesReliable /\ HowItEnded /\ EpcsApart /\ SelectsKnownTags

-----------------------------------------------------------------------------
(* A command starts within the invariant: it has chosen no EPC, has        *)
(* touched nothing, and every tag has an EPC of its own.                   *)
LEMMA Initially == Init => IInv
<1> SUFFICES ASSUME Init PROVE IInv
  OBVIOUS
<1> USE DEF Init
<1>1. TypeOK
  <2>1. epc \in [Tags -> AllEpcs] /\ field \subseteq Tags
    BY DEF AllEpcs
  <2>2. mask \in AllEpcs \cup {NoEpc} /\ given \in Epcs \cup {NoEpc}
    BY DEF AllEpcs
  <2>3. attempt \in 0..MaxRetries
    BY TagCommandAssumption
  <2> QED
    BY <2>1, <2>2, <2>3 DEF TypeOK
<1>2. SelectionKnown
  BY DEF SelectionKnown, Selecting
<1>3. RetriesReliable /\ HowItEnded
  BY DEF RetriesReliable, HowItEnded
<1>4. EpcsApart
  BY DEF EpcsApart
<1>5. SelectsKnownTags
  BY DEF SelectsKnownTags, Selecting
<1> QED
  BY <1>1, <1>2, <1>3, <1>4, <1>5 DEF IInv

(* The values stay in their types. *)
LEMMA Typed == TypeOK /\ [Next]_vars => TypeOK'
<1> USE TagCommandAssumption DEF TypeOK, AllEpcs, tagVars, hostVars, ghosts
<1> SUFFICES ASSUME TypeOK, [Next]_vars PROVE TypeOK'
  OBVIOUS
<1>1. CASE Find
  BY <1>1 DEF Find
<1>2. CASE FindFails
  BY <1>2 DEF FindFails, Abort, AbortWith
<1>3. CASE SelectTag
  BY <1>3
     DEF SelectTag, GoTo, SetMask, SetMasked, MaybeMask, MaybeMasked, SettingFailed, Abort, AbortWith
<1>4. CASE OperateOk
  BY <1>4 DEF OperateOk, Leaves, Matching
<1>5. CASE WriteFails
  BY <1>5 DEF WriteFails, FailedOperation, Leaves, Matching
<1>6. CASE OperateFails
  BY <1>6 DEF OperateFails, FailedOperation, Leaves, Matching, Abort, AbortWith
<1>7. CASE Reset
  BY <1>7
     DEF Reset, GoTo, SetMask, SetMasked, MaybeMask, MaybeMasked, SettingFailed, Abort, AbortWith
<1>8. CASE Look
  BY <1>8 DEF Look, Retry, AbortWith
<1>9. CASE ClearSelect
  BY <1>9
     DEF ClearSelect, GoTo, SetMask, SetMasked, MaybeMask, MaybeMasked, SettingFailed, Abort, AbortWith
<1>10. CASE Verify
  BY <1>10 DEF Verify
<1>11. CASE Move
  BY <1>11 DEF Move
<1>12. CASE Done \/ UNCHANGED vars
  BY <1>12 DEF Done, vars
<1> QED
  BY <1>1, <1>2, <1>3, <1>4, <1>5, <1>6, <1>7, <1>8, <1>9, <1>10, <1>11, <1>12 DEF Next, Step

(* A step of the command, or of the tags, keeps the invariant. *)
LEMMA Inductive == IInv /\ [Next]_vars => IInv'
<1> SUFFICES ASSUME IInv, [Next]_vars PROVE IInv'
  OBVIOUS
<1>0. TypeOK'
  BY Typed DEF IInv
<1> USE TagCommandAssumption DEF IInv, TypeOK, AllEpcs, Reliable, Selecting, SelectionKnown,
        RetriesReliable, HowItEnded, EpcsApart, SelectsKnownTags, tagVars, hostVars, ghosts
<1>1. CASE Find
  <2>1. SelectionKnown'
    BY <1>1 DEF Find
  <2>2. RetriesReliable'
    BY <1>1 DEF Find
  <2>3. HowItEnded'
    BY <1>1 DEF Find
  <2>4. EpcsApart'
    BY <1>1 DEF Find
  <2>5. SelectsKnownTags'
    BY <1>1 DEF Find
  <2> QED
    BY <1>0, <2>1, <2>2, <2>3, <2>4, <2>5
<1>2. CASE FindFails
  <2>1. SelectionKnown'
    BY <1>2 DEF FindFails, Abort, AbortWith
  <2>2. RetriesReliable'
    BY <1>2 DEF FindFails, Abort, AbortWith
  <2>3. HowItEnded'
    BY <1>2 DEF FindFails, Abort, AbortWith
  <2>4. EpcsApart'
    BY <1>2 DEF FindFails, Abort, AbortWith
  <2>5. SelectsKnownTags'
    BY <1>2 DEF FindFails, Abort, AbortWith
  <2> QED
    BY <1>0, <2>1, <2>2, <2>3, <2>4, <2>5
<1>3. CASE SelectTag
  <2>1. SelectionKnown'
    BY <1>3
       DEF SelectTag, GoTo, SetMask, SetMasked, MaybeMask, MaybeMasked, SettingFailed, Abort, AbortWith
  <2>2. RetriesReliable'
    BY <1>3
       DEF SelectTag, GoTo, SetMask, SetMasked, MaybeMask, MaybeMasked, SettingFailed, Abort, AbortWith
  <2>3. HowItEnded'
    BY <1>3
       DEF SelectTag, GoTo, SetMask, SetMasked, MaybeMask, MaybeMasked, SettingFailed, Abort, AbortWith
  <2>4. EpcsApart'
    BY <1>3
       DEF SelectTag, GoTo, SetMask, SetMasked, MaybeMask, MaybeMasked, SettingFailed, Abort, AbortWith
  <2>5. SelectsKnownTags'
    BY <1>3
       DEF SelectTag, GoTo, SetMask, SetMasked, MaybeMask, MaybeMasked, SettingFailed, Abort, AbortWith
  <2> QED
    BY <1>0, <2>1, <2>2, <2>3, <2>4, <2>5
<1>4. CASE OperateOk
  <2>1. SelectionKnown'
    BY <1>4 DEF OperateOk, Leaves, Matching
  <2>2. RetriesReliable'
    BY <1>4 DEF OperateOk, Leaves, Matching
  <2>3. HowItEnded'
    BY <1>4 DEF OperateOk, Leaves, Matching
  <2>4. EpcsApart'
    BY <1>4 DEF OperateOk, Leaves, Matching
  <2>5. SelectsKnownTags'
    BY <1>4 DEF OperateOk, Leaves, Matching
  <2> QED
    BY <1>0, <2>1, <2>2, <2>3, <2>4, <2>5
<1>5. CASE WriteFails
  <2>1. SelectionKnown'
    BY <1>5 DEF WriteFails, FailedOperation, Leaves, Matching
  <2>2. RetriesReliable'
    BY <1>5 DEF WriteFails, FailedOperation, Leaves, Matching
  <2>3. HowItEnded'
    BY <1>5 DEF WriteFails, FailedOperation, Leaves, Matching
  <2>4. EpcsApart'
    BY <1>5 DEF WriteFails, FailedOperation, Leaves, Matching
  <2>5. SelectsKnownTags'
    BY <1>5 DEF WriteFails, FailedOperation, Leaves, Matching
  <2> QED
    BY <1>0, <2>1, <2>2, <2>3, <2>4, <2>5
<1>6. CASE OperateFails
  <2>1. SelectionKnown'
    BY <1>6 DEF OperateFails, FailedOperation, Leaves, Matching, Abort, AbortWith
  <2>2. RetriesReliable'
    BY <1>6 DEF OperateFails, FailedOperation, Leaves, Matching, Abort, AbortWith
  <2>3. HowItEnded'
    BY <1>6 DEF OperateFails, FailedOperation, Leaves, Matching, Abort, AbortWith
  <2>4. EpcsApart'
    BY <1>6 DEF OperateFails, FailedOperation, Leaves, Matching, Abort, AbortWith
  <2>5. SelectsKnownTags'
    BY <1>6 DEF OperateFails, FailedOperation, Leaves, Matching, Abort, AbortWith
  <2> QED
    BY <1>0, <2>1, <2>2, <2>3, <2>4, <2>5
<1>7. CASE Reset
  <2>1. SelectionKnown'
    BY <1>7
       DEF Reset, GoTo, SetMask, SetMasked, MaybeMask, MaybeMasked, SettingFailed, Abort, AbortWith
  <2>2. RetriesReliable'
    BY <1>7
       DEF Reset, GoTo, SetMask, SetMasked, MaybeMask, MaybeMasked, SettingFailed, Abort, AbortWith
  <2>3. HowItEnded'
    BY <1>7
       DEF Reset, GoTo, SetMask, SetMasked, MaybeMask, MaybeMasked, SettingFailed, Abort, AbortWith
  <2>4. EpcsApart'
    BY <1>7
       DEF Reset, GoTo, SetMask, SetMasked, MaybeMask, MaybeMasked, SettingFailed, Abort, AbortWith
  <2>5. SelectsKnownTags'
    BY <1>7
       DEF Reset, GoTo, SetMask, SetMasked, MaybeMask, MaybeMasked, SettingFailed, Abort, AbortWith
  <2> QED
    BY <1>0, <2>1, <2>2, <2>3, <2>4, <2>5
<1>8. CASE Look
  <2>1. SelectionKnown'
    BY <1>8 DEF Look, Retry, AbortWith
  <2>2. RetriesReliable'
    BY <1>8 DEF Look, Retry, AbortWith
  <2>3. HowItEnded'
    BY <1>8 DEF Look, Retry, AbortWith
  <2>4. EpcsApart'
    BY <1>8 DEF Look, Retry, AbortWith
  <2>5. SelectsKnownTags'
    BY <1>8 DEF Look, Retry, AbortWith
  <2> QED
    BY <1>0, <2>1, <2>2, <2>3, <2>4, <2>5
<1>9. CASE ClearSelect
  <2>1. SelectionKnown'
    BY <1>9
       DEF ClearSelect, GoTo, SetMask, SetMasked, MaybeMask, MaybeMasked, SettingFailed, Abort, AbortWith
  <2>2. RetriesReliable'
    BY <1>9
       DEF ClearSelect, GoTo, SetMask, SetMasked, MaybeMask, MaybeMasked, SettingFailed, Abort, AbortWith
  <2>3. HowItEnded'
    BY <1>9
       DEF ClearSelect, GoTo, SetMask, SetMasked, MaybeMask, MaybeMasked, SettingFailed, Abort, AbortWith
  <2>4. EpcsApart'
    BY <1>9
       DEF ClearSelect, GoTo, SetMask, SetMasked, MaybeMask, MaybeMasked, SettingFailed, Abort, AbortWith
  <2>5. SelectsKnownTags'
    BY <1>9
       DEF ClearSelect, GoTo, SetMask, SetMasked, MaybeMask, MaybeMasked, SettingFailed, Abort, AbortWith
  <2> QED
    BY <1>0, <2>1, <2>2, <2>3, <2>4, <2>5
<1>10. CASE Verify
  <2>1. SelectionKnown'
    BY <1>10 DEF Verify
  <2>2. RetriesReliable'
    BY <1>10 DEF Verify
  <2>3. HowItEnded'
    BY <1>10 DEF Verify
  <2>4. EpcsApart'
    BY <1>10 DEF Verify
  <2>5. SelectsKnownTags'
    BY <1>10 DEF Verify
  <2> QED
    BY <1>0, <2>1, <2>2, <2>3, <2>4, <2>5
<1>11. CASE Move
  BY <1>0, <1>11 DEF Move
<1>12. CASE Done \/ UNCHANGED vars
  BY <1>0, <1>12 DEF Done, vars
<1> QED
  BY <1>1, <1>2, <1>3, <1>4, <1>5, <1>6, <1>7, <1>8, <1>9, <1>10, <1>11, <1>12 DEF Next, Step

(* IInv holds throughout: where a command is determines what it has set    *)
(* the reader's selection to, and which tags that selection can match.     *)
THEOREM Invariance == Spec => []IInv
<1>1. IInv /\ [Next]_vars => IInv'
  BY Inductive
<1> QED
  BY Initially, <1>1, PTL DEF Spec

(* TypeOK for any sets of tags and EPCs and any number of retries          *)
(* (cli/mod.rs, the tag commands).                                         *)
THEOREM TypeCorrect == Spec => []TypeOK
<1>1. IInv => TypeOK
  BY DEF IInv
<1> QED
  BY <1>1, Invariance, PTL

(* A command that operates once, with or without --select, never touches a *)
(* tag other than the one it was given or found (src/cli/mod.rs:236).      *)
THEOREM Gated == Spec => []SelectGates
<1>1. IInv => SelectGates
  BY DEF IInv, RetriesReliable, SelectsKnownTags, SelectGates
<1> QED
  BY <1>1, Invariance, PTL

(* However often write_epc_reliable retries, a tag that it touches was the *)
(* target or was taken for it by a rediscovery poll.                       *)
THEOREM MistakenOnly == Spec => []OnlyMistakenTags
<1>1. IInv => OnlyMistakenTags
  BY DEF IInv, SelectsKnownTags, OnlyMistakenTags
<1> QED
  BY <1>1, Invariance, PTL

(* A command that returns Ok has left no selection behind.                 *)
THEOREM Cleared == Spec => []NoSelectionLeft
<1>1. IInv => NoSelectionLeft
  BY DEF IInv, HowItEnded, NoSelectionLeft
<1> QED
  BY <1>1, Invariance, PTL

(* WriteFail is returned after all of max_retries retries, for any number. *)
THEOREM Retried == Spec => []AllRetriesUsed
<1>1. IInv => AllRetriesUsed
  BY DEF IInv, HowItEnded, AllRetriesUsed
<1> QED
  BY <1>1, Invariance, PTL
=============================================================================
