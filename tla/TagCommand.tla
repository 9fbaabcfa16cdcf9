----------------------------- MODULE TagCommand -----------------------------
(***************************************************************************)
(* The commands of the CLI that act on one tag (Write, WriteMem, Kill,     *)
(* Lock and Read in src/cli/mod.rs) down to the tags: find a tag, select   *)
(* it, operate on it, clear the selection, and for Write verify. Write     *)
(* without --select goes through write_epc_reliable, which retries after   *)
(* a poll that looks for the tag again; all other paths operate once.      *)
(*                                                                         *)
(* An exchange with the reader is one step here, with its effect on the    *)
(* reader and the answer the connector gets; Connector models what may     *)
(* happen to the answers. An error answer may come with the effect (the    *)
(* acknowledgement was lost) or without it (the request was).              *)
(***************************************************************************)
EXTENDS Integers, FiniteSets

CONSTANTS
  Tags,       \* the tags that may come near the antenna
  Epcs,       \* the EPCs they may start with
  New,        \* the EPC to write
  Partial,    \* an EPC left by a write that was partially applied
  NoEpc,      \* no EPC; the all-zero mask of clear_select
  MaxRetries, \* of write_epc_reliable (the CLI passes 3)
  Kinds,      \* which commands: subset of {"Write", "Other"}
  Moving      \* whether tags come and go while the command runs

ASSUME TagCommandAssumption ==
  /\ New \notin Epcs /\ Partial \notin Epcs /\ NoEpc \notin Epcs
  /\ New # Partial /\ NoEpc \notin {New, Partial}
  /\ MaxRetries \in Nat
  /\ Kinds \subseteq {"Write", "Other"}
  /\ Moving \in BOOLEAN

VARIABLES
  epc,      \* the EPC of every tag
  field,    \* the tags near the antenna
  mask,     \* the reader's select mask
  masked,   \* SetSendSelect mode 0x02: the mask is applied to tag operations
  kind,     \* the command
  given,    \* the argument of --select, or NoEpc
  pc,       \* where the command is
  select,   \* select_epc: the EPC that is selected next
  attempt,  \* attempt of write_epc_reliable
  outcome,  \* how the tag operation ended: "none", "Ok", "WriteFail", "Error"
  exit,     \* how the command ended: "none", "Ok", "WriteFail", "Error"
  verified, \* the read-back showed the new EPC
  target,   \* ghost: the tags the command is for
  touched,  \* ghost: the tags its operations acted on
  found     \* ghost: tags a rediscovery took for the tag

tagVars  == <<epc, field>>
hostVars == <<kind, given, select, attempt, outcome, exit, verified>>
ghosts   == <<target, touched, found>>
vars     == <<tagVars, mask, masked, pc, hostVars, ghosts>>

AllEpcs == Epcs \cup {New, Partial}

-----------------------------------------------------------------------------
(* Tags have EPCs of their own; the reader may be left with the selection  *)
(* of a command that did not get to clear it.                              *)
Init ==
  /\ epc \in [Tags -> Epcs]
  /\ \A t, u \in Tags : epc[t] = epc[u] => t = u
  /\ field \in SUBSET Tags
  /\ mask \in Epcs \cup {NoEpc}
  /\ masked \in BOOLEAN
  /\ kind \in Kinds
  /\ given \in Epcs \cup {NoEpc}
  /\ pc = "find"
  /\ select = NoEpc
  /\ attempt = 0
  /\ outcome = "none" /\ exit = "none" /\ verified = FALSE
  /\ target = {} /\ touched = {} /\ found = {}

(* write_epc_reliable is used by Write without --select only. *)
Reliable == kind = "Write" /\ given = NoEpc

Move ==
  /\ Moving
  /\ field' \in SUBSET Tags
  /\ field' # field
  /\ UNCHANGED <<epc, mask, masked, pc, hostVars, ghosts>>

(* The `?` of the command: it ends with what went wrong, and the selection *)
(* stays as it is.                                                         *)
AbortWith(error) ==
  /\ pc' = "done"
  /\ exit' = error

Abort == AbortWith("Error")

(* Wait for a tag: poll until one answers; the first one gives the current *)
(* EPC, which --select overrides.                                          *)
Find ==
  /\ pc = "find"
  /\ \E t \in field :
       /\ select' = IF given = NoEpc THEN epc[t] ELSE given
       /\ target' = {u \in Tags : epc[u] = select'}
  /\ pc' = "select"
  /\ UNCHANGED <<tagVars, mask, masked, kind, given, attempt, outcome, exit,
                 verified, touched, found>>

FindFails ==
  /\ pc = "find"
  /\ Abort
  /\ UNCHANGED <<tagVars, mask, masked, kind, given, select, attempt, outcome,
                 verified, ghosts>>

(* One exchange of select_tag or clear_select is acknowledged, or ends in  *)
(* an error after the reader did, or did not, change the setting.          *)
SetMask(m)    == mask' = m /\ masked' = masked
SetMasked(b)  == masked' = b /\ mask' = mask
MaybeMask(m)   == mask' \in {mask, m} /\ masked' = masked
MaybeMasked(b) == masked' \in {masked, b} /\ mask' = mask

GoTo(next) == pc' = next /\ UNCHANGED <<tagVars, hostVars, ghosts>>

SettingFailed ==
  /\ Abort
  /\ UNCHANGED <<tagVars, kind, given, select, attempt, outcome, verified, ghosts>>

(* Slip: an error of the second exchange of select_tag is ignored. *)
SelectHalf ==
  \/ pc = "select" /\ SetMask(select) /\ GoTo("mode")
  \/ pc = "select" /\ MaybeMask(select) /\ SettingFailed
  \/ pc = "mode" /\ MaybeMasked(TRUE) /\ GoTo("operate")

(* select_tag: SetSelect with the EPC, then SetSendSelect 0x02. *)
SelectTag ==
  \/ pc = "select" /\ SetMask(select) /\ GoTo("mode")
  \/ pc = "select" /\ MaybeMask(select) /\ SettingFailed
  \/ pc = "mode" /\ SetMasked(TRUE) /\ GoTo("operate")
  \/ pc = "mode" /\ MaybeMasked(TRUE) /\ SettingFailed

(* The tags the reader may operate on; the empty mask matches every tag. *)
Matching == {t \in field : ~masked \/ mask = NoEpc \/ epc[t] = mask}

(* What the operation may leave of the EPC of the tag it acts on. *)
Leaves(t, e) == epc' = [epc EXCEPT ![t] = e]

(* The operation (write_epc, write_mem, kill_tag, lock_tag or read_mem) is *)
(* acknowledged.                                                           *)
OperateOk ==
  /\ pc = "operate"
  /\ \E t \in Matching :
       /\ Leaves(t, IF kind = "Write" THEN New ELSE epc[t])
       /\ touched' = touched \cup {t}
  /\ outcome' = "Ok"
  /\ pc' = "clear"
  /\ UNCHANGED <<field, mask, masked, kind, given, select, attempt, exit,
                 verified, target, found>>

(* It fails, on no tag or on one whose EPC may have been changed in part   *)
(* or even in full.                                                        *)
FailedOperation ==
  \/ UNCHANGED <<epc, touched>>
  \/ \E t \in Matching :
       /\ \E e \in IF kind = "Write" THEN {epc[t], Partial, New} ELSE {epc[t]} :
            Leaves(t, e)
       /\ touched' = touched \cup {t}

(* WriteFail, in write_epc_reliable: clear the selection and look again. *)
WriteFails ==
  /\ pc = "operate"
  /\ Reliable
  /\ FailedOperation
  /\ outcome' = "WriteFail"
  /\ pc' = "reset"
  /\ UNCHANGED <<field, mask, masked, kind, given, select, attempt, exit,
                 verified, target, found>>

(* Any other error, or any error elsewhere: return it. *)
OperateFails ==
  /\ pc = "operate"
  /\ FailedOperation
  /\ outcome' = "Error"
  /\ Abort
  /\ UNCHANGED <<field, mask, masked, kind, given, select, attempt, verified,
                 target, found>>

(* clear_select().ok(): the first error ends it and is ignored. *)
Reset ==
  \/ pc = "reset" /\ SetMask(NoEpc) /\ GoTo("resetMode")
  \/ pc = "reset" /\ MaybeMask(NoEpc) /\ GoTo("look")
  \/ pc = "resetMode" /\ MaybeMasked(FALSE) /\ GoTo("look")

(* Slip: attempts that are not counted. *)
RetryForever(epcFound) ==
  /\ pc' = "select"
  /\ select' = epcFound
  /\ UNCHANGED <<attempt, exit>>

(* Slip: one attempt too many. *)
RetryOnceMore(epcFound) ==
  IF attempt <= MaxRetries
  THEN /\ pc' = "select"
       /\ attempt' = attempt + 1
       /\ select' = epcFound
       /\ UNCHANGED <<exit>>
  ELSE AbortWith("WriteFail") /\ UNCHANGED <<attempt, select>>

(* The end of an attempt: another one with the EPC found, or Err(last_err).*)
Retry(epcFound) ==
  IF attempt < MaxRetries
  THEN /\ pc' = "select"
       /\ attempt' = attempt + 1
       /\ select' = epcFound
       /\ UNCHANGED <<exit>>
  ELSE AbortWith("WriteFail") /\ UNCHANGED <<attempt, select>>

(* The rediscovery poll: the first tag of its answer is taken for the tag; *)
(* an error, or an answer without tags, leaves select_epc as it was.       *)
Look ==
  /\ pc = "look"
  /\ \/ \E t \in field : Retry(epc[t]) /\ found' = found \cup {t}
     \/ Retry(select) /\ found' = found
  /\ UNCHANGED <<tagVars, mask, masked, kind, given, outcome, verified, target, touched>>

(* Slip: a clear_select that failed is ignored here too. *)
ClearIgnored ==
  \/ pc = "clear" /\ SetMask(NoEpc) /\ GoTo("clearMode")
  \/ pc = "clear" /\ MaybeMask(NoEpc) /\ GoTo("verify")
  \/ pc = "clearMode" /\ MaybeMasked(FALSE) /\ GoTo("verify")

(* clear_select()? of the command. *)
ClearSelect ==
  \/ pc = "clear" /\ SetMask(NoEpc) /\ GoTo("clearMode")
  \/ pc = "clear" /\ MaybeMask(NoEpc) /\ SettingFailed
  \/ pc = "clearMode" /\ SetMasked(FALSE) /\ GoTo("verify")
  \/ pc = "clearMode" /\ MaybeMasked(FALSE) /\ SettingFailed

(* Write reads back the first tag a poll sees; the others just end. *)
Verify ==
  /\ pc = "verify"
  /\ \/ /\ kind = "Write"
        /\ \E t \in field : verified' = (epc[t] = New)
        /\ exit' = "Ok"
     \/ verified' = verified /\ exit' = "Ok"
     \/ kind = "Write" /\ verified' = verified /\ exit' = "Error"
  /\ pc' = "done"
  /\ UNCHANGED <<tagVars, mask, masked, kind, given, select, attempt, outcome, ghosts>>

Done == pc = "done" /\ UNCHANGED vars

Step ==
  \/ Find \/ FindFails
  \/ SelectTag
  \/ OperateOk \/ WriteFails \/ OperateFails
  \/ Reset \/ Look
  \/ ClearSelect \/ Verify

Next == Move \/ Step \/ Done

(* Every exchange ends, with an answer or with the port's timeout. *)
Spec == Init /\ [][Next]_vars /\ WF_vars(Step)

-----------------------------------------------------------------------------
TypeOK ==
  /\ epc \in [Tags -> AllEpcs]
  /\ field \subseteq Tags
  /\ mask \in AllEpcs \cup {NoEpc} /\ masked \in BOOLEAN
  /\ kind \in Kinds /\ given \in Epcs \cup {NoEpc}
  /\ pc \in {"find", "select", "mode", "operate", "reset", "resetMode", "look",
             "clear", "clearMode", "verify", "done"}
  /\ select \in AllEpcs \cup {NoEpc}
  /\ attempt \in 0..MaxRetries
  /\ outcome \in {"none", "Ok", "WriteFail", "Error"}
  /\ exit \in {"none", "Ok", "WriteFail", "Error"}
  /\ verified \in BOOLEAN
  /\ target \subseteq Tags /\ touched \subseteq Tags /\ found \subseteq Tags

(* "--select gates the write: only the tag matching this EPC may be        *)
(* written" (src/cli/mod.rs:236), and the same of every command that       *)
(* operates once: whatever selection an earlier command left behind and    *)
(* whichever exchange fails, no other tag is touched.                      *)
SelectGates == ~Reliable => touched \subseteq target

(* write_epc_reliable touches another tag only if a rediscovery poll took  *)
(* that tag for the one being written.                                     *)
OnlyMistakenTags == touched \subseteq target \cup found

(* A command that ends well leaves no selection in the reader for the next *)
(* one, though every retry selected again and its own clear was ignored.   *)
NoSelectionLeft == exit = "Ok" => mask = NoEpc /\ ~masked

(* write_epc_reliable gives up with WriteFail only after max_retries       *)
(* retries, and never tries more often.                                    *)
AllRetriesUsed == exit = "WriteFail" => Reliable /\ attempt = MaxRetries

(* "polls to rediscover the tag's actual EPC" (src/connector/sync.rs:554): *)
(* the retries are about the same tag.                                     *)
RediscoversTheTag == touched \subseteq target

(* Once a tag was found the command ends: the retries are bounded.         *)
CommandEnds == (pc = "select") ~> (pc = "done")
=============================================================================
