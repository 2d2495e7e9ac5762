-------------------------- MODULE PatchStoreProofs --------------------------
(***************************************************************************)
(* What is proved of PatchStore, for any files, texts and bounds: its      *)
(* types, that an approved change stays stored, and that a re-apply leaves *)
(* nothing half-applied.                                                   *)
(***************************************************************************)
EXTENDS PatchStore, WellFoundedInduction, TLAPS

\* What is listed has a directory, whose number is not given again.
ListedIsMade == \A i \in Ids : store[i].listed => store[i].made

\* A file a change modified was there before it, and is there after it.
BothSides ==
  /\ \A f \in change.modified : change.base[f] # Absent
  /\ \A i \in Ids : \A f \in store[i].modified : store[i].base[f] # Absent /\ store[i].after[f] # Absent

\* An entry that is being stored is the change under review, as it is in the tree.
IsTheChange(e) ==
  /\ e.made /\ e.has = {"base", "after"}
  /\ e.created = change.created /\ e.modified = change.modified
  /\ e.base = change.base /\ e.after = Copies(tree, Changed)

Saving ==
  /\ cmd.pc \in {"manifest", "review"} => cmd.number \in Ids /\ IsTheChange(store[cmd.number])
  /\ cmd.pc = "review" => store[cmd.number].listed

\* What is to be put back is a file of its entry, unless that was forgotten.
Reapplying ==
  cmd.pc = "applying" => \A p \in cmd.todo : "after" \in store[p[1]].has => p[2] \in FilesOf(p[1])

Inv == TypeOK /\ ListedIsMade /\ BothSides /\ Saving /\ Reapplying /\ ApprovedIsKept

-----------------------------------------------------------------------------
(* The types of the operators *)

LEMMA BoundsAreNumbers == MaxEntries \in Nat /\ MaxConverts \in Nat /\ MaxMishaps \in Nat
BY PatchStoreAssumption

LEMMA CopiesTyped ==
  ASSUME NEW t \in Trees, NEW fs \in SUBSET Files
  PROVE  Copies(t, fs) \in Trees /\ Nothing \in Trees
BY DEF Copies, Nothing, Trees, Texts

LEMMA NoEntryTyped == NoEntry \in EntryType
<1>1. Nothing \in Trees
  BY DEF Nothing, Trees, Texts
<1> QED
  BY <1>1 DEF NoEntry, EntryType

LEMMA NoChangeTyped == NoChange \in ChangeType
<1>1. Nothing \in Trees
  BY DEF Nothing, Trees, Texts
<1> QED
  BY <1>1 DEF NoChange, ChangeType

LEMMA QuietTyped == Quiet \in CmdType
BY DEF Quiet, CmdType

LEMMA MergedTyped ==
  ASSUME NEW base \in Texts, NEW after \in Texts, NEW now \in Texts,
         base # Absent, after # Absent, now # Absent, Clean(base, after, now)
  PROVE  Merged(base, after, now) \in Texts
<1>1. /\ base \in [Hunks -> Values] /\ after \in [Hunks -> Values] /\ now \in [Hunks -> Values]
  BY DEF Texts
<1>2. \A h \in Hunks : (IF base[h] = after[h] THEN now[h]
                        ELSE IF now[h] \in {base[h], after[h]} THEN after[h] ELSE Absent) \in Values
  BY <1>1 DEF Clean
<1>3. Merged(base, after, now) \in [Hunks -> Values]
  BY <1>2 DEF Merged
<1> QED
  BY <1>3 DEF Texts

\* One entry of the store is another.
LEMMA EntryTyped ==
  ASSUME store \in [Ids -> EntryType], NEW i \in Ids, NEW e \in EntryType, store' = [store EXCEPT ![i] = e]
  PROVE  /\ store' \in [Ids -> EntryType] /\ store'[i] = e
         /\ \A k \in Ids : k # i => store'[k] = store[k]
OBVIOUS

LEMMA ChangedTyped ==
  ASSUME TypeOK
  PROVE  Changed \in SUBSET Files /\ change.created \in SUBSET Files /\ change.modified \in SUBSET Files
BY DEF TypeOK, ChangeType, Changed

-----------------------------------------------------------------------------
(* The steps *)

\* A step of a convert, of a re-apply or of a death touches the tree alone.
LEMMA Elsewhere ==
  ASSUME Inv, TypeOK', UNCHANGED <<store, change, kept>>, cmd'.pc \notin {"manifest", "review"}, Reapplying'
  PROVE  Inv'
<1>1. ListedIsMade' /\ BothSides' /\ ApprovedIsKept'
  BY DEF Inv, ListedIsMade, BothSides, ApprovedIsKept
<1>2. Saving'
  BY DEF Saving
<1> QED
  BY <1>1, <1>2 DEF Inv

\* The agent's change, a Discard and a new showing leave the store as it is.
LEMMA ChangeAlone ==
  ASSUME Inv, TypeOK', UNCHANGED <<store, kept, cmd>>, Does("idle"),
         \A f \in change'.modified : change'.base[f] # Absent
  PROVE  Inv'
<1>1. ListedIsMade' /\ ApprovedIsKept' /\ BothSides'
  BY DEF Inv, ListedIsMade, BothSides, ApprovedIsKept
<1>2. Saving' /\ Reapplying'
  BY DEF Saving, Reapplying, Does
<1> QED
  BY <1>1, <1>2 DEF Inv

LEMMA InitOK == Init => Inv
<1> SUFFICES ASSUME Init PROVE Inv
  OBVIOUS
<1>1. tree \in Trees
  BY PatchStoreAssumption DEF Init
<1>2. store \in [Ids -> EntryType] /\ \A i \in Ids : store[i] = NoEntry
  BY NoEntryTyped DEF Init
<1>3. [how |-> "no", start |-> Nothing, left |-> {}] \in LastType
  BY <1>1, CopiesTyped DEF LastType
<1>4. TypeOK
  BY <1>1, <1>2, <1>3, NoChangeTyped, QuietTyped, PatchStoreAssumption DEF TypeOK, Init, Moved
<1>5. ListedIsMade /\ BothSides
  BY <1>2 DEF Init, ListedIsMade, BothSides, NoEntry, NoChange
<1>6. Saving /\ Reapplying /\ ApprovedIsKept
  BY DEF Init, Saving, Reapplying, ApprovedIsKept, Quiet
<1> QED
  BY <1>4, <1>5, <1>6 DEF Inv

\* What a step leaves of the last re-apply is of its type.
LEMMA MovedTyped ==
  ASSUME TypeOK
  PROVE  Moved \in LastType
<1>1. Nothing \in Trees
  BY CopiesTyped DEF TypeOK
<1> QED
  BY <1>1 DEF Moved, LastType

LEMMA AgentChangesOK ==
  ASSUME Inv, AgentChanges
  PROVE  Inv'
<1>1. PICK t \in Makes(tree) :
        /\ tree' = t
        /\ LET moved == {f \in Files : t[f] # tree[f]} IN
             change' = [waits |-> TRUE, created |-> {f \in moved : tree[f] = Absent},
                        modified |-> {f \in moved : tree[f] # Absent},
                        base |-> Copies(tree, moved), shown |-> Copies(t, moved)]
  BY DEF AgentChanges
<1>2. tree \in Trees /\ t \in Trees
  BY PatchStoreAssumption DEF Inv, TypeOK
<1> DEFINE moved == {f \in Files : t[f] # tree[f]}
<1>3. moved \in SUBSET Files
  OBVIOUS
<1>4. Copies(tree, moved) \in Trees /\ Copies(t, moved) \in Trees
  BY <1>2, <1>3, CopiesTyped
<1>5. \A f \in moved : Copies(tree, moved)[f] = tree[f]
  BY DEF Copies
<1>6. change' \in ChangeType
  BY <1>1, <1>3, <1>4 DEF ChangeType
<1>7. \A f \in change'.modified : change'.base[f] # Absent
  BY <1>1, <1>5
<1>8. TypeOK'
  BY <1>1, <1>2, <1>6, MovedTyped DEF AgentChanges, Inv, TypeOK
<1> QED
  BY <1>7, <1>8, ChangeAlone DEF AgentChanges

LEMMA DiscardOK ==
  ASSUME Inv, Discard
  PROVE  Inv'
<1>1. tree' \in Trees
  <2>1. tree \in Trees /\ change.base \in Trees
    BY DEF Inv, TypeOK, ChangeType
  <2>2. \A f \in Files : (IF f \in Changed THEN change.base[f] ELSE tree[f]) \in Texts
    BY <2>1 DEF Trees
  <2> QED
    BY <2>2 DEF Discard, Trees
<1>2. TypeOK'
  BY <1>1, NoChangeTyped, MovedTyped DEF Discard, Inv, TypeOK
<1>3. \A f \in change'.modified : change'.base[f] # Absent
  BY DEF Discard, NoChange
<1> QED
  BY <1>2, <1>3, ChangeAlone DEF Discard

LEMMA ApproveShowsAgainOK ==
  ASSUME Inv, ApproveShowsAgain
  PROVE  Inv'
<1>1. change \in ChangeType /\ Copies(tree, Changed) \in Trees
  BY ChangedTyped, CopiesTyped DEF Inv, TypeOK
<1>2. change' \in ChangeType /\ change'.modified = change.modified /\ change'.base = change.base
  BY <1>1 DEF ApproveShowsAgain, ChangeType
<1>3. TypeOK'
  BY <1>2 DEF ApproveShowsAgain, Inv, TypeOK
<1> QED
  BY <1>2, <1>3, ChangeAlone DEF ApproveShowsAgain, Inv, BothSides

-----------------------------------------------------------------------------
(* Approve *)

\* A free number is of no entry that was made, so of no approved change.
LEMMA SaveCopiesOK ==
  ASSUME Inv, NEW n \in Ids, SaveCopies(n)
  PROVE  Inv'
<1> DEFINE e == [made |-> TRUE, listed |-> FALSE, has |-> {"base", "after"}, created |-> change.created,
                 modified |-> change.modified, base |-> change.base, after |-> Copies(tree, Changed)]
<1>1. e \in EntryType
  <2>1. Copies(tree, Changed) \in Trees /\ change \in ChangeType
    BY ChangedTyped, CopiesTyped DEF Inv, TypeOK
  <2> QED
    BY <2>1 DEF EntryType, ChangeType
<1>2. /\ store' \in [Ids -> EntryType] /\ store'[n] = e
      /\ \A k \in Ids : k # n => store'[k] = store[k]
  BY <1>1, EntryTyped DEF SaveCopies, Inv, TypeOK
<1>3. ~store[n].made
  BY DEF SaveCopies, Free, Used, Ids
<1>4. cmd' = [Quiet EXCEPT !.pc = "manifest", !.number = n] /\ cmd' \in CmdType
  BY QuietTyped DEF SaveCopies, CmdType
<1>5. TypeOK'
  BY <1>2, <1>4 DEF SaveCopies, Inv, TypeOK
<1>6. ListedIsMade'
  BY <1>2 DEF Inv, ListedIsMade
<1>7. BothSides'
  <2>1. \A f \in change.modified : f \in Changed /\ f \in Files
    BY ChangedTyped DEF Changed, Inv
  <2>2. \A f \in change.modified : e.base[f] # Absent /\ e.after[f] # Absent
    BY <2>1 DEF Inv, BothSides, SaveCopies, Present, Copies
  <2> QED
    BY <1>2, <2>2 DEF Inv, BothSides, SaveCopies
<1>8. Saving'
  <2>1. cmd'.pc = "manifest" /\ cmd'.number = n
    BY <1>4 DEF Quiet
  <2>2. IsTheChange(store[n])'
    BY <1>2 DEF SaveCopies, IsTheChange, Changed, Copies
  <2> QED
    BY <2>1, <2>2 DEF Saving
<1>9. Reapplying'
  BY <1>4 DEF Reapplying, Quiet
<1>10. ApprovedIsKept'
  <2>1. \A k \in kept : k.number \in Ids /\ k.number # n
    BY <1>3 DEF Inv, ApprovedIsKept, ListedIsMade, TypeOK, KeptType
  <2> QED
    BY <1>2, <2>1 DEF SaveCopies, Inv, ApprovedIsKept
<1> QED
  BY <1>5, <1>6, <1>7, <1>8, <1>10, <1>9 DEF Inv

LEMMA SaveFailsOK ==
  ASSUME Inv, NEW n \in Ids, SaveFails(n)
  PROVE  Inv'
<1>1. store[n] \in EntryType
  BY DEF Inv, TypeOK
<1>2. [store[n] EXCEPT !.made = TRUE] \in EntryType
  BY <1>1 DEF EntryType
<1>3. store' = [store EXCEPT ![n] = [store[n] EXCEPT !.made = TRUE]]
  BY DEF SaveFails
<1>4. /\ store' \in [Ids -> EntryType] /\ store'[n] = [store[n] EXCEPT !.made = TRUE]
      /\ \A k \in Ids : k # n => store'[k] = store[k]
  BY <1>2, <1>3, EntryTyped DEF Inv, TypeOK
<1>5. /\ store'[n].made /\ store'[n].listed = store[n].listed /\ store'[n].has = store[n].has
      /\ store'[n].created = store[n].created /\ store'[n].modified = store[n].modified
      /\ store'[n].base = store[n].base /\ store'[n].after = store[n].after
  BY <1>4, <1>1 DEF EntryType
<1>6. TypeOK'
  BY <1>4 DEF SaveFails, Inv, TypeOK
<1>7. ListedIsMade' /\ BothSides'
  BY <1>4, <1>5 DEF SaveFails, Inv, ListedIsMade, BothSides
<1>8. Saving' /\ Reapplying'
  BY DEF SaveFails, Does, Saving, Reapplying
<1>9. ApprovedIsKept'
  <2>1. \A k \in kept : k.number \in Ids
    BY DEF Inv, TypeOK, KeptType
  <2> QED
    BY <1>4, <1>5, <2>1 DEF SaveFails, Inv, ApprovedIsKept
<1> QED
  BY <1>6, <1>7, <1>8, <1>9 DEF Inv

LEMMA SaveManifestOK ==
  ASSUME Inv, SaveManifest
  PROVE  Inv'
<1> DEFINE n == cmd.number
<1>1. n \in Ids /\ store[n] \in EntryType /\ IsTheChange(store[n])
  BY DEF SaveManifest, Does, Inv, Saving, TypeOK
<1>2. [store[n] EXCEPT !.listed = TRUE] \in EntryType
  BY <1>1 DEF EntryType
<1>3. store' = [store EXCEPT ![n] = [store[n] EXCEPT !.listed = TRUE]]
  BY DEF SaveManifest
<1>4. /\ store' \in [Ids -> EntryType] /\ store'[n] = [store[n] EXCEPT !.listed = TRUE]
      /\ \A k \in Ids : k # n => store'[k] = store[k]
  BY <1>1, <1>2, <1>3, EntryTyped DEF Inv, TypeOK
<1>5. /\ store'[n].listed /\ store'[n].made = store[n].made /\ store'[n].has = store[n].has
      /\ store'[n].created = store[n].created /\ store'[n].modified = store[n].modified
      /\ store'[n].base = store[n].base /\ store'[n].after = store[n].after
  BY <1>1, <1>4 DEF EntryType
<1>6. cmd' \in CmdType /\ cmd'.pc = "review" /\ cmd'.number = n
  BY DEF SaveManifest, Inv, TypeOK, CmdType
<1>7. TypeOK'
  BY <1>4, <1>6, MovedTyped DEF SaveManifest, Inv, TypeOK
<1>8. ListedIsMade' /\ BothSides'
  BY <1>1, <1>4, <1>5 DEF SaveManifest, Inv, ListedIsMade, BothSides, IsTheChange
<1>9. Saving'
  <2>1. IsTheChange(store[n])'
    BY <1>1, <1>5 DEF SaveManifest, IsTheChange, Changed, Copies
  <2> QED
    BY <1>1, <1>5, <1>6, <2>1 DEF Saving
<1>10. Reapplying'
  BY <1>6 DEF Reapplying
<1>11. ApprovedIsKept'
  <2>1. \A k \in kept : k.number \in Ids
    BY DEF Inv, TypeOK, KeptType
  <2> QED
    BY <1>4, <1>5, <2>1 DEF SaveManifest, Inv, ApprovedIsKept
<1> QED
  BY <1>7, <1>8, <1>9, <1>11, <1>10 DEF Inv

LEMMA SaysApprovedOK ==
  ASSUME Inv, SaysApproved
  PROVE  Inv'
<1> DEFINE n == cmd.number
<1> DEFINE k == [number |-> n, created |-> change.created, modified |-> change.modified,
                 base |-> change.base, after |-> Copies(tree, Changed)]
<1>1. n \in Ids /\ IsTheChange(store[n]) /\ store[n].listed
  BY DEF SaysApproved, Does, Inv, Saving
<1>2. k \in KeptType
  <2>1. Copies(tree, Changed) \in Trees /\ change \in ChangeType
    BY ChangedTyped, CopiesTyped DEF Inv, TypeOK
  <2> QED
    BY <1>1, <2>1 DEF KeptType, ChangeType
<1>3. kept' = kept \cup {k}
  BY DEF SaysApproved
<1>4. TypeOK'
  BY <1>2, <1>3, NoChangeTyped, QuietTyped DEF SaysApproved, Inv, TypeOK
<1>5. ListedIsMade' /\ BothSides'
  BY DEF SaysApproved, NoChange, Inv, ListedIsMade, BothSides
<1>6. Saving' /\ Reapplying'
  BY DEF SaysApproved, Quiet, Saving, Reapplying
<1>7. ApprovedIsKept'
  BY <1>1, <1>3 DEF SaysApproved, Inv, ApprovedIsKept, IsTheChange
<1> QED
  BY <1>4, <1>5, <1>6, <1>7 DEF Inv

\* Whatever a forget leaves of an entry, that entry is no longer kept.
LEMMA ForgetOK ==
  ASSUME Inv, NEW i \in Ids, Forget(i)
  PROVE  Inv'
<1> DEFINE Left(e) == /\ e \in EntryType /\ (e.listed => e.made)
                      /\ "after" \in e.has => /\ "after" \in store[i].has
                                              /\ e.created = store[i].created /\ e.modified = store[i].modified
                      /\ \A f \in e.modified : e.base[f] # Absent /\ e.after[f] # Absent
<1>1. store[i] \in EntryType /\ store[i].made
  BY DEF Inv, TypeOK, ListedIsMade, Forget
<1>2. PICK e : Left(e) /\ store' = [store EXCEPT ![i] = e]
  <2>1. CASE store' = [store EXCEPT ![i] = NoEntry]
    <3>1. Left(NoEntry)
      BY NoEntryTyped DEF NoEntry
    <3> QED
      BY <2>1, <3>1
  <2>2. CASE store' = [store EXCEPT ![i].has = {}, ![i].listed = FALSE]
    <3> DEFINE d == [store[i] EXCEPT !.has = {}, !.listed = FALSE]
    <3>1. Left(d)
      BY <1>1 DEF EntryType, Inv, BothSides
    <3>2. store' = [store EXCEPT ![i] = d]
      BY <2>2 DEF Inv, TypeOK
    <3> QED
      BY <3>1, <3>2
  <2>3. CASE \E has \in SUBSET store[i].has : store' = [store EXCEPT ![i].has = has]
    <3>1. PICK has \in SUBSET store[i].has : store' = [store EXCEPT ![i].has = has]
      BY <2>3
    <3> DEFINE d == [store[i] EXCEPT !.has = has]
    <3>2. /\ d \in EntryType /\ d.made /\ d.created = store[i].created /\ d.modified = store[i].modified
          /\ d.base = store[i].base /\ d.after = store[i].after
      BY <1>1 DEF EntryType
    <3>3. d.has \in SUBSET store[i].has
      BY <1>1 DEF EntryType
    <3>4. Left(d)
      BY <3>2, <3>3 DEF Inv, BothSides
    <3>5. store' = [store EXCEPT ![i] = d]
      BY <3>1
    <3> QED
      BY <3>4, <3>5
  <2> QED
    BY <2>1, <2>2, <2>3 DEF Forget
<1>3. /\ store' \in [Ids -> EntryType] /\ store'[i] = e
      /\ \A k \in Ids : k # i => store'[k] = store[k]
  BY <1>2, EntryTyped DEF Inv, TypeOK
<1>4. TypeOK'
  <2>1. mishaps' \in 0..MaxMishaps
    <3>1. mishaps \in 0..MaxMishaps /\ mishaps < MaxMishaps /\ mishaps' = mishaps + 1
      BY DEF Forget, Inv, TypeOK
    <3> QED
      BY <3>1, BoundsAreNumbers
  <2>2. kept' \subseteq KeptType /\ UNCHANGED <<tree, change, cmd, converts>> /\ last' = Moved
    BY DEF Forget, Inv, TypeOK
  <2>3. TypeOK
    BY DEF Inv
  <2> QED
    BY <1>3, <2>1, <2>2, <2>3, MovedTyped DEF TypeOK
<1>5. ListedIsMade' /\ BothSides'
  BY <1>2, <1>3 DEF Forget, Inv, ListedIsMade, BothSides
<1>6. Saving'
  BY <1>3 DEF Forget, Inv, Saving, IsTheChange, Changed, Copies
<1>7. Reapplying'
  <2>1. SUFFICES ASSUME cmd.pc = "applying", NEW p \in cmd.todo, "after" \in store'[p[1]].has
                 PROVE  p[2] \in store'[p[1]].created \cup store'[p[1]].modified
    BY DEF Forget, Reapplying, FilesOf
  <2>2. p[1] \in Ids /\ ("after" \in store[p[1]].has => p[2] \in store[p[1]].created \cup store[p[1]].modified)
    BY <2>1 DEF Inv, TypeOK, CmdType, Reapplying, FilesOf
  <2> QED
    BY <1>2, <1>3, <2>1, <2>2
<1>8. ApprovedIsKept'
  <2>1. \A k \in kept : k.number \in Ids
    BY DEF Inv, TypeOK, KeptType
  <2>2. \A k \in kept' : k \in kept /\ k.number # i
    BY DEF Forget
  <2> QED
    BY <1>3, <2>1, <2>2 DEF Inv, ApprovedIsKept
<1> QED
  BY <1>4, <1>5, <1>6, <1>7, <1>8 DEF Inv

-----------------------------------------------------------------------------
(* Converts and re-applies *)

LEMMA StartConvertOK ==
  ASSUME Inv, StartConvert
  PROVE  Inv'
<1>1. tree' \in Trees
  BY CopiesTyped DEF StartConvert, Inv, TypeOK
<1>2. cmd' \in CmdType /\ cmd'.pc = "writing"
  <2>1. PICK t \in Outputs :
          cmd' = [Quiet EXCEPT !.pc = "writing", !.writes = {w \in Files \X Texts : w[2] = t[w[1]] /\ w[2] # Absent}]
    BY DEF StartConvert
  <2>2. {w \in Files \X Texts : w[2] = t[w[1]] /\ w[2] # Absent} \in SUBSET (Files \X Texts)
    OBVIOUS
  <2> QED
    BY <2>1, <2>2 DEF Quiet, CmdType
<1>3. converts' \in 0..MaxConverts
  <2>1. converts \in 0..MaxConverts /\ converts < MaxConverts /\ converts' = converts + 1
    BY DEF StartConvert, Inv, TypeOK
  <2> QED
    BY <2>1, BoundsAreNumbers
<1>4. TypeOK'
  BY <1>1, <1>2, <1>3, MovedTyped DEF StartConvert, Inv, TypeOK
<1> QED
  BY <1>2, <1>4, Elsewhere DEF StartConvert, Reapplying

LEMMA WriteFileOK ==
  ASSUME Inv, NEW w \in Files \X Texts, WriteFile(w)
  PROVE  Inv'
<1>1. tree' \in Trees
  BY DEF WriteFile, Inv, TypeOK, Trees
<1>2. cmd' \in CmdType /\ cmd'.pc = "writing"
  <2>1. cmd \in CmdType /\ cmd' = [cmd EXCEPT !.writes = cmd.writes \ {w}] /\ cmd.pc = "writing"
    BY DEF WriteFile, Does, Inv, TypeOK
  <2>2. cmd.writes \ {w} \in SUBSET (Files \X Texts)
    BY <2>1 DEF CmdType
  <2> QED
    BY <2>1, <2>2 DEF CmdType
<1>3. TypeOK'
  BY <1>1, <1>2 DEF WriteFile, Inv, TypeOK
<1> QED
  BY <1>2, <1>3, Elsewhere DEF WriteFile, Reapplying

LEMMA ConvertEndsOK ==
  ASSUME Inv, ConvertEnds
  PROVE  Inv'
<1>1. TypeOK'
  BY QuietTyped DEF ConvertEnds, Inv, TypeOK
<1> QED
  BY <1>1, Elsewhere DEF ConvertEnds, Quiet, Reapplying

LEMMA BeginReapplyOK ==
  ASSUME Inv, BeginReapply
  PROVE  Inv'
<1> DEFINE todo == {p \in Ids \X Files : p[1] \in Listed /\ p[2] \in FilesOf(p[1])}
<1>1. todo \in SUBSET (Ids \X Files)
  OBVIOUS
<1>2. cmd' = [Quiet EXCEPT !.pc = "applying", !.todo = todo]
  BY DEF BeginReapply
<1>3. cmd' \in CmdType /\ cmd'.pc = "applying" /\ cmd'.todo = todo
  BY <1>1, <1>2 DEF Quiet, CmdType
<1>4. TypeOK'
  <2>1. last' \in LastType
    BY DEF BeginReapply, LastType, Inv, TypeOK
  <2> QED
    BY <1>3, <2>1 DEF BeginReapply, Inv, TypeOK
<1>5. Reapplying'
  BY <1>3 DEF BeginReapply, Reapplying, FilesOf
<1> QED
  BY <1>3, <1>4, <1>5, Elsewhere DEF BeginReapply

\* What is put into the tree is a text: a stored copy, or a clean merge of three.
LEMMA AppliedTyped ==
  ASSUME Inv, NEW i \in Ids, NEW f \in Files, Does("applying"), <<i, f>> \in cmd.todo, Verdict(i, f) = "applied"
  PROVE  (IF f \in store[i].created THEN store[i].after[f]
          ELSE Merged(store[i].base[f], store[i].after[f], tree[f])) \in Texts
<1>1. store[i].base[f] \in Texts /\ store[i].after[f] \in Texts /\ tree[f] \in Texts
  <2>1. store[i] \in EntryType /\ tree \in Trees
    BY DEF Inv, TypeOK
  <2>2. store[i].base \in Trees /\ store[i].after \in Trees
    BY <2>1 DEF EntryType
  <2> QED
    BY <2>1, <2>2 DEF Trees
<1>2. CASE f \in store[i].created
  BY <1>1, <1>2
<1>3. CASE f \notin store[i].created
  <2>1. tree[f] # Absent /\ Clean(store[i].base[f], store[i].after[f], tree[f])
    BY <1>3 DEF Verdict
  <2>2. store[i].base[f] # Absent /\ store[i].after[f] # Absent
    <3>1. "after" \in store[i].has
      BY DEF Verdict
    <3>2. f \in FilesOf(i)
      BY <3>1 DEF Inv, Reapplying, Does
    <3> QED
      BY <1>3, <3>2 DEF Inv, BothSides, FilesOf
  <2> QED
    BY <1>1, <1>3, <2>1, <2>2, MergedTyped
<1> QED
  BY <1>2, <1>3

LEMMA LeftOutTyped ==
  ASSUME NEW l \in LastType, NEW i \in Ids, NEW f \in Files
  PROVE  [l EXCEPT !.left = l.left \cup {<<i, f>>}] \in LastType
<1> DEFINE left == l.left \cup {<<i, f>>}
<1>1. l.left \in SUBSET (Ids \X Files)
  BY DEF LastType
<1>2. left \in SUBSET (Ids \X Files)
  BY <1>1
<1> HIDE DEF left
<1>3. [l EXCEPT !.left = left] \in LastType
  BY <1>2 DEF LastType
<1> QED
  BY <1>3 DEF left

LEMMA ApplyOK ==
  ASSUME Inv, NEW i \in Ids, NEW f \in Files, Apply(i, f)
  PROVE  Inv'
<1>1. tree' \in Trees
  <2>1. tree \in Trees
    BY DEF Inv, TypeOK
  <2>2. CASE Verdict(i, f) # "applied"
    BY <2>1, <2>2 DEF Apply
  <2>3. CASE Verdict(i, f) = "applied"
    <3> DEFINE text == IF f \in store[i].created THEN store[i].after[f]
                       ELSE Merged(store[i].base[f], store[i].after[f], tree[f])
    <3>1. text \in Texts
      BY <2>3, AppliedTyped DEF Apply
    <3>2. tree' = [tree EXCEPT ![f] = text]
      BY <2>3 DEF Apply
    <3> QED
      BY <2>1, <3>1, <3>2 DEF Trees
  <2> QED
    BY <2>2, <2>3
<1>2. cmd' \in CmdType /\ cmd'.pc = "applying" /\ cmd'.todo \subseteq cmd.todo
  <2> DEFINE b == IF Verdict(i, f) = "conflict" THEN Blocks(f) ELSE cmd.blocked
  <2>1. cmd \in CmdType /\ cmd.pc = "applying"
    BY DEF Apply, Does, Inv, TypeOK
  <2>2. b \in SUBSET Files
    BY <2>1 DEF Blocks, CmdType
  <2>3. cmd' = [cmd EXCEPT !.todo = cmd.todo \ {<<i, f>>}, !.blocked = b]
    BY DEF Apply
  <2> HIDE DEF b
  <2>4. cmd.todo \ {<<i, f>>} \in SUBSET (Ids \X Files)
    BY <2>1 DEF CmdType
  <2> QED
    BY <2>1, <2>2, <2>3, <2>4 DEF CmdType
<1>3. last' \in LastType
  <2>1. last \in LastType
    BY DEF Inv, TypeOK
  <2>2. [last EXCEPT !.left = last.left \cup {<<i, f>>}] \in LastType
    BY <2>1, LeftOutTyped
  <2>3. last' \in {last, [last EXCEPT !.left = last.left \cup {<<i, f>>}]}
    BY DEF Apply
  <2> QED
    BY <2>1, <2>2, <2>3
<1>4. TypeOK'
  BY <1>1, <1>2, <1>3 DEF Apply, Inv, TypeOK
<1>5. Reapplying'
  BY <1>2 DEF Apply, Does, Inv, Reapplying, FilesOf
<1> QED
  BY <1>2, <1>4, <1>5, Elsewhere DEF Apply

LEMMA EndReapplyOK ==
  ASSUME Inv, EndReapply
  PROVE  Inv'
<1>1. last' \in LastType
  BY DEF EndReapply, LastType, Inv, TypeOK
<1>2. TypeOK'
  BY <1>1, QuietTyped DEF EndReapply, Inv, TypeOK
<1> QED
  BY <1>2, Elsewhere DEF EndReapply, Quiet, Reapplying

LEMMA DiesOK ==
  ASSUME Inv, Dies
  PROVE  Inv'
<1>1. mishaps' \in 0..MaxMishaps
  <2>1. mishaps \in 0..MaxMishaps /\ mishaps < MaxMishaps /\ mishaps' = mishaps + 1
    BY DEF Dies, Inv, TypeOK
  <2> QED
    BY <2>1, BoundsAreNumbers
<1>2. TypeOK'
  BY <1>1, QuietTyped, MovedTyped DEF Dies, Inv, TypeOK
<1> QED
  BY <1>2, Elsewhere DEF Dies, Quiet, Reapplying

-----------------------------------------------------------------------------
(* Highest numbers: a set of numbers that is not empty has a least and, when *)
(* it is of entries, a highest one.                                          *)

LEMMA LeastNumber ==
  ASSUME NEW T \in SUBSET Nat, T # {}
  PROVE  \E x \in T : \A y \in T : x <= y
<1>1. PICK R : IsWellFoundedOn(R, Nat) /\ \A x, y \in Nat : y < x => <<y, x>> \in R
  <2>1. IsWellFoundedOn(OpToRel(<, Nat), Nat)
    BY NatLessThanWellFounded
  <2>2. \A x, y \in Nat : y < x => <<y, x>> \in OpToRel(<, Nat)
    BY DEF OpToRel
  <2> QED
    BY <2>1, <2>2
<1>2. \E x \in T : \A y \in T : ~(<<y, x>> \in R)
  BY <1>1, WFMin
<1>3. ASSUME NEW x \in Nat, NEW y \in Nat, ~(<<y, x>> \in R)
      PROVE  x <= y
  <2>1. ~(y < x)
    BY <1>1, <1>3
  <2> QED
    BY <2>1
<1> QED
  BY <1>2, <1>3

LEMMA NotLess == \A a, b \in Nat : (a <= b => ~(b < a)) /\ (a < b => ~(b < a))
OBVIOUS

LEMMA IdsAreNumbers ==
  /\ Listed \subseteq Ids /\ Ids \subseteq Nat /\ Ids \subseteq 1..(MaxEntries + 1)
  /\ 1..(MaxEntries + 1) \subseteq Nat
BY BoundsAreNumbers DEF Ids, Listed

Highest(S) == CHOOSE k \in S : \A o \in S : o <= k

LEMMA HighestIs ==
  ASSUME NEW S \in SUBSET Ids, S # {}
  PROVE  Highest(S) \in S /\ \A o \in S : o <= Highest(S)
<1>0. MaxEntries \in Nat /\ \A k \in S : k \in Nat /\ k <= MaxEntries
  BY BoundsAreNumbers DEF Ids
<1> DEFINE T == {MaxEntries - k : k \in S}
<1>1. T \in SUBSET Nat /\ T # {}
  BY <1>0
<1>2. PICK x \in T : \A y \in T : x <= y
  BY <1>1, LeastNumber
<1>3. PICK k \in S : x = MaxEntries - k
  BY <1>2
<1>4. \A o \in S : o <= k
  BY <1>0, <1>2, <1>3
<1> QED
  BY <1>3, <1>4, Zenon DEF Highest

-----------------------------------------------------------------------------
(* A re-apply, file by file *)

\* The entries of a file that were looked at so far; those of them that still
\* have their text; and those that were left out.
Done(f) == {i \in Listed : f \in FilesOf(i) /\ <<i, f>> \notin cmd.todo}
Whole(f) == {i \in Done(f) : "after" \in store[i].has}
Out(f) == {i \in Whole(f) : <<i, f>> \in last.left}

\* The entries below a number that were put back, and what they make of a file.
Below(m, f) == {k \in PutBack(f) : k < m}
TextAt(m, f) == IF There(m, f) THEN [h \in Hunks |-> Before(m, f, h)] ELSE Absent
UpTo(m, f) == \A i \in Listed : f \in FilesOf(i) => (i < m <=> <<i, f>> \notin cmd.todo)

\* A re-apply is under way, and nothing moved but what it put back.
Applying == last.how = "under way"

\* How far a file has come.
TextSoFar(f) == \A m \in 1..(MaxEntries + 1) : UpTo(m, f) => tree[f] = TextAt(m, f) /\ (There(m, f) => tree[f] # Absent)
OneOutBlocks(f) == f \in cmd.blocked <=> Out(f) # {}
InFit(f) == \A i \in Whole(f) \ Out(f) : Fits(i, f) /\ \A k \in Out(f) : i < k
FirstOutDoesNot(f) == \A k \in Out(f) : (\A o \in Out(f) : k <= o) => ~Fits(k, f)
Reached(f) == TextSoFar(f) /\ OneOutBlocks(f) /\ InFit(f) /\ FirstOutDoesNot(f)

\* The oldest entry is next, and none is looked at twice.
InTurn ==
  \A p \in cmd.todo : /\ p[1] \in Listed /\ p[2] \in FilesOf(p[1]) /\ p \notin last.left
                      /\ \A i \in Done(p[2]) : i < p[1]

UnderWay ==
  /\ cmd.pc = "writing" => last.how = "no"
  /\ cmd.pc = "applying" => last.how # "ended"
  /\ Applying => cmd.pc = "applying" /\ InTurn /\ \A f \in Files : Reached(f)

\* A file a change made is there after it.
MadeIsThere == \A i \in Ids : \A f \in store[i].created : store[i].after[f] # Absent

Whereabouts == MadeIsThere /\ UnderWay /\ AllOrNothing

\* Entries at a number or above do not matter to what is there below it.
LEMMA BelowOnly ==
  ASSUME TypeOK, NEW f \in Files, NEW m \in 1..(MaxEntries + 1),
         Listed' = Listed, \A i \in Listed : store'[i] = store[i], last'.start = last.start,
         \A k \in Listed : k < m => (<<k, f>> \in last'.left <=> <<k, f>> \in last.left)
  PROVE  /\ There(m, f)' = There(m, f) /\ TextAt(m, f)' = TextAt(m, f)
         /\ m \in Listed => Fits(m, f)' = Fits(m, f)
<1>1. Below(m, f)' = Below(m, f)
  BY DEF PutBack, FilesOf, Below
<1>2. There(m, f)' = There(m, f)
  BY <1>1 DEF There, Below
<1>3. ASSUME NEW h \in Hunks
      PROVE  Before(m, f, h)' = Before(m, f, h)
  <2>1. Earlier(m, f, h)' = Earlier(m, f, h)
    <3>1. \A k \in Below(m, f) : Edits(k, f, h)' <=> Edits(k, f, h)
      BY DEF PutBack, Edits, Below
    <3> QED
      BY <1>1, <3>1 DEF Earlier, Below
  <2>2. CASE Earlier(m, f, h) = {}
    BY <2>1, <2>2 DEF Before
  <2>3. CASE Earlier(m, f, h) # {}
    <3>1. Earlier(m, f, h) \in SUBSET Ids /\ Earlier(m, f, h) \in SUBSET Listed
      BY DEF Earlier, PutBack, Listed
    <3>2. Highest(Earlier(m, f, h)) \in Listed
      BY <2>3, <3>1, HighestIs
    <3>3. Highest(Earlier(m, f, h))' = Highest(Earlier(m, f, h))
      BY <2>1, Zenon DEF Highest
    <3>4. Before(m, f, h) = store[Highest(Earlier(m, f, h))].after[f][h]
      BY <2>3, Zenon DEF Before, Highest
    <3>5. Before(m, f, h)' = store'[Highest(Earlier(m, f, h))'].after[f][h]
      BY <2>1, <2>3, Zenon DEF Before, Highest
    <3> QED
      BY <3>2, <3>3, <3>4, <3>5
  <2> QED
    BY <2>2, <2>3
<1>4. TextAt(m, f)' = TextAt(m, f)
  BY <1>2, <1>3 DEF TextAt
<1>5. ASSUME m \in Listed
      PROVE  Fits(m, f)' = Fits(m, f)
  <2>1. Same(m, f)' = Same(m, f)
    BY <1>2, <1>3, <1>5 DEF Same
  <2>2. \A h \in Hunks : Edits(m, f, h)' <=> Edits(m, f, h)
    BY <1>5 DEF Edits
  <2> QED
    BY <1>2, <1>3, <1>5, <2>1, <2>2 DEF Fits
<1> QED
  BY <1>2, <1>4, <1>5

\* What Apply does to the re-apply that is under way.
LEMMA ApplyIs ==
  ASSUME TypeOK, UnderWay, Applying, NEW i \in Ids, NEW f \in Files, Apply(i, f)
  PROVE  /\ i \in Listed /\ f \in FilesOf(i) /\ <<i, f>> \in cmd.todo /\ <<i, f>> \notin last.left
         /\ \A k \in Done(f) : k < i
         /\ UpTo(i, f) /\ tree[f] = TextAt(i, f) /\ (There(i, f) => tree[f] # Absent)
         /\ store' = store /\ last'.start = last.start /\ last'.how = "under way"
         /\ cmd'.todo = cmd.todo \ {<<i, f>>} /\ cmd'.pc = "applying"
         /\ cmd'.blocked = IF Verdict(i, f) = "conflict" THEN cmd.blocked \cup {f} ELSE cmd.blocked
         /\ last'.left = IF Verdict(i, f) \in {"conflict", "refused"} THEN last.left \cup {<<i, f>>} ELSE last.left
<1>1. <<i, f>> \in cmd.todo /\ cmd.pc = "applying" /\ \A p \in cmd.todo : i <= p[1]
  BY DEF Apply, Does
<1>2. i \in Listed /\ f \in FilesOf(i) /\ <<i, f>> \notin last.left /\ \A k \in Done(f) : k < i
  BY <1>1 DEF UnderWay, InTurn
<1>3. UpTo(i, f)
  <2>1. SUFFICES ASSUME NEW k \in Listed, f \in FilesOf(k) PROVE k < i <=> <<k, f>> \notin cmd.todo
    BY DEF UpTo
  <2>2. k \in Nat /\ i \in Nat
    BY IdsAreNumbers
  <2>3. ASSUME <<k, f>> \in cmd.todo PROVE ~(k < i)
    <3>1. i <= (<<k, f>>)[1]
      BY <1>1, <2>3
    <3>2. i <= k
      BY <3>1, Zenon
    <3> QED
      BY <2>2, <3>2, NotLess, Zenon
  <2>4. ASSUME <<k, f>> \notin cmd.todo PROVE k < i
    BY <1>2, <2>1, <2>4 DEF Done
  <2> QED
    BY <2>3, <2>4
<1>4. tree[f] = TextAt(i, f) /\ (There(i, f) => tree[f] # Absent)
  <2>1. i \in 1..(MaxEntries + 1)
    BY IdsAreNumbers
  <2> QED
    BY <1>3, <2>1 DEF UnderWay, Reached, TextSoFar
<1>5. cmd \in CmdType /\ last \in LastType
  BY DEF TypeOK
<1>6. /\ store' = store /\ last'.start = last.start /\ last'.how = "under way"
      /\ last'.left = IF Verdict(i, f) \in {"conflict", "refused"} THEN last.left \cup {<<i, f>>} ELSE last.left
  BY <1>5 DEF Apply, LastType, Applying
<1>7. /\ cmd'.todo = cmd.todo \ {<<i, f>>} /\ cmd'.pc = "applying"
      /\ cmd'.blocked = IF Verdict(i, f) = "conflict" THEN cmd.blocked \cup {f} ELSE cmd.blocked
  BY <1>1, <1>5 DEF Apply, Blocks, CmdType
<1> QED
  BY <1>1, <1>2, <1>3, <1>4, <1>6, <1>7

\* The entries of a file below the next one are those below this one, and this one.
LEMMA OneFurther ==
  ASSUME TypeOK, UnderWay, Applying, NEW i \in Ids, NEW f \in Files, Apply(i, f),
         NEW m \in 1..(MaxEntries + 1), UpTo(m, f)'
  PROVE  /\ i < m
         /\ <<i, f>> \in last'.left => Below(m, f)' = Below(i, f)
         /\ <<i, f>> \notin last'.left => Below(m, f)' = Below(i, f) \cup {i}
<1>a. /\ store' = store /\ i \in Listed /\ f \in FilesOf(i) /\ <<i, f>> \notin last.left
      /\ cmd'.todo = cmd.todo \ {<<i, f>>} /\ UpTo(i, f)
      /\ \A k \in Ids : k # i => (<<k, f>> \in last'.left <=> <<k, f>> \in last.left)
  BY ApplyIs
<1>0. Listed' = Listed /\ \A k \in Ids : FilesOf(k)' = FilesOf(k)
  BY <1>a DEF Listed, FilesOf
<1>1. Listed \subseteq Ids /\ Ids \subseteq Nat /\ m \in Nat
  BY IdsAreNumbers
<1>2. i < m
  <2>1. i \in Listed' /\ f \in FilesOf(i)' /\ <<i, f>> \notin cmd'.todo
    BY <1>0, <1>a
  <2> QED
    BY <2>1 DEF UpTo
<1>3. ASSUME NEW k \in Listed, f \in FilesOf(k) PROVE k < m <=> k < i \/ k = i
  <2>1. k < m <=> <<k, f>> \notin cmd'.todo
    BY <1>0, <1>1, <1>3 DEF UpTo
  <2>2. <<k, f>> \notin cmd'.todo <=> k = i \/ <<k, f>> \notin cmd.todo
    BY <1>a
  <2>3. k < i <=> <<k, f>> \notin cmd.todo
    BY <1>a, <1>3 DEF UpTo
  <2> QED
    BY <2>1, <2>2, <2>3
<1>4. \A k \in Listed : k # i => (<<k, f>> \in last'.left <=> <<k, f>> \in last.left)
  BY <1>a, <1>1
<1>5. \A k : k \in PutBack(f)' <=> k \in Listed /\ f \in FilesOf(k) /\ <<k, f>> \notin last'.left
  BY <1>0, <1>1 DEF PutBack
<1>6. \A k : k \in PutBack(f) <=> k \in Listed /\ f \in FilesOf(k) /\ <<k, f>> \notin last.left
  BY DEF PutBack
<1>7. \A k : k \in Below(m, f)'
        <=> (k \in Below(i, f) \/ (k = i /\ <<i, f>> \notin last'.left))
  <2>1. TAKE k
  <2>2. CASE k \notin Listed
    BY <1>a, <1>5, <1>6, <2>2 DEF Below
  <2>3. CASE k \in Listed /\ k = i
    <3>0. i \in Nat
      BY <1>1
    <3>1. ~(i < i)
      BY <3>0, NotLess, Zenon
    <3> QED
      BY <1>a, <1>2, <1>5, <1>6, <2>3, <3>1 DEF Below
  <2>4. CASE k \in Listed /\ k # i
    BY <1>1, <1>3, <1>4, <1>5, <1>6, <2>4 DEF Below
  <2> QED
    BY <2>2, <2>3, <2>4
<1> QED
  BY <1>2, <1>7

\* What was there before an entry, by the highest of the earlier ones.
LEMMA BeforeIs ==
  ASSUME NEW m, NEW f, NEW h
  PROVE  /\ Before(m, f, h) = IF Earlier(m, f, h) = {} THEN last.start[f][h]
                               ELSE store[Highest(Earlier(m, f, h))].after[f][h]
         /\ Before(m, f, h)' = IF Earlier(m, f, h)' = {} THEN last'.start[f][h]
                                ELSE store'[Highest(Earlier(m, f, h)')].after[f][h]
BY Zenon DEF Before, Highest

\* One more entry is put back on top of the ones below it, or none is.
LEMMA NoneOnTop ==
  ASSUME NEW i, NEW m, NEW f, store' = store, last'.start = last.start,
         Below(m, f)' = Below(i, f)
  PROVE  There(m, f)' = There(i, f) /\ TextAt(m, f)' = TextAt(i, f)
<1>1. There(m, f)' = There(i, f)
  BY DEF There, Below
<1>2. ASSUME NEW h
      PROVE  Before(m, f, h)' = Before(i, f, h)
  <2>1. Earlier(m, f, h)' = Earlier(i, f, h)
    BY DEF Earlier, Edits, Below
  <2> QED
    BY <2>1, BeforeIs
<1> QED
  BY <1>1, <1>2, Zenon DEF TextAt

LEMMA OneOnTop ==
  ASSUME NEW i \in Ids, NEW m, NEW f, NEW h, store' = store, last'.start = last.start,
         Below(m, f)' = Below(i, f) \cup {i}
  PROVE  /\ There(m, f)'
         /\ Edits(i, f, h) => Before(m, f, h)' = store[i].after[f][h]
         /\ ~Edits(i, f, h) => Before(m, f, h)' = Before(i, f, h)
<1>1. There(m, f)'
  BY DEF There, Below
<1>2. /\ Edits(i, f, h) => Before(m, f, h)' = store[i].after[f][h]
      /\ ~Edits(i, f, h) => Before(m, f, h)' = Before(i, f, h)
  <2>1. Earlier(m, f, h)' = {k \in Below(i, f) \cup {i} : Edits(k, f, h)}
    BY DEF Earlier, Edits, Below
  <2>2. CASE ~Edits(i, f, h)
    <3>1. Earlier(m, f, h)' = Earlier(i, f, h)
      BY <2>1, <2>2 DEF Earlier, Below
    <3> QED
      BY <2>2, <3>1, BeforeIs
  <2>3. CASE Edits(i, f, h)
    <3>1. Earlier(m, f, h)' = Earlier(i, f, h) \cup {i}
      BY <2>1, <2>3 DEF Earlier, Below
    <3>2. Earlier(i, f, h) \in SUBSET Ids /\ \A k \in Earlier(i, f, h) : k < i
      BY DEF Earlier, PutBack, Listed
    <3>3. Earlier(m, f, h)' \in SUBSET Ids /\ i \in Earlier(m, f, h)'
      BY <3>1, <3>2
    <3>4. Highest(Earlier(m, f, h)') = i
      <4>1. Highest(Earlier(m, f, h)') \in Earlier(m, f, h)' /\ i <= Highest(Earlier(m, f, h)')
        BY <3>3, HighestIs
      <4>2. i \in Nat /\ Highest(Earlier(m, f, h)') \in Nat
        BY <3>3, <4>1, IdsAreNumbers
      <4>3. ~(Highest(Earlier(m, f, h)') < i)
        BY <4>1, <4>2, NotLess
      <4> QED
        BY <3>1, <3>2, <4>1, <4>3
    <3>5. Before(m, f, h)' = store[Highest(Earlier(m, f, h)')].after[f][h]
      BY <3>3, BeforeIs
    <3> QED
      BY <2>3, <3>4, <3>5
  <2> QED
    BY <2>2, <2>3
<1> QED
  BY <1>1, <1>2

\* A file that fits, or has the entry's text, is what the entries up to it make;
\* one that is left out stays as it is, and did not fit or had no text to put.
LEMMA Put ==
  ASSUME Inv, MadeIsThere, UnderWay, Applying, NEW i \in Ids, NEW f \in Files, Apply(i, f),
         Verdict(i, f) \in {"applied", "already"}
  PROVE  /\ f \notin cmd.blocked /\ "after" \in store[i].has /\ Fits(i, f)
         /\ tree'[f] \in [Hunks -> Values]
         /\ \A h \in Hunks : tree'[f][h] = IF Edits(i, f, h) THEN store[i].after[f][h] ELSE Before(i, f, h)
<1> DEFINE e == store[i]
           now == tree[f]
           before == [h \in Hunks |-> Before(i, f, h)]
<1>1. f \in FilesOf(i) /\ now = TextAt(i, f) /\ (There(i, f) => now # Absent)
  BY ApplyIs DEF Inv
<1>2. /\ now \in Texts /\ e.base[f] \in Texts /\ e.after[f] \in Texts /\ tree \in Trees
  BY DEF Inv, TypeOK, EntryType, Trees
<1>3. /\ e.after[f] # Absent /\ e.after[f] \in [Hunks -> Values]
      /\ f \notin e.created => e.base[f] # Absent
  BY <1>1, <1>2 DEF FilesOf, MadeIsThere, Inv, BothSides, Texts
<1>4. There(i, f) <=> now # Absent
  BY <1>1 DEF TextAt
<1>5. now # Absent => now = before /\ now \in [Hunks -> Values]
  BY <1>1, <1>2, <1>4 DEF TextAt, Texts
<1>6. f \notin cmd.blocked /\ "after" \in e.has
  BY DEF Verdict
<1>7. CASE Verdict(i, f) = "already"
  <2>1. now = e.after[f] /\ tree' = tree
    BY <1>7 DEF Verdict, Apply
  <2>2. \A h \in Hunks : Before(i, f, h) = e.after[f][h]
    BY <1>3, <1>5, <2>1
  <2>3. Same(i, f)
    BY <1>3, <1>4, <2>1, <2>2 DEF Same
  <2>4. Fits(i, f)
    BY <2>3 DEF Fits, Same
  <2> QED
    BY <1>3, <1>6, <2>1, <2>2, <2>4
<1>8. CASE Verdict(i, f) = "applied" /\ f \in e.created
  <2>1. now = Absent /\ tree'[f] = e.after[f]
    BY <1>2, <1>8 DEF Verdict, Apply, Trees
  <2>2. Fits(i, f)
    BY <1>4, <1>8, <2>1 DEF Fits
  <2>3. \A h \in Hunks : Edits(i, f, h)
    BY <1>8 DEF Edits
  <2> QED
    BY <1>3, <1>6, <2>1, <2>2, <2>3
<1>9. CASE Verdict(i, f) = "applied" /\ f \notin e.created
  <2>1. /\ now # Absent /\ "base" \in e.has /\ Clean(e.base[f], e.after[f], now)
        /\ tree'[f] = Merged(e.base[f], e.after[f], now)
    BY <1>2, <1>9 DEF Verdict, Apply, Trees
  <2>2. \A h \in Hunks : Before(i, f, h) = now[h]
    BY <1>5, <2>1
  <2>3. \A h \in Hunks : Edits(i, f, h) <=> e.base[f][h] # e.after[f][h]
    BY <1>9 DEF Edits
  <2>4. \A h \in Hunks : Edits(i, f, h) => Before(i, f, h) \in {e.base[f][h], e.after[f][h]}
    BY <2>1, <2>2, <2>3 DEF Clean
  <2>5. Fits(i, f)
    BY <1>4, <1>9, <2>1, <2>4 DEF Fits
  <2>6. tree'[f] \in [Hunks -> Values]
    <3>1. e.base[f] \in [Hunks -> Values]
      BY <1>2, <1>3, <1>9 DEF Texts
    <3>2. \A h \in Hunks : (IF e.base[f][h] = e.after[f][h] THEN now[h]
                            ELSE IF now[h] \in {e.base[f][h], e.after[f][h]} THEN e.after[f][h] ELSE Absent) \in Values
      BY <1>3, <1>5, <2>1, <3>1 DEF Clean
    <3> QED
      BY <2>1, <3>2 DEF Merged
  <2>7. \A h \in Hunks : tree'[f][h] = IF Edits(i, f, h) THEN e.after[f][h] ELSE Before(i, f, h)
    <3>1. \A h \in Hunks : now[h] \in {e.base[f][h], e.after[f][h]} \/ e.base[f][h] = e.after[f][h]
      BY <2>1 DEF Clean
    <3>2. \A h \in Hunks : tree'[f][h] = IF e.base[f][h] = e.after[f][h] THEN now[h] ELSE e.after[f][h]
      BY <2>1, <3>1 DEF Merged
    <3> QED
      BY <2>2, <2>3, <3>2
  <2> QED
    BY <1>6, <2>5, <2>6, <2>7
<1> QED
  BY <1>7, <1>8, <1>9

LEMMA LeftOut ==
  ASSUME Inv, MadeIsThere, UnderWay, Applying, NEW i \in Ids, NEW f \in Files, Apply(i, f),
         Verdict(i, f) \notin {"applied", "already"}
  PROVE  /\ tree' = tree /\ Verdict(i, f) \in {"conflict", "refused"}
         /\ Verdict(i, f) = "refused" => f \notin cmd.blocked /\ "after" \notin store[i].has
         /\ Verdict(i, f) = "conflict" => f \in cmd.blocked \/ ("after" \in store[i].has /\ ~Fits(i, f))
<1> DEFINE e == store[i]
           now == tree[f]
<1>1. f \in FilesOf(i) /\ now = TextAt(i, f) /\ (There(i, f) => now # Absent)
  BY ApplyIs DEF Inv
<1>2. now \in Texts /\ e.after[f] \in Texts
  <2>1. tree \in Trees /\ e.after \in Trees
    BY DEF Inv, TypeOK, EntryType
  <2> QED
    BY <2>1 DEF Trees
<1>3. e.after[f] \in [Hunks -> Values]
  BY <1>1, <1>2 DEF FilesOf, MadeIsThere, Inv, BothSides, Texts
<1>4. There(i, f) <=> now # Absent
  BY <1>1 DEF TextAt
<1>5. now # Absent => now = [h \in Hunks |-> Before(i, f, h)] /\ now \in [Hunks -> Values]
  BY <1>1, <1>2, <1>4 DEF TextAt, Texts
<1>6. tree' = tree /\ Verdict(i, f) \in {"conflict", "refused"}
  BY DEF Apply, Verdict
<1>7. Verdict(i, f) = "refused" => f \notin cmd.blocked /\ "after" \notin e.has
  BY DEF Verdict
<1>8. ASSUME Verdict(i, f) = "conflict", f \notin cmd.blocked
      PROVE  "after" \in e.has /\ ~Fits(i, f)
  <2>1. "after" \in e.has /\ now # e.after[f]
    BY <1>8 DEF Verdict
  <2>2. ~Same(i, f)
    <3>1. SUFFICES ASSUME Same(i, f) PROVE now = e.after[f]
      BY <2>1
    <3>2. now \in [Hunks -> Values] /\ \A h \in Hunks : now[h] = e.after[f][h]
      BY <1>4, <1>5, <3>1 DEF Same
    <3>3. now = [h \in Hunks |-> now[h]] /\ e.after[f] = [h \in Hunks |-> e.after[f][h]]
      BY <1>3, <3>2
    <3> QED
      BY <3>2, <3>3, Zenon
  <2>3. CASE f \in e.created
    <3>1. now # Absent
      BY <1>8, <2>1, <2>3 DEF Verdict
    <3> QED
      BY <1>4, <2>1, <2>2, <2>3, <3>1 DEF Fits
  <2>4. CASE f \notin e.created
    <3>1. ~(now # Absent /\ "base" \in e.has /\ Clean(e.base[f], e.after[f], now))
      BY <1>8, <2>1, <2>4 DEF Verdict
    <3>2. SUFFICES ASSUME Fits(i, f) PROVE FALSE
      BY <2>1
    <3>3. /\ now # Absent /\ "base" \in e.has
          /\ \A h \in Hunks : Edits(i, f, h) => Before(i, f, h) \in {e.base[f][h], e.after[f][h]}
      BY <1>4, <2>2, <2>4, <3>2 DEF Fits
    <3>4. \A h \in Hunks : e.base[f][h] = e.after[f][h] \/ now[h] \in {e.base[f][h], e.after[f][h]}
      BY <1>5, <3>3 DEF Edits
    <3> QED
      BY <3>1, <3>3, <3>4 DEF Clean
  <2> QED
    BY <2>1, <2>3, <2>4
<1> QED
  BY <1>6, <1>7, <1>8

\* Once it is looked at, the entry is one of the file's.
LEMMA ApplyReached ==
  ASSUME Inv, MadeIsThere, UnderWay, Applying, NEW i \in Ids, NEW f \in Files, Apply(i, f)
  PROVE  Reached(f)'
<1>a. /\ store' = store /\ i \in Listed /\ f \in FilesOf(i) /\ <<i, f>> \notin last.left /\ last'.start = last.start
      /\ cmd'.todo = cmd.todo \ {<<i, f>>} /\ UpTo(i, f) /\ <<i, f>> \in cmd.todo
      /\ cmd'.blocked = IF Verdict(i, f) = "conflict" THEN cmd.blocked \cup {f} ELSE cmd.blocked
      /\ last'.left = IF Verdict(i, f) \in {"conflict", "refused"} THEN last.left \cup {<<i, f>>} ELSE last.left
      /\ tree[f] = TextAt(i, f) /\ (There(i, f) => tree[f] # Absent)
      /\ \A k \in Done(f) : k < i
  BY ApplyIs DEF Inv
<1>b. Reached(f)
  BY DEF UnderWay
<1>c. Listed \subseteq Ids /\ Ids \subseteq Nat /\ Ids \subseteq 1..(MaxEntries + 1) /\ Done(f) \subseteq Listed
  BY IdsAreNumbers DEF Done
<1>1. Listed' = Listed /\ \A k : FilesOf(k)' = FilesOf(k)
  BY <1>a DEF Listed, FilesOf
<1>2. Done(f)' = Done(f) \cup {i} /\ i \notin Done(f)
  BY <1>a, <1>1 DEF Done
<1>3. Whole(f)' = IF "after" \in store[i].has THEN Whole(f) \cup {i} ELSE Whole(f)
  BY <1>a, <1>2 DEF Whole
<1>4. Out(f)' = {k \in Whole(f)' : <<k, f>> \in last'.left}
  BY DEF Out
<1>5. ASSUME NEW k \in Done(f) \cup {i}
      PROVE  Fits(k, f)' = Fits(k, f)
  <2>1. k \in Listed /\ k \in 1..(MaxEntries + 1)
    BY <1>a, <1>c
  <2>2. \A l \in Listed : l < k => l # i
    <3>1. SUFFICES ASSUME i < k PROVE FALSE
      BY <1>c
    <3>2. k = i \/ k < i
      BY <1>a
    <3>3. k \in Nat /\ i \in Nat
      BY <1>c, <2>1
    <3> QED
      BY <3>1, <3>2, <3>3, NotLess, Zenon
  <2>3. \A l \in Listed : l < k => (<<l, f>> \in last'.left <=> <<l, f>> \in last.left)
    BY <1>a, <2>2
  <2> QED
    BY <1>a, <1>1, <2>1, <2>3, BelowOnly DEF Inv
<1>6. CASE Verdict(i, f) \in {"applied", "already"}
  <2>1. /\ f \notin cmd.blocked /\ "after" \in store[i].has /\ Fits(i, f)
        /\ tree'[f] \in [Hunks -> Values]
        /\ \A h \in Hunks : tree'[f][h] = IF Edits(i, f, h) THEN store[i].after[f][h] ELSE Before(i, f, h)
    BY <1>6, Put
  <2>2. last'.left = last.left /\ cmd'.blocked = cmd.blocked
    BY <1>6, <1>a
  <2>3. Out(f) = {}
    BY <1>b, <2>1 DEF Reached, OneOutBlocks
  <2>4. Out(f)' = {}
    BY <1>a, <1>3, <1>4, <2>2, <2>3 DEF Out
  <2>5. TextSoFar(f)'
    <3>1. SUFFICES ASSUME NEW m \in 1..(MaxEntries + 1), UpTo(m, f)'
                   PROVE  tree'[f] = TextAt(m, f)' /\ tree'[f] # Absent
      BY DEF TextSoFar, Ids
    <3>2. Below(m, f)' = Below(i, f) \cup {i}
      BY <1>a, <2>2, <3>1, OneFurther DEF Inv
    <3>3. /\ There(m, f)'
          /\ \A h : Before(m, f, h)' = IF Edits(i, f, h) THEN store[i].after[f][h] ELSE Before(i, f, h)
      <4>0. store' = store /\ last'.start = last.start
        BY <1>a
      <4>1. ASSUME NEW h
            PROVE  /\ There(m, f)'
                   /\ Before(m, f, h)' = IF Edits(i, f, h) THEN store[i].after[f][h] ELSE Before(i, f, h)
        <5>1. /\ There(m, f)'
              /\ Edits(i, f, h) => Before(m, f, h)' = store[i].after[f][h]
              /\ ~Edits(i, f, h) => Before(m, f, h)' = Before(i, f, h)
          BY <3>2, <4>0, OneOnTop
        <5> QED
          BY <5>1
      <4> QED
        BY <4>1, Zenon
    <3>4. TextAt(m, f)' = [h \in Hunks |-> Before(m, f, h)']
      BY <3>3 DEF TextAt
    <3>5. \A h \in Hunks : tree'[f][h] = Before(m, f, h)'
      BY <2>1, <3>3
    <3>6. tree'[f] = [h \in Hunks |-> tree'[f][h]]
      BY <2>1
    <3>7. tree'[f] # Absent
      BY <2>1, PatchStoreAssumption
    <3> QED
      BY <3>4, <3>5, <3>6, <3>7
  <2>6. OneOutBlocks(f)'
    BY <2>1, <2>2, <2>4 DEF OneOutBlocks
  <2>7. InFit(f)'
    <3>1. \A k \in Whole(f) : Fits(k, f)
      BY <1>b, <2>3 DEF Reached, InFit
    <3>2. \A k \in Whole(f)' : k \in Done(f) \cup {i} /\ Fits(k, f)
      BY <1>3, <2>1, <3>1 DEF Whole
    <3> QED
      BY <1>5, <2>4, <3>2 DEF InFit
  <2>8. FirstOutDoesNot(f)'
    BY <2>4 DEF FirstOutDoesNot
  <2> QED
    BY <2>5, <2>6, <2>7, <2>8 DEF Reached
<1>7. CASE Verdict(i, f) \notin {"applied", "already"}
  <2>1. /\ tree' = tree /\ Verdict(i, f) \in {"conflict", "refused"}
        /\ Verdict(i, f) = "refused" => f \notin cmd.blocked /\ "after" \notin store[i].has
        /\ Verdict(i, f) = "conflict" => f \in cmd.blocked \/ ("after" \in store[i].has /\ ~Fits(i, f))
    BY <1>7, LeftOut
  <2>2. last'.left = last.left \cup {<<i, f>>}
    BY <2>1, <1>a
  <2>3. Out(f)' = IF "after" \in store[i].has THEN Out(f) \cup {i} ELSE Out(f)
    BY <1>2, <1>3, <1>4, <2>2 DEF Out, Whole
  <2>4. Whole(f)' \ Out(f)' = Whole(f) \ Out(f)
    BY <1>2, <1>3, <2>3 DEF Whole
  <2>5. TextSoFar(f)'
    <3>1. SUFFICES ASSUME NEW m \in 1..(MaxEntries + 1), UpTo(m, f)'
                   PROVE  tree'[f] = TextAt(m, f)' /\ (There(m, f)' => tree'[f] # Absent)
      BY DEF TextSoFar, Ids
    <3>2. Below(m, f)' = Below(i, f)
      BY <2>2, <3>1, OneFurther DEF Inv
    <3>3. There(m, f)' = There(i, f) /\ TextAt(m, f)' = TextAt(i, f)
      BY <1>a, <3>2, NoneOnTop
    <3> QED
      BY <1>a, <2>1, <3>3
  <2>6. OneOutBlocks(f)'
    <3>1. f \in cmd.blocked <=> Out(f) # {}
      BY <1>b DEF Reached, OneOutBlocks
    <3>2. CASE Verdict(i, f) = "refused"
      BY <1>a, <2>1, <2>3, <3>1, <3>2 DEF OneOutBlocks
    <3>3. CASE Verdict(i, f) = "conflict"
      BY <1>a, <2>1, <2>3, <3>1, <3>3 DEF OneOutBlocks
    <3> QED
      BY <2>1, <3>2, <3>3
  <2>7. InFit(f)'
    <3>1. SUFFICES ASSUME NEW k \in Whole(f) \ Out(f), NEW o \in Out(f)'
                   PROVE  Fits(k, f)' /\ k < o
      <4>1. ASSUME Out(f)' = {}, NEW k \in Whole(f) \ Out(f)
            PROVE  Fits(k, f)'
        BY <1>5, <1>b, <4>1 DEF Reached, InFit, Whole
      <4> QED
        BY <2>4, <3>1, <4>1 DEF InFit
    <3>2. k \in Done(f) /\ Fits(k, f) /\ (o \in Out(f) => k < o)
      BY <1>b, <3>1 DEF Reached, InFit, Whole
    <3>3. k < i /\ (o \in Out(f) \/ o = i)
      BY <1>a, <2>3, <3>2
    <3> QED
      BY <1>5, <3>2, <3>3
  <2>8. FirstOutDoesNot(f)'
    <3>1. SUFFICES ASSUME NEW k \in Out(f)', \A o \in Out(f)' : k <= o
                   PROVE  ~Fits(k, f)'
      BY DEF FirstOutDoesNot
    <3>2. k \in Done(f) \cup {i}
      BY <2>3 DEF Out, Whole
    <3>3. CASE k \in Out(f)
      BY <1>5, <1>b, <2>3, <3>1, <3>2, <3>3 DEF Reached, FirstOutDoesNot
    <3>4. CASE k \notin Out(f)
      <4>1. k = i /\ "after" \in store[i].has
        BY <2>3, <3>4
      <4>2. Out(f) = {}
        <5>1. SUFFICES ASSUME NEW o \in Out(f) PROVE FALSE
          OBVIOUS
        <5>2. o \in Done(f) /\ o < i /\ i <= o
          BY <1>a, <2>3, <3>1, <4>1 DEF Out, Whole
        <5>3. o \in Nat /\ i \in Nat
          BY <1>c, <5>2
        <5> QED
          BY <5>2, <5>3, NotLess, Zenon
      <4>3. f \notin cmd.blocked
        BY <1>b, <4>2 DEF Reached, OneOutBlocks
      <4> QED
        BY <1>5, <2>1, <4>1, <4>3
    <3> QED
      BY <3>3, <3>4
  <2> QED
    BY <2>5, <2>6, <2>7, <2>8 DEF Reached
<1> QED
  BY <1>6, <1>7

LEMMA ApplyOthers ==
  ASSUME Inv, MadeIsThere, UnderWay, Applying, NEW i \in Ids, NEW f \in Files, Apply(i, f),
         NEW g \in Files, g # f
  PROVE  Reached(g)'
<1>a. /\ store' = store /\ last'.start = last.start
      /\ \A k : <<k, g>> \in cmd'.todo <=> <<k, g>> \in cmd.todo
      /\ \A k : <<k, g>> \in last'.left <=> <<k, g>> \in last.left
      /\ g \in cmd'.blocked <=> g \in cmd.blocked
  <2>1. /\ store' = store /\ last'.start = last.start /\ cmd'.todo = cmd.todo \ {<<i, f>>}
        /\ cmd'.blocked = IF Verdict(i, f) = "conflict" THEN cmd.blocked \cup {f} ELSE cmd.blocked
        /\ last'.left = IF Verdict(i, f) \in {"conflict", "refused"} THEN last.left \cup {<<i, f>>} ELSE last.left
    BY ApplyIs DEF Inv
  <2>2. \A k : <<k, g>> # <<i, f>>
    OBVIOUS
  <2>3. store' = store /\ last'.start = last.start /\ (g \in cmd'.blocked <=> g \in cmd.blocked)
    BY <2>1
  <2>4. \A k : <<k, g>> \in cmd'.todo <=> <<k, g>> \in cmd.todo
    BY <2>1, <2>2
  <2>5. \A k : <<k, g>> \in last'.left <=> <<k, g>> \in last.left
    <3>1. last'.left \in {last.left, last.left \cup {<<i, f>>}}
      BY <2>1
    <3> QED
      BY <2>2, <3>1
  <2> QED
    BY <2>3, <2>4, <2>5
<1>b. Reached(g)
  BY DEF UnderWay
<1>c. Listed \subseteq Ids /\ Ids \subseteq 1..(MaxEntries + 1)
  BY IdsAreNumbers
<1>d. tree'[g] = tree[g]
  BY DEF Apply, Inv, TypeOK, Trees
<1>1. Listed' = Listed /\ \A k : FilesOf(k)' = FilesOf(k)
  BY <1>a DEF Listed, FilesOf
<1>2. Done(g)' = Done(g) /\ Whole(g)' = Whole(g) /\ Out(g)' = Out(g)
  BY <1>a, <1>1 DEF Done, Whole, Out
<1>3. \A m \in 1..(MaxEntries + 1) : /\ UpTo(m, g)' = UpTo(m, g) /\ There(m, g)' = There(m, g)
                                     /\ TextAt(m, g)' = TextAt(m, g)
  <2>1. TAKE m \in 1..(MaxEntries + 1)
  <2>2. UpTo(m, g)' = UpTo(m, g)
    BY <1>a, <1>1 DEF UpTo
  <2> QED
    BY <1>a, <1>1, <2>2, BelowOnly DEF Inv
<1>4. \A k \in Whole(g) : Fits(k, g)' = Fits(k, g)
  <2>1. TAKE k \in Whole(g)
  <2>2. k \in Listed /\ k \in 1..(MaxEntries + 1)
    BY <1>c DEF Whole, Done
  <2> QED
    BY <1>a, <1>1, <2>2, BelowOnly DEF Inv
<1>5. TextSoFar(g)' /\ OneOutBlocks(g)'
  BY <1>a, <1>b, <1>d, <1>2, <1>3 DEF Reached, TextSoFar, OneOutBlocks, Ids
<1>6. InFit(g)' /\ FirstOutDoesNot(g)'
  BY <1>b, <1>2, <1>4 DEF Reached, InFit, FirstOutDoesNot, Out
<1> QED
  BY <1>5, <1>6 DEF Reached

LEMMA ApplyWhereabouts ==
  ASSUME Inv, Whereabouts, NEW i \in Ids, NEW f \in Files, Apply(i, f)
  PROVE  Whereabouts'
<1>1. MadeIsThere'
  BY DEF Whereabouts, MadeIsThere, Apply
<1>2. CASE last.how = "under way"
  <2>a. /\ store' = store /\ last'.how = "under way" /\ cmd'.pc = "applying" /\ <<i, f>> \in cmd.todo
        /\ cmd'.todo = cmd.todo \ {<<i, f>>}
        /\ \A p : p \in last'.left => p = <<i, f>> \/ p \in last.left
        /\ i \in Listed
    BY <1>2, ApplyIs DEF Inv, Whereabouts, Applying
  <2>1. AllOrNothing'
    BY <2>a DEF AllOrNothing
  <2>2. \A g \in Files : Reached(g)'
    BY <1>2, ApplyReached, ApplyOthers DEF Whereabouts, Applying
  <2>3. Listed' = Listed /\ \A k : FilesOf(k)' = FilesOf(k)
    BY <2>a DEF Listed, FilesOf
  <2>4. InTurn'
    <3>1. SUFFICES ASSUME NEW p \in cmd'.todo
                   PROVE  /\ p[1] \in Listed /\ p[2] \in FilesOf(p[1]) /\ p \notin last'.left
                          /\ \A k \in Done(p[2])' : k < p[1]
      BY <2>3 DEF InTurn
    <3>2. p \in cmd.todo /\ p # <<i, f>>
      BY <2>a, <3>1
    <3>3. /\ p[1] \in Listed /\ p[2] \in FilesOf(p[1]) /\ p \notin last.left
          /\ \A k \in Done(p[2]) : k < p[1]
      BY <1>2, <3>2 DEF Whereabouts, UnderWay, InTurn, Applying
    <3>4. p = <<p[1], p[2]>>
      BY <3>2 DEF Inv, TypeOK, CmdType
    <3>5. i <= p[1]
      BY <3>2 DEF Apply
    <3>6. ASSUME NEW k \in Done(p[2])', k \notin Done(p[2])
          PROVE  k < p[1]
      <4>1. k = i /\ p[2] = f
        BY <2>3, <2>a, <3>6 DEF Done
      <4>2. p[1] # i
        BY <3>2, <3>4, <4>1
      <4>3. p[1] \in Nat /\ i \in Nat
        BY <3>3, <2>a, IdsAreNumbers
      <4> QED
        BY <3>5, <4>1, <4>2, <4>3
    <3> QED
      BY <2>a, <3>2, <3>3, <3>6
  <2> QED
    BY <1>1, <2>1, <2>2, <2>4, <2>a DEF Whereabouts, UnderWay
<1>3. CASE last.how # "under way"
  <2>1. /\ last' = last /\ cmd'.pc = "applying" /\ last.how # "ended"
    BY <1>3 DEF Apply, Does, Inv, TypeOK, CmdType, Whereabouts, UnderWay
  <2> QED
    BY <1>1, <1>3, <2>1 DEF Whereabouts, UnderWay, AllOrNothing, Applying
<1> QED
  BY <1>2, <1>3

LEMMA BeginReapplyWhereabouts ==
  ASSUME Inv, Whereabouts, BeginReapply
  PROVE  Whereabouts'
<1>a. /\ cmd'.pc = "applying" /\ cmd'.blocked = {}
      /\ cmd'.todo = {p \in Ids \X Files : p[1] \in Listed /\ p[2] \in FilesOf(p[1])}
      /\ last' = [how |-> "under way", start |-> tree, left |-> {}]
      /\ store' = store /\ tree' = tree
  BY DEF BeginReapply, Quiet
<1>b. Listed' = Listed /\ \A k : FilesOf(k)' = FilesOf(k)
  BY <1>a DEF Listed, FilesOf
<1>c. Listed \subseteq Ids /\ \A i \in Ids : FilesOf(i) \subseteq Files
  BY DEF Listed, FilesOf, Inv, TypeOK, EntryType
<1>1. MadeIsThere'
  BY <1>a DEF Whereabouts, MadeIsThere
<1>2. AllOrNothing'
  BY <1>a DEF AllOrNothing
<1>3. \A f \in Files : Done(f)' = {}
  BY <1>a, <1>b, <1>c DEF Done
<1>4. InTurn'
  BY <1>a, <1>b, <1>3 DEF InTurn
<1>5. ASSUME NEW f \in Files
      PROVE  Reached(f)'
  <2>1. Whole(f)' = {} /\ Out(f)' = {}
    BY <1>3 DEF Whole, Out
  <2>2. TextSoFar(f)'
    <3>1. SUFFICES ASSUME NEW m \in 1..(MaxEntries + 1), UpTo(m, f)'
                   PROVE  tree'[f] = TextAt(m, f)' /\ (There(m, f)' => tree'[f] # Absent)
      BY DEF TextSoFar, Ids
    <3>2. \A i \in Listed : f \in FilesOf(i) => ~(i < m)
      BY <1>a, <1>b, <1>c, <3>1 DEF UpTo
    <3>3. \A k : ~(k \in PutBack(f)' /\ k < m)
      BY <1>b, <3>2 DEF PutBack
    <3>4. There(m, f)' <=> tree[f] # Absent
      BY <1>a, <3>3 DEF There
    <3>5. ASSUME NEW h
          PROVE  Before(m, f, h)' = tree[f][h]
      <4>1. Earlier(m, f, h)' = {}
        BY <3>3 DEF Earlier
      <4>2. last'.start = tree
        BY <1>a
      <4> QED
        BY <4>1, <4>2, BeforeIs
    <3>6. CASE tree[f] = Absent
      BY <1>a, <3>4, <3>6 DEF TextAt
    <3>7. CASE tree[f] # Absent
      <4>1. tree[f] \in [Hunks -> Values]
        BY <3>7 DEF Inv, TypeOK, Trees, Texts
      <4>2. tree[f] = [h \in Hunks |-> tree[f][h]]
        BY <4>1
      <4>3. TextAt(m, f)' = [h \in Hunks |-> tree[f][h]]
        BY <3>4, <3>5, <3>7, Zenon DEF TextAt
      <4> QED
        BY <1>a, <3>7, <4>2, <4>3
    <3> QED
      BY <3>6, <3>7
  <2> QED
    BY <1>a, <2>1, <2>2 DEF Reached, OneOutBlocks, InFit, FirstOutDoesNot
<1> QED
  BY <1>a, <1>1, <1>2, <1>4, <1>5 DEF Whereabouts, UnderWay

LEMMA EndReapplyWhereabouts ==
  ASSUME Inv, Whereabouts, EndReapply
  PROVE  Whereabouts'
<1>a. /\ store' = store /\ tree' = tree /\ cmd'.pc = "idle" /\ cmd.pc = "applying" /\ cmd.todo = {}
      /\ last'.how # "under way" /\ last'.start = last.start /\ last'.left = last.left
      /\ last'.how = "ended" => last.how = "under way"
  BY DEF EndReapply, Does, Quiet, Inv, TypeOK, LastType, Whereabouts, UnderWay
<1>b. Listed' = Listed /\ \A k : FilesOf(k)' = FilesOf(k)
  BY <1>a DEF Listed, FilesOf
<1>1. MadeIsThere' /\ UnderWay'
  BY <1>a DEF Whereabouts, MadeIsThere, UnderWay, Applying
<1>2. ASSUME last'.how = "ended", NEW f \in Files
      PROVE  LET whole == {i \in Listed' : f \in FilesOf(i)' /\ "after" \in store'[i].has}
                 out == {i \in whole : <<i, f>> \in last'.left}
             IN /\ \A i \in whole \ out : Fits(i, f)' /\ \A k \in out : i < k
                /\ \A k \in out : (\A o \in out : k <= o) => ~Fits(k, f)'
                /\ tree'[f] = TextAt(MaxEntries + 1, f)'
  <2>1. Reached(f)
    BY <1>a, <1>2 DEF Whereabouts, UnderWay, Applying
  <2>2. /\ {i \in Listed' : f \in FilesOf(i)' /\ "after" \in store'[i].has} = Whole(f)
        /\ {i \in Whole(f) : <<i, f>> \in last'.left} = Out(f)
    BY <1>a, <1>b DEF Whole, Out, Done
  <2>3. \A m \in 1..(MaxEntries + 1) : /\ TextAt(m, f)' = TextAt(m, f)
                                       /\ m \in Listed => Fits(m, f)' = Fits(m, f)
    BY <1>a, <1>b, BelowOnly DEF Inv
  <2>4. \A k \in Whole(f) : Fits(k, f)' = Fits(k, f)
    BY <2>3, IdsAreNumbers DEF Whole, Done
  <2>5. /\ \A i \in Whole(f) \ Out(f) : Fits(i, f)' /\ \A k \in Out(f) : i < k
        /\ \A k \in Out(f) : (\A o \in Out(f) : k <= o) => ~Fits(k, f)'
    BY <2>1, <2>4 DEF Reached, InFit, FirstOutDoesNot, Out
  <2>6. MaxEntries + 1 \in 1..(MaxEntries + 1) /\ \A i \in Ids : i < MaxEntries + 1
    BY BoundsAreNumbers DEF Ids
  <2>7. UpTo(MaxEntries + 1, f)
    BY <1>a, <2>6, IdsAreNumbers DEF UpTo
  <2>8. tree[f] = TextAt(MaxEntries + 1, f)
    BY <2>1, <2>6, <2>7 DEF Reached, TextSoFar
  <2> QED
    BY <1>a, <2>2, <2>3, <2>5, <2>6, <2>8
<1>3. AllOrNothing'
  BY <1>2 DEF AllOrNothing, TextAt
<1> QED
  BY <1>1, <1>3 DEF Whereabouts

\* After a step that moves something, nothing is said of the last re-apply.
LEMMA MovedOn ==
  ASSUME Whereabouts, last' = Moved, MadeIsThere'
  PROVE  Whereabouts'
BY DEF Whereabouts, UnderWay, AllOrNothing, Moved, Applying

\* One that leaves the tree and the listed entries alone keeps what is said.
LEMMA Undisturbed ==
  ASSUME Inv, Whereabouts, cmd.pc # "applying", cmd'.pc \notin {"writing", "applying"},
         tree' = tree, last' = last, Listed' = Listed, \A i \in Listed : store'[i] = store[i], MadeIsThere'
  PROVE  Whereabouts'
<1>1. UnderWay'
  BY DEF Whereabouts, UnderWay, Applying
<1>2. \A f \in Files : \A m \in 1..(MaxEntries + 1) :
        TextAt(m, f)' = TextAt(m, f) /\ (m \in Listed => Fits(m, f)' = Fits(m, f))
  BY BelowOnly DEF Inv
<1>3. MaxEntries + 1 \in 1..(MaxEntries + 1)
  BY BoundsAreNumbers
<1>4. \A i \in Listed : FilesOf(i)' = FilesOf(i)
  BY DEF FilesOf
<1>5. ASSUME last'.how = "ended", NEW f \in Files
      PROVE  LET whole == {i \in Listed' : f \in FilesOf(i)' /\ "after" \in store'[i].has}
                 out == {i \in whole : <<i, f>> \in last'.left}
             IN /\ \A i \in whole \ out : Fits(i, f)' /\ \A k \in out : i < k
                /\ \A k \in out : (\A o \in out : k <= o) => ~Fits(k, f)'
                /\ tree'[f] = TextAt(MaxEntries + 1, f)'
  <2> DEFINE whole == {i \in Listed : f \in FilesOf(i) /\ "after" \in store[i].has}
             out == {i \in whole : <<i, f>> \in last.left}
  <2>1. /\ \A i \in whole \ out : Fits(i, f) /\ \A k \in out : i < k
        /\ \A k \in out : (\A o \in out : k <= o) => ~Fits(k, f)
        /\ tree[f] = TextAt(MaxEntries + 1, f)
    BY <1>5 DEF Whereabouts, AllOrNothing, TextAt
  <2>2. /\ {i \in Listed' : f \in FilesOf(i)' /\ "after" \in store'[i].has} = whole
        /\ {i \in whole : <<i, f>> \in last'.left} = out
    BY <1>4
  <2>3. \A k \in whole : Fits(k, f)' = Fits(k, f)
    BY <1>2, IdsAreNumbers
  <2> QED
    BY <1>2, <1>3, <2>1, <2>2, <2>3
<1>6. AllOrNothing'
  BY <1>5 DEF AllOrNothing, TextAt
<1> QED
  BY <1>1, <1>6 DEF Whereabouts

\* A command that stores a change, or ends, leaves what is listed alone.
LEMMA SavingWhereabouts ==
  ASSUME Inv, Whereabouts, NEW n \in Ids, SaveCopies(n) \/ SaveFails(n)
  PROVE  Whereabouts'
<1>1. /\ ~store[n].made /\ n \notin Listed /\ cmd.pc = "idle" /\ cmd'.pc \in {"idle", "manifest"}
      /\ tree' = tree /\ last' = last
  <2>1. ~store[n].made
    <3>1. \A i \in Used : i < n
      BY DEF SaveCopies, SaveFails, Free
    <3>2. n \in Nat
      BY IdsAreNumbers
    <3>3. ~(n < n)
      BY <3>2, NotLess, Zenon
    <3> QED
      BY <3>1, <3>3 DEF Used
  <2>2. n \notin Listed
    BY <2>1 DEF Inv, ListedIsMade, Listed
  <2> QED
    BY <2>1, <2>2 DEF SaveCopies, SaveFails, Does, Quiet
<1>2. CASE SaveCopies(n)
  <2> DEFINE e == [made |-> TRUE, listed |-> FALSE, has |-> {"base", "after"}, created |-> change.created,
                   modified |-> change.modified, base |-> change.base, after |-> Copies(tree, Changed)]
  <2>1. store' = [store EXCEPT ![n] = e] /\ store \in [Ids -> EntryType] /\ Present
    BY <1>2 DEF SaveCopies, Inv, TypeOK
  <2>2. store'[n] = e /\ \A k \in Ids : k # n => store'[k] = store[k]
    BY <2>1
  <2>3. \A f \in e.created : e.after[f] # Absent
    BY <2>1, ChangedTyped DEF Present, Copies, Changed, Inv
  <2>4. MadeIsThere'
    BY <2>2, <2>3 DEF Whereabouts, MadeIsThere
  <2>5. Listed' = Listed
    BY <1>1, <2>2 DEF Listed
  <2> QED
    BY <1>1, <2>2, <2>4, <2>5, IdsAreNumbers, Undisturbed
<1>3. CASE SaveFails(n)
  <2>1. store' = [store EXCEPT ![n].made = TRUE] /\ store \in [Ids -> EntryType]
    BY <1>3 DEF SaveFails, Inv, TypeOK
  <2>2. /\ \A k \in Ids : k # n => store'[k] = store[k]
        /\ store'[n].listed = store[n].listed /\ store'[n].created = store[n].created
        /\ store'[n].after = store[n].after
    BY <2>1 DEF EntryType
  <2>3. MadeIsThere'
    BY <2>2 DEF Whereabouts, MadeIsThere
  <2>4. Listed' = Listed
    BY <2>2 DEF Listed
  <2> QED
    BY <1>1, <2>2, <2>3, <2>4, IdsAreNumbers, Undisturbed
<1> QED
  BY <1>2, <1>3

LEMMA ForgetWhereabouts ==
  ASSUME Inv, Whereabouts, NEW i \in Ids, Forget(i)
  PROVE  Whereabouts'
<1>0. store \in [Ids -> EntryType]
  BY DEF Inv, TypeOK
<1>1. /\ \A k \in Ids : k # i => store'[k] = store[k]
      /\ store'[i].created = {} \/ (store'[i].created = store[i].created /\ store'[i].after = store[i].after)
  BY <1>0 DEF Forget, NoEntry, EntryType
<1>2. MadeIsThere'
  BY <1>1 DEF Whereabouts, MadeIsThere
<1> QED
  BY <1>2, MovedOn DEF Forget

LEMMA WhereaboutsStep ==
  ASSUME Inv, Whereabouts, [Next]_vars
  PROVE  Whereabouts'
<1>a. ASSUME UNCHANGED store
      PROVE  MadeIsThere' /\ Listed' = Listed /\ \A i \in Listed : store'[i] = store[i]
  BY <1>a DEF Whereabouts, MadeIsThere, Listed
<1>1. CASE AgentChanges \/ Discard
  BY <1>a, <1>1, MovedOn DEF AgentChanges, Discard
<1>2. CASE ApproveShowsAgain \/ SaysApproved
  <2>1. /\ UNCHANGED <<store, tree, last>> /\ cmd.pc \in {"idle", "review"} /\ cmd'.pc = "idle"
    BY <1>2 DEF ApproveShowsAgain, SaysApproved, Does, Quiet
  <2> QED
    BY <1>a, <2>1, Undisturbed
<1>3. CASE \E n \in Ids : SaveCopies(n) \/ SaveFails(n) \/ Forget(n)
  BY <1>3, SavingWhereabouts, ForgetWhereabouts
<1>4. CASE SaveManifest
  <2>1. /\ cmd.number \in Ids /\ store \in [Ids -> EntryType]
        /\ store' = [store EXCEPT ![cmd.number].listed = TRUE]
    BY <1>4 DEF SaveManifest, Does, Inv, Saving, TypeOK
  <2>2. \A k \in Ids : store'[k].created = store[k].created /\ store'[k].after = store[k].after
    BY <2>1 DEF EntryType
  <2>3. MadeIsThere'
    BY <2>2 DEF Whereabouts, MadeIsThere
  <2> QED
    BY <1>4, <2>3, MovedOn DEF SaveManifest
<1>5. CASE StartConvert \/ Dies
  BY <1>a, <1>5, MovedOn DEF StartConvert, Dies
<1>6. CASE \E w \in Files \X Texts : WriteFile(w)
  <2>1. /\ UNCHANGED <<store, last>> /\ cmd.pc = "writing" /\ cmd'.pc = "writing"
    BY <1>6 DEF WriteFile, Does, Inv, TypeOK, CmdType
  <2> QED
    BY <1>a, <2>1 DEF Whereabouts, UnderWay, AllOrNothing, Applying
<1>7. CASE ConvertEnds
  <2>1. UNCHANGED <<store, last, tree>> /\ cmd.pc = "writing" /\ cmd'.pc = "idle"
    BY <1>7 DEF ConvertEnds, Written, Does, Quiet
  <2> QED
    BY <1>a, <2>1, Undisturbed
<1>8. CASE BeginReapply \/ (\E i \in Ids, f \in Files : Apply(i, f)) \/ EndReapply
  BY <1>8, BeginReapplyWhereabouts, ApplyWhereabouts, EndReapplyWhereabouts
<1>9. CASE UNCHANGED vars
  <2>1. UNCHANGED <<tree, store, cmd, last>>
    BY <1>9 DEF vars
  <2>2. CASE cmd.pc \in {"writing", "applying"}
    <3>1. MadeIsThere' /\ AllOrNothing'
      BY <1>a, <2>1, <2>2 DEF Whereabouts, UnderWay, AllOrNothing
    <3>2. Listed' = Listed /\ \A k : FilesOf(k)' = FilesOf(k)
      BY <2>1 DEF Listed, FilesOf
    <3>3. \A f : Done(f)' = Done(f) /\ Whole(f)' = Whole(f) /\ Out(f)' = Out(f)
      BY <2>1, <3>2 DEF Done, Whole, Out
    <3>4. InTurn => InTurn'
      BY <2>1, <3>2, <3>3 DEF InTurn
    <3>5. ASSUME NEW f \in Files, Reached(f)
          PROVE  Reached(f)'
      <4>1. \A m \in 1..(MaxEntries + 1) : /\ UpTo(m, f)' = UpTo(m, f) /\ There(m, f)' = There(m, f)
                                           /\ TextAt(m, f)' = TextAt(m, f)
        <5>1. TAKE m \in 1..(MaxEntries + 1)
        <5>2. UpTo(m, f)' = UpTo(m, f)
          BY <2>1, <3>2 DEF UpTo
        <5> QED
          BY <2>1, <3>2, <5>2, BelowOnly DEF Inv
      <4>2. \A k \in Whole(f) : Fits(k, f)' = Fits(k, f)
        <5>1. TAKE k \in Whole(f)
        <5>2. k \in Listed /\ k \in 1..(MaxEntries + 1)
          BY IdsAreNumbers DEF Whole, Done
        <5> QED
          BY <2>1, <3>2, <5>2, BelowOnly DEF Inv
      <4>3. TextSoFar(f)' /\ OneOutBlocks(f)'
        BY <2>1, <3>3, <3>5, <4>1 DEF Reached, TextSoFar, OneOutBlocks, Ids
      <4>4. InFit(f)' /\ FirstOutDoesNot(f)'
        BY <3>3, <3>5, <4>2 DEF Reached, InFit, FirstOutDoesNot, Out
      <4> QED
        BY <4>3, <4>4 DEF Reached
    <3>6. UnderWay'
      BY <2>1, <3>4, <3>5 DEF Whereabouts, UnderWay, Applying
    <3> QED
      BY <3>1, <3>6 DEF Whereabouts
  <2>3. CASE cmd.pc \notin {"writing", "applying"}
    BY <1>a, <2>1, <2>3, Undisturbed
  <2> QED
    BY <2>2, <2>3
<1> QED
  BY <1>1, <1>2, <1>3, <1>4, <1>5, <1>6, <1>7, <1>8, <1>9 DEF Next

-----------------------------------------------------------------------------
(* The theorems *)

LEMMA StepOK == Inv /\ [Next]_vars => Inv'
<1> SUFFICES ASSUME Inv, [Next]_vars PROVE Inv'
  OBVIOUS
<1>1. CASE AgentChanges \/ Discard \/ ApproveShowsAgain
  BY <1>1, AgentChangesOK, DiscardOK, ApproveShowsAgainOK
<1>2. CASE \E n \in Ids : SaveCopies(n) \/ SaveFails(n) \/ Forget(n)
  BY <1>2, SaveCopiesOK, SaveFailsOK, ForgetOK
<1>3. CASE SaveManifest \/ SaysApproved
  BY <1>3, SaveManifestOK, SaysApprovedOK
<1>4. CASE StartConvert \/ (\E w \in Files \X Texts : WriteFile(w)) \/ ConvertEnds
  BY <1>4, StartConvertOK, WriteFileOK, ConvertEndsOK
<1>5. CASE BeginReapply \/ (\E i \in Ids, f \in Files : Apply(i, f)) \/ EndReapply
  BY <1>5, BeginReapplyOK, ApplyOK, EndReapplyOK
<1>6. CASE Dies
  BY <1>6, DiesOK
<1>7. CASE UNCHANGED vars
  <2>1. TypeOK' /\ ListedIsMade' /\ BothSides'
    BY <1>7 DEF Inv, TypeOK, ListedIsMade, BothSides, vars
  <2>2. Saving' /\ Reapplying' /\ ApprovedIsKept'
    BY <1>7 DEF Inv, Saving, IsTheChange, Changed, Copies, Reapplying, FilesOf, ApprovedIsKept, vars
  <2> QED
    BY <2>1, <2>2 DEF Inv
<1> QED
  BY <1>1, <1>2, <1>3, <1>4, <1>5, <1>6, <1>7 DEF Next

\* The invariant the theorems rest on.
THEOREM Invariant == Spec => []Inv
<1> QED
  BY InitOK, StepOK, PTL DEF Spec

\* The tree, the store and the commands keep their types, a merged file too:
\* what is written is a text and never one with markers (merge3, _apply_one).
THEOREM StoreTypes == Spec => []TypeOK
<1>1. Inv => TypeOK
  BY DEF Inv
<1> QED
  BY <1>1, Invariant, PTL

\* What a review calls stored is in the store, whole and as it was approved,
\* until a person forgets it: numbers are not given twice (save), whatever died.
THEOREM ApprovedStays == Spec => []ApprovedIsKept
<1>1. Inv => ApprovedIsKept
  BY DEF Inv
<1> QED
  BY <1>1, Invariant, PTL

\* The three a re-apply rests on: where it is, and that what changes made is there.
LEMMA InitWhereabouts == Init => Whereabouts
BY DEF Init, Whereabouts, MadeIsThere, UnderWay, AllOrNothing, NoEntry, Quiet, Moved, Applying

\* When a re-apply is over and nothing moved since, of the changes stored for a
\* file the ones up to the first that does not fit are in it, each hunk as the
\* last of them made it, and every later one is reported; none that fits is left
\* out (reapply, _apply_one): for any number of entries, files and hunks.
THEOREM NothingHalfApplied == Spec => []AllOrNothing
<1>1. Inv /\ Whereabouts /\ [Next]_vars => Whereabouts'
  BY WhereaboutsStep
<1>2. Whereabouts => AllOrNothing
  BY DEF Whereabouts
<1> QED
  BY InitWhereabouts, <1>1, <1>2, Invariant, PTL DEF Spec

=============================================================================
