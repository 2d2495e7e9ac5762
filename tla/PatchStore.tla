----------------------------- MODULE PatchStore -----------------------------
(***************************************************************************)
(* Approved changes to converted Java, kept so they survive a reconvert    *)
(* (tools/agent/patches.py, its callers in loop.py and ra_converter.py).   *)
(*                                                                         *)
(* The converter rewrites the files of a suite.  A change the agent made   *)
(* to them and a person approved is stored: each file before it (base)     *)
(* and after it.  After a convert, or on request, the stored changes are   *)
(* put back, oldest first, each file by a three-way merge; one that does   *)
(* not fit is left out and said, and so is every later one of that file.   *)
(* A file is a text per hunk; two changes of one hunk overlap.  Commands   *)
(* that write the tree are EXCLUSIVE (JobRunner), so there is one at a     *)
(* time; it may die at any step.  `forget` is typed in a terminal, at any  *)
(* time.  One suite, one change waiting at a time.                         *)
(***************************************************************************)
EXTENDS Naturals, FiniteSets

CONSTANTS
  Files,       \* the suite's files
  Hunks,       \* the places of a file that changes are told apart by
  Values,      \* what a hunk may hold
  Absent,      \* no such file
  Outputs,     \* what the converter may write: sets of [Files -> texts]
  Makes(_),    \* what the agent may make of a tree
  MaxEntries,  \* bound: the highest number of an entry
  MaxConverts, \* bound: converts
  MaxMishaps   \* bound: commands that die and entries forgotten

Texts == [Hunks -> Values] \cup {Absent}
Trees == [Files -> Texts]
Ids == 1..MaxEntries

ASSUME PatchStoreAssumption ==
  /\ Absent \notin [Hunks -> Values]
  /\ Outputs \subseteq Trees
  /\ \A t \in Trees : Makes(t) \subseteq Trees
  /\ MaxEntries \in Nat /\ MaxConverts \in Nat /\ MaxMishaps \in Nat

VARIABLES
  tree,       \* the suite's files
  store,      \* .agent-patches/<suite>: number -> entry
  change,     \* the agent's change that waits for review, or none
  cmd,        \* the command under way: [pc, writes, todo, blocked, number]
  converts,   \* converts started
  mishaps,    \* commands that died, entries forgotten
  last,       \* history: the last re-apply, while nothing moves: [how, start, left]
  kept        \* history: approved changes nobody forgot: [number, base, after, created, modified]

vars == <<tree, store, change, cmd, converts, mishaps, last, kept>>

\* The files of a set, as they are in a tree.
Copies(t, fs) == [f \in Files |-> IF f \in fs THEN t[f] ELSE Absent]
Nothing == [f \in Files |-> Absent]

NoEntry == [made |-> FALSE, listed |-> FALSE, has |-> {}, created |-> {}, modified |-> {},
            base |-> Nothing, after |-> Nothing]
NoChange == [waits |-> FALSE, created |-> {}, modified |-> {}, base |-> Nothing, shown |-> Nothing]
Quiet == [pc |-> "idle", writes |-> {}, todo |-> {}, blocked |-> {}, number |-> 0]

\* The tree or the store is not as the last re-apply left it.
Moved == [how |-> "no", start |-> Nothing, left |-> {}]

Init ==
  /\ tree \in Outputs
  /\ store = [i \in Ids |-> NoEntry]
  /\ change = NoChange
  /\ cmd = Quiet
  /\ converts = 0 /\ mishaps = 0
  /\ last = Moved /\ kept = {}

Does(pc) == cmd.pc = pc

-----------------------------------------------------------------------------
(* A change of the agent's: ReviewCycle has what happens inside *)

\* The files are copied before the run, compared after it.
AgentChanges ==
  /\ Does("idle") /\ ~change.waits
  /\ \E t \in Makes(tree) :
       /\ t # tree
       /\ tree' = t
       /\ LET moved == {f \in Files : t[f] # tree[f]} IN
            change' = [waits |-> TRUE, created |-> {f \in moved : tree[f] = Absent},
                       modified |-> {f \in moved : tree[f] # Absent},
                       base |-> Copies(tree, moved), shown |-> Copies(t, moved)]
  /\ last' = Moved
  /\ UNCHANGED <<store, cmd, converts, mishaps, kept>>

Changed == change.created \cup change.modified

Discard ==
  /\ Does("idle") /\ change.waits
  /\ tree' = [f \in Files |-> IF f \in Changed THEN change.base[f] ELSE tree[f]]
  /\ change' = NoChange
  /\ last' = Moved
  /\ UNCHANGED <<store, cmd, converts, mishaps, kept>>

-----------------------------------------------------------------------------
(* Approve: patches.save *)

AsShown == \A f \in Changed : tree[f] = change.shown[f]

\* "What is approved must be what was shown": else it is shown again.
ApproveShowsAgain ==
  /\ Does("idle") /\ change.waits /\ ~AsShown
  /\ change' = [change EXCEPT !.shown = Copies(tree, Changed)]
  /\ UNCHANGED <<tree, store, cmd, converts, mishaps, last, kept>>

Used == {i \in Ids : store[i].made}

\* One more than how many there are.
FreeByCount(n) == n = Cardinality(Used) + 1

\* "Highest number in use plus one -- not a count".
Free(n) == n \in Ids /\ (\A i \in Used : i < n) /\ (n = 1 \/ n - 1 \in Used)

Present == \A f \in Changed : tree[f] # Absent

\* The copies come first; an entry without its manifest is not listed, but
\* its number is taken.
SaveCopies(n) ==
  /\ Does("idle") /\ change.waits /\ AsShown /\ Present /\ Free(n)
  /\ store' = [store EXCEPT ![n] =
                 [made |-> TRUE, listed |-> FALSE, has |-> {"base", "after"}, created |-> change.created,
                  modified |-> change.modified, base |-> change.base, after |-> Copies(tree, Changed)]]
  /\ cmd' = [Quiet EXCEPT !.pc = "manifest", !.number = n]
  /\ UNCHANGED <<tree, change, converts, mishaps, last, kept>>

\* A file of the change is gone: refused, with or without a directory made.
SaveFails(n) ==
  /\ Does("idle") /\ change.waits /\ AsShown /\ ~Present /\ Free(n)
  /\ store' = [store EXCEPT ![n].made = TRUE]
  /\ UNCHANGED <<tree, change, cmd, converts, mishaps, last, kept>>

SaveManifest ==
  /\ Does("manifest")
  /\ store' = [store EXCEPT ![cmd.number].listed = TRUE]
  /\ cmd' = [cmd EXCEPT !.pc = "review"]
  /\ last' = Moved
  /\ UNCHANGED <<tree, change, converts, mishaps, kept>>

\* "approved-local": the change is put back after every convert from now on.
SaysApproved ==
  /\ Does("review")
  /\ kept' = kept \cup {[number |-> cmd.number, created |-> change.created, modified |-> change.modified,
                         base |-> change.base, after |-> Copies(tree, Changed)]}
  /\ change' = NoChange
  /\ cmd' = Quiet
  /\ UNCHANGED <<tree, store, converts, mishaps, last>>

\* `forget`: rmtree, which may leave a part when it dies.
Forget(i) ==
  /\ mishaps < MaxMishaps /\ store[i].listed /\ i # cmd.number
  /\ \/ store' = [store EXCEPT ![i] = NoEntry]
     \/ store' = [store EXCEPT ![i].has = {}, ![i].listed = FALSE]
     \/ \E has \in SUBSET store[i].has : store' = [store EXCEPT ![i].has = has]
  /\ kept' = {k \in kept : k.number # i}
  /\ mishaps' = mishaps + 1
  /\ last' = Moved
  /\ UNCHANGED <<tree, change, cmd, converts>>

-----------------------------------------------------------------------------
(* A convert writes the suite's files; --clean removes them first *)

StartConvert ==
  /\ Does("idle") /\ converts < MaxConverts
  /\ \E clean \in BOOLEAN : tree' = IF clean THEN Nothing ELSE tree
  /\ \E t \in Outputs :
       cmd' = [Quiet EXCEPT !.pc = "writing", !.writes = {w \in Files \X Texts : w[2] = t[w[1]] /\ w[2] # Absent}]
  /\ converts' = converts + 1
  /\ last' = Moved
  /\ UNCHANGED <<store, change, mishaps, kept>>

WriteFile(w) ==
  /\ Does("writing") /\ w \in cmd.writes
  /\ tree' = [tree EXCEPT ![w[1]] = w[2]]
  /\ cmd' = [cmd EXCEPT !.writes = @ \ {w}]
  /\ UNCHANGED <<store, change, converts, mishaps, last, kept>>

Written == Does("writing") /\ cmd.writes = {}

\* Nothing is stored, it failed, or --no-reapply-patches.
ConvertEnds ==
  /\ Written
  /\ cmd' = Quiet
  /\ UNCHANGED <<tree, store, change, converts, mishaps, last, kept>>

-----------------------------------------------------------------------------
(* patches.reapply, after a convert or on request *)

FilesOf(i) == store[i].created \cup store[i].modified
Listed == {i \in Ids : store[i].listed}

\* The manifests are read now, the copies when they are put back.
BeginReapply ==
  /\ Does("idle") \/ Written
  /\ Listed # {}
  /\ cmd' = [Quiet EXCEPT !.pc = "applying", !.todo = {p \in Ids \X Files : p[1] \in Listed /\ p[2] \in FilesOf(p[1])}]
  /\ last' = [how |-> "under way", start |-> tree, left |-> {}]
  /\ UNCHANGED <<tree, store, change, converts, mishaps, kept>>

\* git merge-file gave an answer, markers or not.
Answered(base, after, now) == TRUE

\* Each hunk is of one side only, or the same on both: it exits with 0.
Clean(base, after, now) == \A h \in Hunks : base[h] = after[h] \/ now[h] \in {base[h], after[h]}

\* What it prints: for a hunk of both sides no text, but markers.
Merged(base, after, now) ==
  [h \in Hunks |-> IF base[h] = after[h] THEN now[h]
                   ELSE IF now[h] \in {base[h], after[h]} THEN after[h] ELSE Absent]

\* What becomes of one file of one entry.
Verdict(i, f) ==
  LET e == store[i]
      now == tree[f]
      fits == IF f \in e.created THEN now = Absent
              ELSE now # Absent /\ "base" \in e.has /\ Clean(e.base[f], e.after[f], now)
  IN IF f \in cmd.blocked THEN "conflict"
     ELSE IF "after" \notin e.has THEN "refused"
     ELSE IF now = e.after[f] THEN "already"
     ELSE IF fits THEN "applied" ELSE "conflict"

\* A later entry of a file one did not apply to is tried all the same.
BlocksNothing(f) == cmd.blocked

\* "Later changes to the same file were made ON TOP of that one".
Blocks(f) == cmd.blocked \cup {f}

Apply(i, f) ==
  /\ Does("applying") /\ <<i, f>> \in cmd.todo
  /\ \A p \in cmd.todo : i <= p[1]
  /\ cmd' = [cmd EXCEPT !.todo = @ \ {<<i, f>>},
                        !.blocked = IF Verdict(i, f) = "conflict" THEN Blocks(f) ELSE @]
  /\ tree' = IF Verdict(i, f) # "applied" THEN tree
             ELSE [tree EXCEPT ![f] = IF f \in store[i].created THEN store[i].after[f]
                                      ELSE Merged(store[i].base[f], store[i].after[f], @)]
  /\ last' = IF Verdict(i, f) \in {"conflict", "refused"} /\ last.how = "under way"
             THEN [last EXCEPT !.left = @ \cup {<<i, f>>}] ELSE last
  /\ UNCHANGED <<store, change, converts, mishaps, kept>>

EndReapply ==
  /\ Does("applying") /\ cmd.todo = {}
  /\ cmd' = Quiet
  /\ last' = IF last.how = "under way" THEN [last EXCEPT !.how = "ended"] ELSE last
  /\ UNCHANGED <<tree, store, change, converts, mishaps, kept>>

-----------------------------------------------------------------------------

Dies ==
  /\ ~Does("idle") /\ mishaps < MaxMishaps
  /\ cmd' = Quiet
  /\ mishaps' = mishaps + 1
  /\ last' = Moved
  /\ UNCHANGED <<tree, store, change, converts, kept>>

Next ==
  \/ AgentChanges \/ Discard \/ ApproveShowsAgain
  \/ \E n \in Ids : SaveCopies(n) \/ SaveFails(n) \/ Forget(n)
  \/ SaveManifest \/ SaysApproved
  \/ StartConvert \/ (\E w \in Files \X Texts : WriteFile(w)) \/ ConvertEnds
  \/ BeginReapply \/ (\E i \in Ids, f \in Files : Apply(i, f)) \/ EndReapply
  \/ Dies

Spec == Init /\ [][Next]_vars

-----------------------------------------------------------------------------
(* Properties *)

EntryType == [listed : BOOLEAN, has : SUBSET {"base", "after"}, created : SUBSET Files,
              modified : SUBSET Files, base : Trees, after : Trees, made : BOOLEAN]
ChangeType == [waits : BOOLEAN, created : SUBSET Files, modified : SUBSET Files, base : Trees, shown : Trees]
CmdType == [pc : {"idle", "manifest", "review", "writing", "applying"}, writes : SUBSET (Files \X Texts),
            todo : SUBSET (Ids \X Files), blocked : SUBSET Files, number : {0} \cup Ids]
KeptType == [number : Ids, created : SUBSET Files, modified : SUBSET Files, base : Trees, after : Trees]
LastType == [how : {"no", "under way", "ended"}, start : Trees, left : SUBSET (Ids \X Files)]

TypeOK ==
  /\ tree \in Trees
  /\ store \in [Ids -> EntryType]
  /\ change \in ChangeType
  /\ cmd \in CmdType
  /\ converts \in 0..MaxConverts /\ mishaps \in 0..MaxMishaps
  /\ last \in LastType
  /\ kept \subseteq KeptType

\* The entries of a file that a re-apply put back, and what they do to it:
\* a hunk has what the last of them made of it, else what was there.
Edits(i, f, h) == f \in store[i].created \/ store[i].base[f][h] # store[i].after[f][h]
PutBack(f) == {i \in Listed : f \in FilesOf(i) /\ <<i, f>> \notin last.left}
Earlier(i, f, h) == {k \in PutBack(f) : k < i /\ Edits(k, f, h)}
There(i, f) == last.start[f] # Absent \/ \E k \in PutBack(f) : k < i
Before(i, f, h) ==
  IF Earlier(i, f, h) = {} THEN last.start[f][h]
  ELSE store[CHOOSE k \in Earlier(i, f, h) : \A o \in Earlier(i, f, h) : o <= k].after[f][h]

Same(i, f) == There(i, f) /\ \A h \in Hunks : Before(i, f, h) = store[i].after[f][h]
Fits(i, f) ==
  IF f \in store[i].created THEN ~There(i, f) \/ Same(i, f)
  ELSE /\ There(i, f)
       /\ \/ Same(i, f)
          \/ /\ "base" \in store[i].has
             /\ \A h \in Hunks : Edits(i, f, h) => Before(i, f, h) \in {store[i].base[f][h], store[i].after[f][h]}

\* "Nothing is half-applied": of the changes stored for a file, the ones up
\* to the first that does not fit are in it, each hunk as the last of them
\* made it, and every later one is reported; none is left out that fits.
AllOrNothing ==
  last.how = "ended" => \A f \in Files :
    LET whole == {i \in Listed : f \in FilesOf(i) /\ "after" \in store[i].has}
        out == {i \in whole : <<i, f>> \in last.left}
    IN /\ \A i \in whole \ out : Fits(i, f) /\ \A k \in out : i < k
       /\ \A k \in out : (\A o \in out : k <= o) => ~Fits(k, f)
       /\ tree[f] = IF There(MaxEntries + 1, f) THEN [h \in Hunks |-> Before(MaxEntries + 1, f, h)] ELSE Absent

\* What the review calls stored is stored, whole and as it was approved,
\* until a person forgets it: whatever was forgotten, refused or died before.
ApprovedIsKept ==
  \A k \in kept :
    LET e == store[k.number] IN
      /\ e.listed /\ e.has = {"base", "after"}
      /\ e.created = k.created /\ e.modified = k.modified
      /\ e.base = k.base /\ e.after = k.after

=============================================================================
