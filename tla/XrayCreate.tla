------------------------------ MODULE XrayCreate ------------------------------
(***************************************************************************)
(* Create in Xray (tools/agent/xraytests.py), with the two commands that   *)
(* write the same record: Take keys from the story's earlier jobs          *)
(* (storykeys.py) and Update in Xray (xrayupdate.py).                      *)
(*                                                                         *)
(* A job has cases, each with an id and a text; xray-tests.json holds, by  *)
(* id, the key of the test a case is in Jira and the text it was made of.  *)
(* All jobs here are of one story. Every command is a process of its own:  *)
(* it may die between two requests, the answer to a request may be lost,   *)
(* a person deletes, writes and links tests in Jira meanwhile, and another *)
(* job's command runs beside it. Two commands of ONE job do so only when   *)
(* Together holds (the server does not refuse it: they are no EXCLUSIVE).  *)
(*                                                                         *)
(* A text is a title and steps. Titles are compared as they are kept, so a *)
(* title stands for all its spellings; LooksLike says which share words.   *)
(***************************************************************************)
EXTENDS Naturals, FiniteSets

CONSTANTS
  Jobs,
  N,           \* cases of a job: their ids are 1..N, in the design's order
  Texts,       \* <<title, steps>>
  LooksLike,   \* pairs of titles that share most of their words
  Designs,     \* what Design makes of the story: functions from ids to texts or NoText
  MaxKey,      \* bound: issues that can be made, keys are 1..MaxKey in order
  MaxEvents,   \* bound: commands that die, requests that fail, and what people do, in all
  Together,    \* a job's second command starts while the first works
  NoText, NoSteps

Ids == 1..N
Keys == 1..MaxKey

ASSUME XrayAssumption ==
  /\ N \in Nat /\ MaxKey \in Nat /\ MaxEvents \in Nat
  /\ Together \in BOOLEAN
  /\ NoText \notin Texts
  /\ Designs \subseteq [Ids -> Texts \cup {NoText}]

VARIABLES
  jira,      \* per key: [is, linked, text, whole], whole once all its steps are there
  design,    \* design.json, of approved cases
  kept,      \* xray-tests.json: per id [key, title, text, how], or NoEntry: the
             \* title as it was when the key was written, the text as last sent
  result,    \* xray-result.json: what it says of the last Create
  create,    \* a Create under way
  update,    \* an Update in Xray under way: the record and the cases as it read them
  sent,      \* (history) the issues a job's last Create made
  events     \* counted for the bound

vars == <<jira, design, kept, result, create, update, sent, events>>
others == <<sent, events>>

Title(text) == text[1]
StepsOf(text) == text[2]

NoEntry == [key |-> 0, title |-> NoText, text |-> NoText, how |-> "none"]
Entry(key, text, how) == [key |-> key, title |-> Title(text), text |-> text, how |-> how]
Free == [is |-> "free", linked |-> FALSE, text |-> NoText, whole |-> TRUE]
Nobody == [i \in Ids |-> 0]

\* cases, kept: the cases and the record as read; adopt, anyway: the person's word;
\* linked: read from the story; known: (history) all there was; todo: to create; found: to
\* take; now: the case being created.
Quiet == [pc |-> "idle", cases |-> [i \in Ids |-> NoText], kept |-> [i \in Ids |-> NoEntry],
          adopt |-> Nobody, anyway |-> {}, linked |-> {}, known |-> {}, todo |-> {}, found |-> Nobody,
          held |-> Nobody, now |-> 0]

\* held: case -> the test it looks like, as the page asks; cases: those of a run that ended well.
Unsaid == [says |-> "nothing", held |-> Nobody, cases |-> [i \in Ids |-> NoText]]

Init ==
  /\ jira = [k \in Keys |-> Free]
  /\ design \in [Jobs -> Designs]
  /\ kept = [j \in Jobs |-> [i \in Ids |-> NoEntry]]
  /\ result = [j \in Jobs |-> Unsaid]
  /\ create = [j \in Jobs |-> Quiet]
  /\ update = [j \in Jobs |-> {}]
  /\ sent = [j \in Jobs |-> {}]
  /\ events = 0

Least(S) == CHOOSE x \in S : \A y \in S : x <= y
CasesOf(cases) == {i \in Ids : cases[i] # NoText}
HeldBy(entries) == {entries[i].key : i \in Ids} \ {0}
Live(k) == k # 0 /\ jira[k].is = "live"
Event == events < MaxEvents /\ events' = events + 1
Idle(j) == Together \/ (create[j].pc = "idle" /\ update[j] = {})

\* Each case in the design's order takes the first it is offered that none has taken.
InOrder(cases, offers) ==
  LET f[n \in 0..N] ==
        IF n = 0 THEN Nobody
        ELSE LET free == IF n \in cases THEN offers[n] \ {f[n - 1][i] : i \in Ids} ELSE {}
             IN IF free = {} THEN f[n - 1] ELSE [f[n - 1] EXCEPT ![n] = Least(free)]
  IN f[N]

-----------------------------------------------------------------------------
(* create: the job's own record *)

\* Only an entry under the case's own id is known again: a case numbered anew is new.
ByTextHere(entries, cases) ==
  [i \in Ids |-> IF i \in CasesOf(cases) /\ entries[i].key # 0 /\ entries[i].text = cases[i] THEN i ELSE 0]

\* The entry a case had, under whatever id: by its text first...
ByText(entries, cases) ==
  LET Same(i) == {k \in Ids : entries[k].key # 0 /\ entries[k].text = cases[i]}
  IN InOrder(CasesOf(cases), [i \in Ids |-> IF i \in Same(i) THEN {i} ELSE IF Same(i) = {} THEN {} ELSE {Least(Same(i))}])

\* The entry of one case read while another's was moved already: one key for two cases.
AssignedAnyway(entries, cases) ==
  LET text == ByText(entries, cases)
  IN [i \in Ids |-> IF text[i] # 0 THEN text[i]
                    ELSE IF i \in CasesOf(cases) /\ entries[i].key # 0 THEN i ELSE 0]

\* ...then the same id with another text, unless another case has it.
Assigned(entries, cases) ==
  LET text == ByText(entries, cases)
  IN [i \in Ids |-> IF text[i] # 0 THEN text[i]
                    ELSE IF i \in CasesOf(cases) /\ entries[i].key # 0 /\ i \notin {text[k] : k \in Ids} THEN i
                    ELSE 0]

\* The entry that moved leaves its id and its text behind.
MovedHalf(entries, cases) ==
  LET to == Assigned(entries, cases)
  IN [i \in Ids |-> IF to[i] # 0 THEN entries[to[i]]
                    ELSE IF i \in {to[k] : k \in Ids} THEN [entries[i] EXCEPT !.key = 0] ELSE entries[i]]

\* The record once every entry is under its case's id.
Moved(entries, cases) ==
  LET to == Assigned(entries, cases)
  IN [i \in Ids |-> IF to[i] # 0 THEN entries[to[i]]
                    ELSE IF i \in {to[k] : k \in Ids} THEN NoEntry ELSE entries[i]]

-----------------------------------------------------------------------------
(* create: what the story has already *)

\* Other jobs' tests (storykeys.candidates): their title as kept, their steps as designed.
Theirs(j, without) ==
  {[key |-> kept[p[1]][p[2]].key, title |-> kept[p[1]][p[2]].title,
    steps |-> StepsOf(IF design[p[1]][p[2]] = NoText THEN kept[p[1]][p[2]].text ELSE design[p[1]][p[2]])] :
     p \in {q \in (Jobs \ {j}) \X Ids : kept[q[1]][q[2]].key \notin without \cup {0}}}

\* The linked tests no case of the job holds: their titles as the story named them,
\* their steps as they are read now.
Linked(c) == {[key |-> p[1], title |-> p[2],
               steps |-> IF Live(p[1]) /\ jira[p[1]].whole THEN StepsOf(jira[p[1]].text) ELSE NoSteps] :
                p \in {q \in c.linked : q[1] \notin HeldBy(c.kept)}}

\* match_linked: the same title, else the same steps; a test is one case's.
Same(cases, todo, tests) ==
  LET title == InOrder(todo, [i \in Ids |-> {t.key : t \in {u \in tests : u.title = Title(cases[i])}}])
      left == {u \in tests : u.key \notin {title[i] : i \in Ids}}
      steps == InOrder({i \in todo : title[i] = 0},
                       [i \in Ids |-> {t.key : t \in {u \in left : u.steps = StepsOf(cases[i])}}])
  IN [i \in Ids |-> IF title[i] # 0 THEN title[i] ELSE steps[i]]

\* A title that looks like one no case took.
Near(cases, todo, tests, same) ==
  [i \in Ids |->
     LET alike == {t.key : t \in {u \in tests : /\ u.key \notin {same[k] : k \in Ids}
                                               /\ <<Title(cases[i]), u.title>> \in LooksLike}}
     IN IF i \in todo /\ same[i] = 0 /\ alike # {} THEN Least(alike) ELSE 0]

-----------------------------------------------------------------------------
(* The steps of Create *)

Goes(j, c) == create' = [create EXCEPT ![j] = c]

\* start() takes the last result away; the story is read, then the record, which
\* is moved and written. Of the cases the last run held, the person says which is
\* the test it looks like (is) and which is a new one (new).
Start(j, is, new) ==
  /\ create[j].pc = "idle" /\ Idle(j) /\ CasesOf(design[j]) # {}
  /\ is \cap new = {} /\ \A i \in is \cup new : result[j].held[i] # 0
  /\ LET entries == Moved(kept[j], design[j])
     IN /\ Goes(j, [Quiet EXCEPT !.pc = "match", !.cases = design[j], !.kept = entries, !.anyway = new,
                      !.adopt = [i \in Ids |-> IF i \in is THEN result[j].held[i] ELSE 0],
                      !.linked = {<<k, Title(jira[k].text)>> : k \in {l \in Keys : Live(l) /\ jira[l].linked}}])
        /\ kept' = [kept EXCEPT ![j] = entries]
  /\ result' = [result EXCEPT ![j] = Unsaid]
  /\ sent' = [sent EXCEPT ![j] = {}]
  /\ UNCHANGED <<jira, design, update, events>>

\* A key that Jira no longer has is no key: its case is to be created again.
Todo(c) == {i \in CasesOf(c.cases) : ~Live(c.kept[i].key)}

\* Only the story's links are read: a second set beside an earlier job's.
OthersLinked(j) == Linked(create[j])

\* What no case of the job holds: linked to the story, or an earlier job's.
Others(j) == Linked(create[j])
             \cup Theirs(j, HeldBy(create[j].kept) \cup {p[1] : p \in create[j].linked})

\* (history) The tests no case of the job holds that have the title of a case to
\* create: those the story lists, and those of other jobs' records it does not.
KnownThen(j, todo) ==
  LET listed == create[j].linked
      earlier == {<<e.key, e.title>> :
                    e \in {kept[o][i] : o \in Jobs \ {j}, i \in Ids} \ {NoEntry}}
  IN {p \in listed \cup {q \in earlier : \A l \in listed : l[1] # q[1]} :
        /\ p[1] \notin HeldBy(create[j].kept)
        /\ \E i \in todo : p[2] = Title(create[j].cases[i])}

\* Each kept key is asked for, and what is left to create is matched.
Match(j) ==
  /\ create[j].pc = "match"
  /\ LET c == create[j]
         todo == Todo(c)
         tests == Others(j)
         keys == {t.key : t \in tests}
         word == {i \in todo : c.adopt[i] # 0}
         open == todo \ (c.anyway \cup word)
         same == Same(c.cases, open, tests)
         near == Near(c.cases, open, tests, same)
     IN IF \E i \in word : c.adopt[i] \notin keys
        THEN /\ Goes(j, Quiet)
             /\ result' = [result EXCEPT ![j].says = "refused"]
        ELSE /\ Goes(j, [c EXCEPT !.pc = "take", !.held = near, !.linked = {},
                           !.known = KnownThen(j, todo),
                           !.found = [i \in Ids |-> IF i \in word THEN c.adopt[i] ELSE same[i]],
                           !.todo = {i \in todo : i \in c.anyway \/ (c.adopt[i] = 0 /\ same[i] = 0 /\ near[i] = 0)}])
             /\ UNCHANGED result
  /\ UNCHANGED <<jira, design, kept, update, others>>

\* Nothing is said before the first request.
AttemptSilent(c) == "nothing"

\* on_attempt: what the page is left with if the command does not finish.
Attempt(c) == IF c.todo = {} THEN "nothing" ELSE "unknown"

\* take: the key is written down, one case at a time.
Take(j) ==
  /\ create[j].pc = "take"
  /\ LET c == create[j]
         waiting == {i \in Ids : c.found[i] # 0}
         i == Least(waiting)
         entries == [c.kept EXCEPT ![i] = Entry(c.found[i], c.cases[i],
                       IF c.adopt[i] # 0 THEN "chosen" ELSE "found")]
     IN IF waiting = {}
        THEN /\ Goes(j, [c EXCEPT !.pc = "post"])
             /\ result' = [result EXCEPT ![j].says = Attempt(c)]
             /\ UNCHANGED kept
        ELSE /\ Goes(j, [c EXCEPT !.kept = entries, !.found[i] = 0])
             /\ kept' = [kept EXCEPT ![j] = entries]
             /\ UNCHANGED result
  /\ UNCHANGED <<jira, design, update, others>>

\* The end of a run, and what it tells the page.
Ends(j, says) ==
  /\ Goes(j, Quiet)
  /\ result' = [result EXCEPT ![j] = [says |-> says, held |-> create[j].held,
                       cases |-> IF says = "ok" THEN create[j].cases ELSE [i \in Ids |-> NoText]]]

Fresh == Least({k \in Keys : jira[k].is = "free"})
CanMake == \E k \in Keys : jira[k].is = "free"
Makes(j, text) ==
  /\ jira' = [jira EXCEPT ![Fresh] = [is |-> "live", linked |-> FALSE, text |-> text, whole |-> FALSE]]
  /\ sent' = [sent EXCEPT ![j] = @ \cup {Fresh}]

\* POST /issue, of the next case; its key is written down the moment it is known
\* (a death between the two is the one of Dies where the request arrived).
Recorded(c, i, key) == [c.kept EXCEPT ![i] = Entry(key, c.cases[i], "created")]

Post(j) ==
  /\ create[j].pc = "post" /\ create[j].todo # {} /\ CanMake
  /\ LET c == create[j]
         i == Least(c.todo)
         entries == Recorded(c, i, Fresh)
     IN /\ Makes(j, c.cases[i])
        /\ Goes(j, [c EXCEPT !.pc = "steps", !.kept = entries, !.now = i, !.todo = @ \ {i}])
        /\ kept' = [kept EXCEPT ![j] = entries]
  /\ UNCHANGED <<design, result, update, events>>

\* The refused case is left out and the rest is sent: the run ends well without it.
PostFailsGoesOn(j) ==
  /\ create[j].pc = "post" /\ create[j].todo # {} /\ Event
  /\ Goes(j, [create[j] EXCEPT !.todo = @ \ {Least(@)}])
  /\ UNCHANGED <<jira, design, kept, result, update, sent>>

\* Jira refuses, or its answer is lost on the way: nothing more is tried.
PostFails(j) ==
  /\ create[j].pc = "post" /\ create[j].todo # {} /\ Event
  /\ \/ UNCHANGED <<jira, sent>>
     \/ CanMake /\ Makes(j, create[j].cases[Least(create[j].todo)])
  /\ Ends(j, "failed")
  /\ UNCHANGED <<design, kept, update>>

\* Its steps and its link, each of which Jira may refuse; the record is written once more.
StepsAndLink(j, steps, link) ==
  /\ create[j].pc = "steps"
  /\ IF steps /\ link THEN UNCHANGED events ELSE Event
  /\ LET key == create[j].kept[create[j].now].key
     IN jira' = [jira EXCEPT ![key].whole = steps, ![key].linked = @ \/ link]
  /\ kept' = [kept EXCEPT ![j] = create[j].kept]
  /\ Goes(j, [create[j] EXCEPT !.pc = "post", !.now = 0])
  /\ UNCHANGED <<design, result, update, sent>>

\* Jira does not answer a GET: nothing was sent.
ReadFails(j) ==
  /\ create[j].pc = "match" /\ Event
  /\ Ends(j, "failed")
  /\ UNCHANGED <<jira, design, kept, update, sent>>

Finish(j) ==
  /\ create[j].pc = "post" /\ create[j].todo = {}
  /\ Ends(j, "ok")
  /\ UNCHANGED <<jira, design, kept, update, others>>

\* Stop, or the end of the machine: whatever was being sent may have arrived.
Dies(j) ==
  /\ create[j].pc # "idle" /\ Event
  /\ Goes(j, Quiet)
  /\ \/ UNCHANGED <<jira, sent>>
     \/ /\ create[j].pc = "post" /\ create[j].todo # {} /\ CanMake
        /\ Makes(j, create[j].cases[Least(create[j].todo)])
  /\ UNCHANGED <<design, kept, result, update>>

-----------------------------------------------------------------------------
(* storykeys.take: the same rule over the other jobs' records alone *)

KeysTake(j) ==
  /\ Idle(j)
  /\ LET todo == {i \in CasesOf(design[j]) : kept[j][i].key = 0}
         same == Same(design[j], todo, Theirs(j, HeldBy(kept[j])))
     IN /\ \E i \in todo : same[i] # 0
        /\ kept' = [kept EXCEPT ![j] = [i \in Ids |-> IF i \in todo /\ same[i] # 0
                      THEN Entry(same[i], design[j][i], "found") ELSE kept[j][i]]]
  /\ UNCHANGED <<jira, design, result, create, update, others>>

-----------------------------------------------------------------------------
(* xrayupdate.apply: a case's text is sent over its test *)

\* The cases whose test is not as they are.
Differing(entries, cases) ==
  {i \in CasesOf(cases) : /\ Live(entries[i].key)
                          /\ jira[entries[i].key].text = cases[i] => ~jira[entries[i].key].whole}

UpdateReads(j) ==
  /\ update[j] = {} /\ Idle(j) /\ Differing(kept[j], design[j]) # {}
  /\ update' = [update EXCEPT ![j] = {[kept |-> kept[j], cases |-> design[j]]}]
  /\ UNCHANGED <<jira, design, kept, result, create, others>>

\* The entry keeps the title it had.
Sent(u, i) ==
  LET e == u.kept[i]
  IN [u.kept EXCEPT ![i] = [key |-> e.key, title |-> e.title, text |-> u.cases[i], how |-> e.how]]

UpdateSends(j, i) ==
  \E u \in update[j] :
    LET entries == Sent(u, i)
    IN /\ i \in Differing(u.kept, u.cases)
       /\ jira' = [jira EXCEPT ![u.kept[i].key].text = u.cases[i], ![u.kept[i].key].whole = TRUE]
       /\ kept' = [kept EXCEPT ![j] = entries]
       /\ update' = [update EXCEPT ![j] = {[u EXCEPT !.kept = entries]}]
       /\ UNCHANGED <<design, result, create, others>>

\* Its title is sent, and one of its steps is refused: the record is as it was.
UpdateFails(j, i) ==
  \E u \in update[j] :
    /\ i \in Differing(u.kept, u.cases) /\ Event
    /\ jira' = [jira EXCEPT ![u.kept[i].key].text = u.cases[i], ![u.kept[i].key].whole = FALSE]
    /\ UNCHANGED <<design, kept, result, create, update, sent>>

\* Nothing is left to send, the rest is skipped, or it dies.
UpdateEnds(j) ==
  /\ update[j] # {}
  /\ update' = [update EXCEPT ![j] = {}]
  /\ UNCHANGED <<jira, design, kept, result, create, others>>

-----------------------------------------------------------------------------
(* People *)

\* Design again; or an approval given or taken back.
Redesign(j) ==
  /\ Event
  /\ \E d \in Designs \ {design[j]} : design' = [design EXCEPT ![j] = d]
  /\ UNCHANGED <<jira, kept, result, create, update, sent>>

Deletes(k) ==
  /\ Live(k) /\ Event
  /\ jira' = [jira EXCEPT ![k] = [Free EXCEPT !.is = "gone"]]
  /\ UNCHANGED <<design, kept, result, create, update, sent>>

\* A test written by hand, or one found without a link, is linked to the story.
WritesByHand(text) ==
  /\ CanMake /\ Event
  /\ jira' = [jira EXCEPT ![Fresh] = [is |-> "live", linked |-> TRUE, text |-> text, whole |-> TRUE]]
  /\ UNCHANGED <<design, kept, result, create, update, sent>>

Links(k) ==
  /\ Live(k) /\ ~jira[k].linked /\ Event
  /\ jira' = [jira EXCEPT ![k].linked = TRUE]
  /\ UNCHANGED <<design, kept, result, create, update, sent>>

CreateStep(j) ==
  \/ Match(j) \/ Take(j) \/ Post(j) \/ PostFails(j) \/ ReadFails(j) \/ Finish(j) \/ Dies(j)
  \/ \E steps, link \in BOOLEAN : StepsAndLink(j, steps, link)

Next ==
  \/ \E j \in Jobs :
       \/ \E is, new \in SUBSET Ids : Start(j, is, new)
       \/ CreateStep(j)
       \/ KeysTake(j) \/ UpdateReads(j) \/ UpdateEnds(j) \/ \E i \in Ids : UpdateSends(j, i) \/ UpdateFails(j, i)
       \/ Redesign(j)
  \/ \E k \in Keys : Deletes(k) \/ Links(k)
  \/ \E text \in Texts : WritesByHand(text)

Spec == Init /\ [][Next]_vars

-----------------------------------------------------------------------------
(* Properties *)

Titles == {Title(text) : text \in Texts}
Entries == {NoEntry} \cup [key : Keys, title : Titles, text : Texts, how : {"created", "found", "chosen"}]
Records == [Ids -> Entries]
CaseMap == [Ids -> Keys \cup {0}]
Known == Keys \X Titles
CreateType == [pc : {"idle", "match", "take", "post", "steps"},
               cases : [Ids -> Texts \cup {NoText}], kept : Records, adopt : CaseMap, anyway : SUBSET Ids,
               linked : SUBSET Known, known : SUBSET Known, todo : SUBSET Ids, found : CaseMap, held : CaseMap,
               now : Ids \cup {0}]

TypeOK ==
  /\ jira \in [Keys -> [is : {"free", "live", "gone"}, linked : BOOLEAN, text : Texts \cup {NoText}, whole : BOOLEAN]]
  /\ design \in [Jobs -> Designs]
  /\ kept \in [Jobs -> Records]
  /\ result \in [Jobs -> [says : {"nothing", "unknown", "refused", "failed", "ok"}, held : CaseMap,
                          cases : [Ids -> Texts \cup {NoText}]]]
  /\ create \in [Jobs -> CreateType]
  /\ \A j \in Jobs : update[j] \subseteq [kept : Records, cases : [Ids -> Texts \cup {NoText}]] /\ Cardinality(update[j]) <= 1
  /\ sent \in [Jobs -> SUBSET Keys]
  /\ events \in 0..MaxEvents

\* "Moving one entry while reading the next handed one key to two cases": two
\* cases of a job are never one test, unless a person said so of one of them.
KeysApart ==
  \A j \in Jobs : \A i, k \in Ids :
    i # k /\ kept[j][i].key # 0 /\ kept[j][i].key = kept[j][k].key
    => "chosen" \in {kept[j][i].how, kept[j][k].how}

\* "A case that already has a key is not created again": a case is sent to Jira
\* only when its own test was deleted there, or its job has no live test of its
\* text, under whatever id, whatever Create, Take and Update did since.
NotCreatedAgain ==
  [][\A j \in Jobs : create'[j].pc = "steps" /\ create[j].pc = "post" =>
       \/ kept[j][create'[j].now].key # 0
       \/ ~ \E i \in Ids : kept[j][i].text = create[j].cases[create'[j].now] /\ Live(kept[j][i].key)]_vars

\* "So a second job does not make a second set": a test of the title that the
\* story or an earlier job had when Create looked is some case's of this job
\* before another one is made, unless a person said that the case is a new one.
NoSecondSet ==
  [][\A j \in Jobs : create'[j].pc = "steps" /\ create[j].pc = "post" =>
       \A p \in create[j].known :
         p[2] = Title(create[j].cases[create'[j].now]) =>
           p[1] \in HeldBy(kept[j]) \/ create'[j].now \in create[j].anyway]_vars

\* "The next run creates only what has none": a Create that ended well leaves
\* every case it was given with a key in the record, or held for the person.
DoneMeansKept ==
  \A j \in Jobs : result[j].says = "ok" =>
    \A i \in CasesOf(result[j].cases) : kept[j][i].key # 0 \/ result[j].held[i] # 0

\* "A run that dies half way": a test that a Create made and the record does not
\* hold -- it died, or Jira's answer was lost -- is never one the page is silent of.
StrayIsSaid ==
  \A j \in Jobs : \A k \in sent[j] :
    Live(k) /\ k \notin HeldBy(kept[j]) => result[j].says \in {"unknown", "failed"}

=============================================================================
