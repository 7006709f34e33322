---------------------------- MODULE ConsoleProofs ---------------------------
(***************************************************************************)
(* What the two web consoles promise, for every number of rows, filters,   *)
(* openings, writes, jobs, passwords and organizations.  The pages rest on *)
(* one inductive invariant of the query cache and the calls, and on one of *)
(* the dialogs they seed; the export, the sign-in, the calendar and the    *)
(* tenant context of the backend have each an invariant of their own.      *)
(***************************************************************************)
EXTENDS WebConsole, TLAPS, FiniteSetTheorems

(* The inductive invariants *)

Answers == [for: Filters, list: List]

\* The variables of a page have their types, and its entries are found by its filter.
Typed ==
    /\ mounted \in BOOLEAN /\ filter \in Filters /\ Nothing \in Filters
    /\ server \in List
    /\ cache \in [Filters -> QueryOf(Answers, Filters)]
    /\ dialog \in [DOMAIN dialog -> DialogState]
    /\ confirm \in [DOMAIN confirm -> Rows \cup {Closed}]
    /\ calls \subseteq Call
    /\ told \in 0..MaxWrites

\* What an entry asked for, was answered or holds is of its own key.
Keyed ==
    \A k \in Filters :
        /\ cache[k].flight # "none" => cache[k].want = k
        /\ cache[k].got # NoData => cache[k].got.for = k
        /\ cache[k].data # NoData => cache[k].data.for = k

\* The query of the page is enabled.
InUse ==
    /\ mounted /\ page # "balances"
    /\ page = "types" => extra = TRUE

\* Nothing is told that was not written, an answer on its way holds what was told
\* before it was read, and so does the entry in use.
Told ==
    /\ told <= server.version
    /\ \A c \in calls : c.wrote <= server.version
    /\ \A k \in Filters :
          cache[k].flight = "read" =>
              /\ cache[k].got \in Answers
              /\ ~cache[k].joined => told <= cache[k].got.list.version
    /\ InUse /\ Idle(Entry) /\ Shown(Entry) /\ ~Entry.joined =>
          told <= Entry.data.list.version

Core == Typed /\ Keyed /\ Told

\* What a step leaves as it is: the keys of the cache, and which dialogs there are.
Shape ==
    /\ Filters' = Filters
    /\ DOMAIN dialog' = DOMAIN dialog /\ DOMAIN confirm' = DOMAIN confirm

\* Dialog d was seeded for the row it shows, with nothing typed but in this opening,
\* and so were the calls `op' that it sent.
Seeded(d, op) ==
    /\ d \in DOMAIN dialog
    /\ dialog[d].lastKey = dialog[d].target
    /\ dialog[d].typed \in {0, dialog[d].session}
    /\ \A c \in calls : c.op = op => c.form = c.target /\ c.typed \in {0, c.session}

\* The reasons used are of openings that are over, and the one in the field or under
\* way is none of them.
Reasons ==
    /\ "reject" \in DOMAIN dialog
    /\ extra \subseteq 1..MaxOpens
    /\ dialog["reject"].typed <= dialog["reject"].session
    /\ dialog["reject"].typed \notin extra
    /\ \A x \in extra : /\ x <= dialog["reject"].session
                        /\ dialog["reject"].target # Closed => x < dialog["reject"].session
    /\ \A c \in calls : c.op = "reject" =>
          /\ c.typed # 0 /\ c.typed <= dialog["reject"].session
          /\ c.live => c.typed \notin extra
    /\ \A c, e \in calls : c.op = "reject" /\ e.op = "reject" /\ c.live /\ e.live => c = e

\* A password is reset of an employee there was.
Resets == \A c \in calls : c.op = "reset" => c.target \in Rows

\* The position of an open branch form arrived while it was open, and so did those that
\* were sent with one.
Positions ==
    /\ dialog["branch"].target # Closed =>
          dialog["branch"].located \in {0, dialog["branch"].session}
    /\ PositionIsNew

\* What each page keeps beside its list.
Kept ==
    /\ page = "plans" => Seeded("plan", "savePlan") /\ extra = Nothing
    /\ page = "subscriptions" => "assign" \in DOMAIN dialog /\ extra \in BOOLEAN
    /\ page = "organizations" =>
          Seeded("organization", "saveOrganization") /\ "suspend" \in DOMAIN confirm /\ extra = Nothing
    /\ page = "departments" =>
          Seeded("department", "saveDepartment") /\ "delete" \in DOMAIN confirm /\ extra = Nothing
    /\ page = "employees" =>
          /\ Seeded("employee", "saveEmployee") /\ {"reset", "terminate"} \subseteq DOMAIN confirm
          /\ extra \in Rows \cup {Closed}
          /\ Resets
    /\ page = "branches" =>
          /\ Seeded("branch", "saveBranch") /\ "delete" \in DOMAIN confirm
          /\ extra = Nothing /\ Positions
    /\ page = "shifts" =>
          Seeded("shift", "saveShift") /\ "delete" \in DOMAIN confirm /\ extra = Nothing
    /\ page \in {"requests", "filtered"} => Reasons
    /\ page = "types" =>
          Seeded("type", "saveType") /\ extra \in BOOLEAN /\ (extra = TRUE => mounted)
    /\ page \in {"rule", "platform"} => extra \in Form /\ SavedIsTrue
    /\ page \in {"balances", "records", "notifications", "reports", "day", "badges",
                 "tenants", "signIn"} => extra = Nothing

Pages == {"plans", "subscriptions", "organizations", "departments", "employees", "branches",
          "shifts", "requests", "filtered", "balances", "types", "rule", "platform",
          "records", "notifications", "reports", "day", "badges", "tenants", "signIn"}

PagesInv ==
    /\ page \in Pages
    /\ Filters = IF WithFilter THEN Choices ELSE {Nothing}
    /\ Core /\ Kept

-----------------------------------------------------------------------------
\* A row of an export job, and what it stored is of its status.
JobRow ==
    [status: Export!Statuses \cup {"none"}, stored: BOOLEAN,
     worker: {"none", "queued", "building", "uploaded", "gone", "dead"}]
Sound(row) ==
    /\ row.status = "PROCESSING" => row.worker \in {"building", "uploaded", "dead"}
    /\ row.status = "COMPLETED" \/ row.worker = "uploaded" => row.stored
    /\ row.worker # "none" \/ row.stored => row.status # "none"

\* A job that anyone knows of was made, and polled only once it had been asked for.
Acquainted ==
    /\ \A j \in Export!Jobs :
          /\ request[j].stage = "sent" => jobs[j].status = "none"
          /\ request[j].stage = "answered" => jobs[j].status # "none"
          /\ interval[j] # "none" => jobs[j].status # "none" /\ request[j].stage = "none"
    /\ timer # 0 => interval[timer] = "page"
    /\ \A p \in polls : /\ jobs[p.job].status # "none"
                        /\ p.answer = "COMPLETED" => jobs[p.job].stored

\* The page waits for what it asked for, or shows a late answer, and links to files.
Asking == \E j \in Export!Jobs : request[j].live /\ request[j].stage # "none"
Waiting ==
    /\ export.status \in {"PENDING", "PROCESSING"} /\ ~export.late => timer # 0 \/ Asking
    /\ export.status = "COMPLETED" => export.job # 0 /\ jobs[export.job].stored

ExportInv ==
    /\ Export!ExportTypeOK
    /\ \A j \in Export!Jobs : Sound(jobs[j])
    /\ Acquainted
    /\ Waiting

\* A password counts as temporary only until another is set: one that opened the
\* console, or is about to, was not the temporary one.
NotTemporary(password) == account.must => account.password # password

\* A form that is answered "ok" tells of a password that the account had, and whose
\* owner may enter.
FormSound(form) ==
    /\ form.given < next /\ form.fresh < next /\ form.of < next
    /\ form.stage = "ok" => NotTemporary(form.of) /\ form.of \in had

SignInInv ==
    /\ SignIn!SignInTypeOK
    /\ 0 \in had /\ had \cup {vouched} \subseteq 0..next - 1
    /\ \A form \in SignIn!Forms : FormSound(posted[form])
    /\ signedIn /\ ~mustChangePassword => NotTemporary(vouched)
    /\ done \in had /\ links \subseteq had

DayInv ==
    page = "day" =>
        /\ in \in 0..DayLength - 1 /\ out \in 0..2 * DayLength
        /\ shift \in Shifts \cup {NoShift} /\ threshold \in Thresholds

BadgesInv ==
    /\ clock \in [hour: Int, zone: Int, expiry: Int, swept: BOOLEAN]
    /\ clock.zone \in -12..14

-----------------------------------------------------------------------------
(* The query cache *)

\* A fetch that was asked for is under way, and what was shown stays.
LEMMA AskedEntry ==
  ASSUME NEW A, NEW W, NEW q \in QueryOf(A, W), NEW want \in W
  PROVE  /\ Asked(q, want) \in QueryOf(A, W)
         /\ Asked(q, want).flight = "asked" /\ Asked(q, want).want = want
         /\ Asked(q, want).data = q.data /\ Asked(q, want).got = NoData
BY DEF Asked, QueryOf

\* An entry that comes into use has a fetch under way: its own, or the one it shares.
LEMMA ObservedEntry ==
  ASSUME NEW A, NEW W, NEW q \in QueryOf(A, W), NEW want \in W
  PROVE  /\ Observed(q, want) \in QueryOf(A, W)
         /\ ~Idle(Observed(q, want)) /\ Observed(q, want).data = q.data
         /\ \/ Observed(q, want) = q
            \/ /\ Observed(q, want).flight = "asked" /\ Observed(q, want).want = want
               /\ Observed(q, want).got = NoData
BY AskedEntry DEF Observed, Idle

\* An invalidation leaves no answer under way that would count as fresh, and an entry
\* in use is not at rest after it.
LEMMA InvalidatedEntry ==
  ASSUME NEW A, NEW W, NEW q \in QueryOf(A, W), NEW want \in W, NEW used \in BOOLEAN
  PROVE  /\ Invalidated(q, used, want) \in QueryOf(A, W)
         /\ Invalidated(q, used, want).data = q.data
         /\ used => ~Idle(Invalidated(q, used, want))
         /\ \/ /\ Invalidated(q, used, want).flight = "asked"
               /\ Invalidated(q, used, want).want = want /\ used
               /\ Invalidated(q, used, want).got = NoData
            \/ /\ Invalidated(q, used, want).flight = q.flight
               /\ Invalidated(q, used, want).want = q.want
               /\ Invalidated(q, used, want).got = q.got
               /\ ~Idle(q) => Invalidated(q, used, want).joined
<1>1. CASE used /\ (Idle(q) \/ q.data # NoData)
  BY <1>1, AskedEntry DEF Invalidated, Idle
<1>2. CASE ~(used /\ (Idle(q) \/ q.data # NoData))
  <2>1. Invalidated(q, used, want) = [q EXCEPT !.joined = ~Idle(q)]
    BY <1>2 DEF Invalidated
  <2> QED
    BY <1>2, <2>1 DEF QueryOf, Idle
<1> QED
  BY <1>1, <1>2

\* The server reads, the answer is stored, or the fetch fails.
LEMMA AnsweredEntry ==
  ASSUME NEW A, NEW W, NEW q \in QueryOf(A, W), NEW answer \in A
  PROVE  /\ Read(q, answer) \in QueryOf(A, W)
         /\ Read(q, answer).flight = "read" /\ Read(q, answer).got = answer
         /\ Read(q, answer).want = q.want /\ Read(q, answer).data = q.data
BY DEF Read, QueryOf

\* What was read is what is held.
LEMMA StoredEntry ==
  ASSUME NEW A, NEW W, NEW q \in QueryOf(A, W), NewQuery \in QueryOf(A, W)
  PROVE  /\ Stored(q) \in QueryOf(A, W)
         /\ Stored(q).flight = "none" /\ Stored(q).got = NoData
         /\ Stored(q).data = q.got /\ Stored(q).joined = q.joined
BY DEF Stored, NewQuery, QueryOf

\* A fetch that failed leaves what was shown, under an error.
LEMMA FailedEntry ==
  ASSUME NEW A, NEW W, NEW q \in QueryOf(A, W), NewQuery \in QueryOf(A, W)
  PROVE  /\ Failed(q) \in QueryOf(A, W)
         /\ Failed(q).flight = "none" /\ Failed(q).failed
         /\ Failed(q).data = q.data /\ Failed(q).got = q.got
BY DEF Failed, QueryOf, NewQuery

-----------------------------------------------------------------------------
(* Steps of the query: each keeps what the entries and the calls stand for *)

\* The server reads one list for one filter.
LEMMA LookupKeeps ==
  ASSUME Core, page' = page, NEW k \in Filters, Lookup(k), UNCHANGED <<mounted, filter, extra>>
  PROVE  Core' /\ Shape
<1> DEFINE answer == [for |-> cache[k].want, list |-> server]
<1>1. cache[k] \in QueryOf(Answers, Filters) /\ cache[k].want = k /\ answer \in Answers
  BY DEF Core, Typed, Keyed, Lookup, Answers
<1>2. PICK q : q = Read(cache[k], answer)
  OBVIOUS
<1>3. /\ q \in QueryOf(Answers, Filters) /\ q.flight = "read" /\ q.got = answer
      /\ q.want = k /\ q.data = cache[k].data
  BY <1>1, <1>2, AnsweredEntry
<1>4. cache' = [cache EXCEPT ![k] = q] /\ Filters' = Filters
  BY <1>2 DEF Lookup, Core, Typed, Filters
<1>5. Answers' = Answers
  BY <1>4 DEF Answers
<1>6. Typed'
  BY <1>3, <1>4, <1>5 DEF Core, Typed, Lookup, ui
<1>7. q.got \in Answers /\ q.got.for = k /\ q.got.list = server
  BY <1>1, <1>3
<1>8. Keyed'
  BY <1>3, <1>4, <1>7 DEF Core, Typed, Keyed
<1>9. Told'
  <2>1. told' <= server'.version /\ \A c \in calls' : c.wrote <= server'.version
    BY DEF Core, Told, Lookup
  <2>2. ASSUME NEW i \in Filters, cache'[i].flight = "read"
        PROVE  /\ cache'[i].got \in Answers
               /\ ~cache'[i].joined => told' <= cache'[i].got.list.version
    BY <1>3, <1>4, <1>5, <1>7, <2>2 DEF Core, Typed, Told, Lookup
  <2>3. InUse' /\ Idle(Entry)' /\ Shown(Entry)' /\ ~Entry.joined' =>
          told' <= Entry'.data.list.version
    BY <1>1, <1>3, <1>4, <1>5, <1>7 DEF Core, Typed, Told, Lookup, InUse, Entry, KeyOf, Idle, Shown
  <2> QED
    BY <1>4, <1>5, <2>1, <2>2, <2>3 DEF Told
<1> QED
  BY <1>4, <1>6, <1>8, <1>9 DEF Core, Shape, Lookup, ui

\* An answer arrives: what was told before it was read is in it.
LEMMA ArriveKeeps ==
  ASSUME Core, page' = page, NEW k \in Filters, Arrive(k), UNCHANGED <<mounted, filter, extra>>
  PROVE  Core' /\ Shape
<1>0. NewQuery \in QueryOf(Answers, Filters)
  BY DEF Core, Typed, NewQuery, QueryOf
<1>1. cache[k] \in QueryOf(Answers, Filters)
  BY DEF Core, Typed
<1>2. PICK q : q = Stored(cache[k])
  OBVIOUS
<1>3. /\ q \in QueryOf(Answers, Filters) /\ q.flight = "none" /\ q.got = NoData
      /\ q.data = cache[k].got /\ q.joined = cache[k].joined
  BY <1>0, <1>1, <1>2, StoredEntry
<1>4. cache' = [cache EXCEPT ![k] = q] /\ Filters' = Filters
  BY <1>2 DEF Arrive, Core, Typed, Filters
<1>5. Answers' = Answers
  BY <1>4 DEF Answers
<1>6. Typed'
  BY <1>3, <1>4, <1>5 DEF Core, Typed, Arrive, ui
<1>7. Keyed'
  BY <1>1, <1>3, <1>4 DEF Core, Typed, Keyed
<1>8. Told'
  <2>1. told' <= server'.version /\ \A c \in calls' : c.wrote <= server'.version
    BY DEF Core, Told, Arrive
  <2>2. ASSUME NEW i \in Filters, cache'[i].flight = "read"
        PROVE  /\ cache'[i].got \in Answers
               /\ ~cache'[i].joined => told' <= cache'[i].got.list.version
    BY <1>3, <1>4, <1>5, <2>2 DEF Core, Typed, Told, Arrive
  <2>3. InUse' /\ Idle(Entry)' /\ Shown(Entry)' /\ ~Entry.joined' =>
          told' <= Entry'.data.list.version
    BY <1>1, <1>3, <1>4, <1>5 DEF Core, Typed, Told, Arrive, InUse, Entry, KeyOf, Idle, Shown
  <2> QED
    BY <1>4, <1>5, <2>1, <2>2, <2>3 DEF Told
<1> QED
  BY <1>4, <1>6, <1>7, <1>8 DEF Core, Shape, Arrive, ui

\* A fetch fails.
LEMMA BreakKeeps ==
  ASSUME Core, page' = page, NEW k \in Filters, Break(k), UNCHANGED <<mounted, filter, extra>>
  PROVE  Core' /\ Shape
<1>0. NewQuery \in QueryOf(Answers, Filters)
  BY DEF Core, Typed, NewQuery, QueryOf
<1>1. cache[k] \in QueryOf(Answers, Filters)
  BY DEF Core, Typed
<1>2. PICK q : q = Failed(cache[k])
  OBVIOUS
<1>3. /\ q \in QueryOf(Answers, Filters) /\ q.flight = "none" /\ q.failed
      /\ q.data = cache[k].data /\ q.got = cache[k].got
  BY <1>0, <1>1, <1>2, FailedEntry
<1>4. cache' = [cache EXCEPT ![k] = q] /\ Filters' = Filters
  BY <1>2 DEF Break, Core, Typed, Filters
<1>5. Answers' = Answers
  BY <1>4 DEF Answers
<1>6. Typed'
  BY <1>3, <1>4, <1>5 DEF Core, Typed, Break, ui
<1>7. Keyed'
  BY <1>1, <1>3, <1>4 DEF Core, Typed, Keyed
<1>8. Told'
  <2>1. told' <= server'.version /\ \A c \in calls' : c.wrote <= server'.version
    BY DEF Core, Told, Break
  <2>2. ASSUME NEW i \in Filters, cache'[i].flight = "read"
        PROVE  /\ cache'[i].got \in Answers
               /\ ~cache'[i].joined => told' <= cache'[i].got.list.version
    BY <1>3, <1>4, <1>5, <2>2 DEF Core, Typed, Told, Break
  <2>3. InUse' /\ Idle(Entry)' /\ Shown(Entry)' /\ ~Entry.joined' =>
          told' <= Entry'.data.list.version
    BY <1>1, <1>3, <1>4, <1>5 DEF Core, Typed, Told, Break, InUse, Entry, KeyOf, Idle, Shown
  <2> QED
    BY <1>4, <1>5, <2>1, <2>2, <2>3 DEF Told
<1> QED
  BY <1>4, <1>6, <1>7, <1>8 DEF Core, Shape, Break, ui

\* The three together, on any page.
LEMMA FetchingKeeps ==
  ASSUME Core, page' = page, Fetching
  PROVE  Core' /\ Shape /\ UNCHANGED <<ui, server, calls>>
BY LookupKeeps, ArriveKeeps, BreakKeeps DEF Fetching, Lookup, Arrive, Break, ui

\* The page shows the entry of a filter: one that is at rest is asked for.
LEMMA ObserveKeeps ==
  ASSUME Core, NEW f \in Filters, mounted' = TRUE, filter' = f,
         cache' = [cache EXCEPT ![f] = Observed(@, f)],
         UNCHANGED <<server, dialog, confirm, calls, told>>
  PROVE  Core' /\ Shape
<1>1. cache[f] \in QueryOf(Answers, Filters)
  BY DEF Core, Typed
<1>2. PICK q : q = Observed(cache[f], f)
  OBVIOUS
<1>3. /\ q \in QueryOf(Answers, Filters) /\ q.flight # "none" /\ q.data = cache[f].data
      /\ q = cache[f] \/ (q.flight = "asked" /\ q.want = f /\ q.got = NoData)
  BY <1>1, <1>2, ObservedEntry DEF Idle
<1>4. cache' = [cache EXCEPT ![f] = q] /\ Filters' = Filters
  BY <1>2 DEF Core, Typed, Filters
<1>5. Answers' = Answers
  BY <1>4 DEF Answers
<1>6. Typed'
  BY <1>3, <1>4, <1>5 DEF Core, Typed
<1>7. Keyed'
  <2>1. /\ q.flight # "none" => q.want = f
        /\ q.got # NoData => q.got.for = f
        /\ q.data # NoData => q.data.for = f
    BY <1>3 DEF Core, Keyed
  <2> QED
    BY <1>4, <2>1 DEF Core, Typed, Keyed
<1>8. Told'
  BY <1>3, <1>4, <1>5 DEF Core, Typed, Told, InUse, Entry, KeyOf, Idle, Shown
<1> QED
  BY <1>4, <1>6, <1>7, <1>8 DEF Core, Shape

\* The page is entered.
LEMMA EnterKeeps ==
  ASSUME Core, EnterPage
  PROVE  Core' /\ Shape
BY ObserveKeeps DEF EnterPage, KeyOf, Core, Typed

\* Another filter is chosen.
LEMMA ChooseKeeps ==
  ASSUME Core, NEW f \in Filters, ChooseFilter(f)
  PROVE  Core' /\ Shape
BY ObserveKeeps DEF ChooseFilter, KeyOf, Unobstructed

-----------------------------------------------------------------------------
(* Steps of the dialogs and of the calls *)

\* A list has seen a write at least, its first.
LEMMA Versions ==
  ASSUME NEW list \in List
  PROVE  list.version \in Nat /\ 1 <= list.version /\ list.version <= MaxWrites
<1>1. list.version \in 1..MaxWrites
  BY DEF List
<1> QED
  BY <1>1, ConsoleAssumption

\* A step that neither writes, fetches nor tells of anything.
LEMMA QuietKeeps ==
  ASSUME Core, page' = page, UNCHANGED <<server, cache, told>>,
         mounted' \in BOOLEAN, filter' \in Filters, InUse' => InUse /\ filter' = filter,
         dialog' \in [DOMAIN dialog -> DialogState],
         confirm' \in [DOMAIN confirm -> Rows \cup {Closed}],
         calls' \subseteq Call, \A c \in calls' : c.wrote <= server.version
  PROVE  Core' /\ Shape
<1>1. Filters' = Filters /\ Answers' = Answers
  BY DEF Filters, Answers
<1>2. Shape
  BY <1>1 DEF Shape
<1>3. Typed'
  BY <1>1, <1>2 DEF Core, Typed, Shape
<1>4. Keyed'
  BY <1>1 DEF Core, Keyed
<1>5. Told'
  BY <1>1 DEF Core, Told, Entry, KeyOf
<1> QED
  BY <1>2, <1>3, <1>4, <1>5 DEF Core

\* A dialog that is shown for another row, or closed, is seeded with an empty form.
LEMMA RenderedDialog ==
  ASSUME NEW z \in DialogState
  PROVE  /\ Rendered(z) \in DialogState
         /\ Rendered(z).target = z.target /\ Rendered(z).lastKey = z.target
         /\ Rendered(z).session = z.session
         /\ Rendered(z).typed = IF z.target = z.lastKey THEN z.typed ELSE 0
         /\ Rendered(z).located = IF z.target = z.lastKey THEN z.located ELSE 0
<1>1. 0 \in 0..MaxOpens
  BY ConsoleAssumption
<1>2. PICK y : y = [z EXCEPT !.lastKey = z.target, !.typed = 0, !.located = 0]
  OBVIOUS
<1>3. /\ y \in DialogState /\ y.target = z.target /\ y.session = z.session
      /\ y.lastKey = z.target /\ y.typed = 0 /\ y.located = 0
  BY <1>1, <1>2 DEF DialogState
<1>4. Rendered(z) = IF z.target = z.lastKey THEN z ELSE y
  BY <1>2 DEF Rendered
<1> QED
  BY <1>3, <1>4

\* A call goes on as it was sent.
Continued(c, e) ==
    /\ c.op = e.op /\ c.target = e.target /\ c.form = e.form
    /\ c.typed = e.typed /\ c.located = e.located /\ c.session = e.session
    /\ (c.live => e.live)

\* No call is sent by the step.
OnlyOld == \A c \in calls' : \E e \in calls : Continued(c, e)

\* The step keeps what the list and the calls stand for, and a dialog seeded.
Keeping(d, op) == Core' /\ Shape /\ (Seeded(d, op) => Seeded(d, op)')

\* A step that sends nothing, and leaves a dialog as it is or seeds it.
LEMMA OldSeeds ==
  ASSUME OnlyOld, Shape, NEW d, NEW op,
         d \in DOMAIN dialog /\ Seeded(d, op) =>
            \/ dialog'[d] = dialog[d]
            \/ /\ dialog'[d].lastKey = dialog'[d].target
               /\ dialog'[d].typed \in {0, dialog'[d].session}
  PROVE  Seeded(d, op) => Seeded(d, op)'
<1> SUFFICES ASSUME Seeded(d, op) PROVE Seeded(d, op)'
  OBVIOUS
<1>1. /\ d \in DOMAIN dialog' /\ dialog'[d].lastKey = dialog'[d].target
      /\ dialog'[d].typed \in {0, dialog'[d].session}
  BY DEF Seeded, Shape
<1>2. ASSUME NEW c \in calls', c.op = op
      PROVE  c.form = c.target /\ c.typed \in {0, c.session}
  <2>1. PICK e \in calls : Continued(c, e)
    BY <1>2 DEF OnlyOld
  <2>2. e.op = op
    BY <1>2, <2>1 DEF Continued
  <2>3. e.form = e.target /\ e.typed \in {0, e.session}
    BY <2>2 DEF Seeded
  <2> QED
    BY <2>1, <2>3 DEF Continued
<1> QED
  BY <1>1, <1>2 DEF Seeded

\* The page fetches.
LEMMA FetchingKeeping ==
  ASSUME Core, page' = page, Fetching, NEW d, NEW op
  PROVE  Keeping(d, op) /\ OnlyOld
BY FetchingKeeps DEF Keeping, Seeded, OnlyOld, Continued, ui, Shape

\* The page is entered, or shows another filter.
LEMMA EnterKeeping ==
  ASSUME Core, NEW d, NEW op, EnterPage \/ \E f \in Filters : ChooseFilter(f)
  PROVE  Keeping(d, op) /\ OnlyOld
BY EnterKeeps, ChooseKeeps DEF Keeping, Seeded, OnlyOld, Continued, EnterPage, ChooseFilter, Shape

\* The page is left: what it had in React is lost, and what it had sent is not.
LEMMA LeaveKeeping ==
  ASSUME Core, page' = page, NEW d, NEW op, NEW start, LeavePage(start)
  PROVE  Keeping(d, op) /\ OnlyOld
<1>1. ASSUME NEW x \in DOMAIN dialog
      PROVE  LET y == [ClosedDialog EXCEPT !.session = dialog[x].session]
             IN  /\ y \in DialogState /\ y.typed = 0 /\ y.lastKey = y.target
  <2>1. dialog[x].session \in 0..MaxOpens
    BY <1>1 DEF Core, Typed, DialogState
  <2> QED
    BY <2>1, ConsoleAssumption DEF ClosedDialog, DialogState, Targets
<1>2. dialog' \in [DOMAIN dialog -> DialogState] /\ DOMAIN dialog' = DOMAIN dialog
  BY <1>1 DEF LeavePage
<1>3. confirm' \in [DOMAIN confirm -> Rows \cup {Closed}]
  BY DEF LeavePage
<1>4. ASSUME NEW c \in calls
      PROVE  /\ [c EXCEPT !.live = FALSE] \in Call
             /\ [c EXCEPT !.live = FALSE].wrote <= server.version
             /\ Continued([c EXCEPT !.live = FALSE], c)
  <2>1. c \in Call /\ c.wrote <= server.version
    BY <1>4 DEF Core, Typed, Told
  <2> QED
    BY <2>1 DEF Call, Continued
<1>5. OnlyOld /\ calls' \subseteq Call /\ \A c \in calls' : c.wrote <= server.version
  BY <1>4 DEF LeavePage, OnlyOld
<1>6. Core' /\ Shape
  BY <1>2, <1>3, <1>5, QuietKeeps DEF LeavePage, InUse, Core, Typed
<1> QED
  BY <1>1, <1>5, <1>6, OldSeeds DEF Keeping, LeavePage

\* One dialog moves, and nothing else: its form goes with the row it shows.
LEMMA DialogMoves ==
  ASSUME Core, page' = page, NEW d, NEW op, NEW e \in DOMAIN dialog, NEW x \in DialogState,
         dialog' = [dialog EXCEPT ![e] = x],
         e = d /\ Seeded(d, op) => x.lastKey = x.target /\ x.typed \in {0, x.session},
         UNCHANGED <<mounted, filter, server, cache, confirm, extra, calls, told>>
  PROVE  Keeping(d, op) /\ OnlyOld
<1>1. dialog' \in [DOMAIN dialog -> DialogState] /\ DOMAIN dialog' = DOMAIN dialog
  BY DEF Core, Typed
<1>2. OnlyOld
  BY DEF OnlyOld, Continued
<1>3. Core' /\ Shape
  BY <1>1, QuietKeeps DEF InUse, Core, Typed, Told
<1>4. d \in DOMAIN dialog /\ Seeded(d, op) =>
            \/ dialog'[d] = dialog[d]
            \/ /\ dialog'[d].lastKey = dialog'[d].target
               /\ dialog'[d].typed \in {0, dialog'[d].session}
  BY <1>1
<1> QED
  BY <1>2, <1>3, <1>4, OldSeeds DEF Keeping

\* A dialog opens in front of the page, for a row or for one to be.
LEMMA OpenKeeping ==
  ASSUME Core, page' = page, NEW d, NEW op, NEW e \in DOMAIN dialog,
         NEW r \in Rows \cup {Create}, Unobstructed, OpenDialog(e, r)
  PROVE  Keeping(d, op) /\ OnlyOld
<1>1. /\ dialog[e] \in DialogState /\ dialog[e].target = Closed /\ r # Closed
      /\ dialog[e].session + 1 \in 0..MaxOpens /\ r \in Targets
  <2>1. /\ dialog[e] \in DialogState /\ dialog[e].target = Closed
        /\ dialog[e].session \in 0..MaxOpens /\ dialog[e].session < MaxOpens
    BY DEF Core, Typed, Unobstructed, OpenDialog, DialogState
  <2>2. r # Closed /\ r \in Targets
    BY ConsoleAssumption DEF Targets
  <2> QED
    BY <2>1, <2>2, ConsoleAssumption
<1>2. PICK z : z = [dialog[e] EXCEPT !.target = r, !.session = dialog[e].session + 1]
  OBVIOUS
<1>3. /\ z \in DialogState /\ z.target = r /\ z.lastKey = dialog[e].lastKey
      /\ z.session = dialog[e].session + 1
  BY <1>1, <1>2 DEF DialogState
<1>4. PICK x : x = Rendered(z)
  OBVIOUS
<1>5. /\ x \in DialogState /\ x.lastKey = x.target
      /\ r # dialog[e].lastKey => x.typed = 0
  BY <1>3, <1>4, RenderedDialog
<1>6. dialog' = [dialog EXCEPT ![e] = x]
  BY <1>2, <1>4 DEF OpenDialog
<1>7. e = d /\ Seeded(d, op) => x.typed = 0
  BY <1>1, <1>5 DEF Seeded
<1> QED
  BY <1>5, <1>6, <1>7, DialogMoves DEF OpenDialog

\* A dialog is closed: its form is emptied.
LEMMA ClosedDialogs ==
  ASSUME Typed, NEW d, NEW e \in DOMAIN dialog
  PROVE  \E x \in DialogState :
            /\ ClosedBy(e) = [dialog EXCEPT ![e] = x]
            /\ x.target = Closed /\ x.lastKey = x.target /\ x.session = dialog[e].session
            /\ dialog[e].typed = 0 \/ dialog[e].lastKey # Closed => x.typed = 0
            /\ dialog[e].lastKey = Closed => x.typed = dialog[e].typed
<1>1. dialog[e] \in DialogState /\ Closed \in Targets
  BY DEF Typed, Targets
<1>2. PICK z : z = [dialog[e] EXCEPT !.target = Closed]
  OBVIOUS
<1>3. /\ z \in DialogState /\ z.target = Closed /\ z.lastKey = dialog[e].lastKey
      /\ z.session = dialog[e].session /\ z.typed = dialog[e].typed
  BY <1>1, <1>2 DEF DialogState
<1>4. PICK x : x = Rendered(z)
  OBVIOUS
<1>5. /\ x \in DialogState /\ x.lastKey = Closed /\ x.target = Closed
      /\ x.session = dialog[e].session
      /\ x.typed = IF dialog[e].lastKey = Closed THEN dialog[e].typed ELSE 0
  BY <1>3, <1>4, RenderedDialog
<1>6. ClosedBy(e) = [dialog EXCEPT ![e] = x]
  BY <1>2, <1>4 DEF ClosedBy
<1> QED
  BY <1>5, <1>6

\* A dialog is dismissed.
LEMMA DismissKeeping ==
  ASSUME Core, page' = page, NEW d, NEW op, NEW e \in DOMAIN dialog, DismissDialog(e)
  PROVE  Keeping(d, op) /\ OnlyOld
<1>1. PICK x \in DialogState :
            /\ ClosedBy(e) = [dialog EXCEPT ![e] = x]
            /\ x.target = Closed /\ x.lastKey = x.target /\ x.session = dialog[e].session
            /\ dialog[e].typed = 0 \/ dialog[e].lastKey # Closed => x.typed = 0
            /\ dialog[e].lastKey = Closed => x.typed = dialog[e].typed
  BY ClosedDialogs DEF Core
<1>2. e = d /\ Seeded(d, op) => x.lastKey = x.target /\ x.typed \in {0, x.session}
  BY <1>1 DEF Seeded
<1> QED
  BY <1>1, <1>2, DialogMoves DEF DismissDialog

\* Something is typed.
LEMMA TypeKeeping ==
  ASSUME Core, page' = page, NEW d, NEW op, NEW e \in DOMAIN dialog, TypeIn(e)
  PROVE  Keeping(d, op) /\ OnlyOld
<1>1. dialog[e] \in DialogState
  BY DEF Core, Typed
<1>2. PICK x : x = [dialog[e] EXCEPT !.typed = dialog[e].session]
  OBVIOUS
<1>3. /\ x \in DialogState /\ x.typed = x.session /\ x.lastKey = dialog[e].lastKey
      /\ x.target = dialog[e].target
  BY <1>1, <1>2 DEF DialogState
<1>4. dialog' = [dialog EXCEPT ![e] = x]
  BY <1>2 DEF TypeIn
<1>5. e = d /\ Seeded(d, op) => x.lastKey = x.target
  BY <1>3 DEF Seeded
<1>6. x \in DialogState /\ x.typed \in {0, x.session}
  BY <1>3
<1>7. UNCHANGED <<mounted, filter, server, cache, confirm, extra, calls, told>>
  BY DEF TypeIn
<1> QED
  BY <1>4, <1>5, <1>6, <1>7, DialogMoves
\* A dialog that keeps its fields opens, and is dismissed.
LEMMA KeptDialogs ==
  ASSUME Typed, NEW e \in DOMAIN dialog, NEW r \in Rows \cup {Create},
         OpenKept(e, r) \/ DismissKept(e)
  PROVE  \E x \in DialogState :
            /\ dialog' = [dialog EXCEPT ![e] = x]
            /\ x.typed = dialog[e].typed
            /\ \/ x.target = r /\ x.session = dialog[e].session + 1
               \/ x.target = Closed /\ x.session = dialog[e].session
<1>1. dialog[e] \in DialogState /\ Closed \in Targets /\ r \in Targets
  BY DEF Typed, Targets
<1>2. CASE OpenKept(e, r)
  <2>1. PICK x : x = [dialog[e] EXCEPT !.target = r, !.lastKey = r,
                                       !.session = dialog[e].session + 1]
    OBVIOUS
  <2>2. dialog[e].session + 1 \in 0..MaxOpens
    BY <1>1, <1>2, ConsoleAssumption DEF OpenKept, DialogState
  <2>3. /\ x \in DialogState /\ x.target = r /\ x.session = dialog[e].session + 1
        /\ x.typed = dialog[e].typed
    BY <1>1, <2>1, <2>2 DEF DialogState
  <2>4. dialog' = [dialog EXCEPT ![e] = x]
    BY <1>2, <2>1 DEF OpenKept, Typed
  <2> QED
    BY <2>3, <2>4
<1>3. CASE DismissKept(e)
  <2>1. PICK x : x = [dialog[e] EXCEPT !.target = Closed]
    OBVIOUS
  <2>2. /\ x \in DialogState /\ x.target = Closed /\ x.session = dialog[e].session
        /\ x.typed = dialog[e].typed
    BY <1>1, <2>1 DEF DialogState
  <2>3. dialog' = [dialog EXCEPT ![e] = x]
    BY <1>3, <2>1 DEF DismissKept, Typed
  <2> QED
    BY <2>2, <2>3
<1> QED
  BY <1>2, <1>3

\* Neither touches another dialog.
LEMMA KeptKeeping ==
  ASSUME Core, page' = page, NEW d, NEW op, NEW e \in DOMAIN dialog, NEW r \in Rows \cup {Create},
         OpenKept(e, r) \/ DismissKept(e), d # e
  PROVE  Keeping(d, op) /\ OnlyOld
<1>1. PICK x \in DialogState : dialog' = [dialog EXCEPT ![e] = x]
  BY KeptDialogs DEF Core
<1>2. UNCHANGED <<mounted, filter, server, cache, confirm, extra, calls, told>>
  BY DEF OpenKept, DismissKept
<1> QED
  BY <1>1, <1>2, DialogMoves

\* A confirmation is asked for a row that there is, given up, or over.
LEMMA ConfirmKeeping ==
  ASSUME Core, page' = page, NEW d, NEW op,
         (\E q, r : r \in Rows /\ AskFirst(q, r)) \/ (\E q : Cancel(q))
  PROVE  Keeping(d, op) /\ OnlyOld
<1>1. confirm' \in [DOMAIN confirm -> Rows \cup {Closed}]
  BY DEF Core, Typed, AskFirst, Cancel
<1>2. UNCHANGED <<mounted, filter, server, cache, dialog, extra, calls, told>>
  BY DEF AskFirst, Cancel
<1>3. Core' /\ Shape
  BY <1>1, <1>2, QuietKeeps DEF InUse, Core, Typed, Told
<1> QED
  BY <1>2, <1>3 DEF Keeping, Seeded, OnlyOld, Continued

-----------------------------------------------------------------------------
\* A call is sent, which has written nothing yet; one that saves a dialog is of it.
LEMMA SendKeeping ==
  ASSUME Core, page' = page, NEW d, NEW op, NEW c \in Call, Send(c), c.wrote = 0,
         c.op = op /\ Seeded(d, op) => c.form = c.target /\ c.typed \in {0, c.session}
  PROVE  Keeping(d, op)
<1>1. /\ calls' = calls \cup {c}
      /\ UNCHANGED <<mounted, filter, dialog, confirm, extra, server, cache, told>>
  BY DEF Send, ui
<1>2. calls' \subseteq Call /\ \A x \in calls' : x.wrote <= server.version
  <2>1. 0 <= server.version /\ calls \subseteq Call /\ \A x \in calls : x.wrote <= server.version
    BY Versions DEF Core, Typed, Told
  <2> QED
    BY <1>1, <2>1
<1>3. Core' /\ Shape
  BY <1>1, <1>2, QuietKeeps DEF InUse, Core, Typed
<1>4. Seeded(d, op) => Seeded(d, op)'
  BY <1>1 DEF Seeded
<1> QED
  BY <1>3, <1>4 DEF Keeping

\* A call about a row, and one that carries a form, have their types.
LEMMA NewCallTyped ==
  ASSUME NEW o \in Ops, NEW r \in Targets
  PROVE  /\ NewCall(o, r) \in Call /\ NewCall(o, r).op = o /\ NewCall(o, r).target = r
         /\ NewCall(o, r).form = r /\ NewCall(o, r).wrote = 0 /\ NewCall(o, r).typed = 0
         /\ NewCall(o, r).live = TRUE /\ NewCall(o, r).session = 0
<1>1. 0 \in 0..MaxOpens /\ 0 \in 0..MaxWrites
  BY ConsoleAssumption
<1> QED
  BY <1>1 DEF NewCall, Call

\* The same of the calls that carry a form.
LEMMA FormCallTyped ==
  ASSUME NEW o \in Ops, NEW x \in DialogState
  PROVE  /\ FormCall(o, x) \in Call /\ FormCall(o, x).op = o /\ FormCall(o, x).target = x.target
         /\ FormCall(o, x).form = x.lastKey /\ FormCall(o, x).typed = x.typed
         /\ FormCall(o, x).located = x.located /\ FormCall(o, x).session = x.session
         /\ FormCall(o, x).wrote = 0 /\ FormCall(o, x).live = TRUE
<1>1. PICK n : n = NewCall(o, x.target)
  OBVIOUS
<1>2. x.target \in Targets
  BY DEF DialogState
<1>3. n \in Call /\ n.op = o /\ n.target = x.target /\ n.wrote = 0 /\ n.live = TRUE
  BY <1>1, <1>2, NewCallTyped
<1>4. PICK f : f = [n EXCEPT !.form = x.lastKey, !.typed = x.typed, !.located = x.located,
                            !.session = x.session]
  OBVIOUS
<1>5. /\ f \in Call /\ f.op = o /\ f.target = x.target /\ f.form = x.lastKey
      /\ f.typed = x.typed /\ f.located = x.located /\ f.session = x.session
      /\ f.wrote = 0 /\ f.live = TRUE
  BY <1>3, <1>4 DEF Call, DialogState
<1> QED
  BY <1>1, <1>4, <1>5 DEF FormCall

\* A form is sent with what its own dialog holds.
LEMMA SubmitKeeping ==
  ASSUME Core, page' = page, NEW d, NEW op, NEW e \in DOMAIN dialog, NEW o \in Ops,
         Send(FormCall(o, dialog[e])), o = op => e = d
  PROVE  Keeping(d, op)
<1>1. dialog[e] \in DialogState
  BY DEF Core, Typed
<1>2. PICK c : c = FormCall(o, dialog[e])
  OBVIOUS
<1>3. /\ c \in Call /\ c.op = o /\ c.target = dialog[e].target /\ c.form = dialog[e].lastKey
      /\ c.typed = dialog[e].typed /\ c.session = dialog[e].session /\ c.wrote = 0
  BY <1>1, <1>2, FormCallTyped
<1>4. c.op = op /\ Seeded(d, op) => c.form = c.target /\ c.typed \in {0, c.session}
  BY <1>3 DEF Seeded
<1> QED
  BY <1>2, <1>3, <1>4, SendKeeping

\* A row's own button sends no form.
LEMMA PressKeeping ==
  ASSUME Core, page' = page, NEW d, NEW op, NEW o \in Ops, NEW r \in Targets,
         Send(NewCall(o, r))
  PROVE  Keeping(d, op)
<1>1. PICK c : c = NewCall(o, r)
  OBVIOUS
<1>2. c = [op |-> o, target |-> r, form |-> r, typed |-> 0, located |-> 0, session |-> 0,
           live |-> TRUE, stage |-> "sent", wrote |-> 0]
  BY <1>1 DEF NewCall
<1>3. 0 \in 0..MaxOpens /\ 0 \in 0..MaxWrites
  BY ConsoleAssumption
<1>4. c \in Call
  BY <1>2, <1>3 DEF Call
<1>5. c.form = c.target /\ c.typed = 0 /\ c.wrote = 0
  BY <1>2
<1> QED
  BY <1>1, <1>4, <1>5, SendKeeping

-----------------------------------------------------------------------------
\* A write makes the next version of the list.
LEMMA WrittenTyped ==
  ASSUME Typed, server.version < MaxWrites, NEW r \in Rows, NEW status \in {"none", "on", "off"}
  PROVE  Written(r, status) \in List /\ Written(r, status).version = server.version + 1
<1>1. server.version + 1 \in 1..MaxWrites
  BY Versions, ConsoleAssumption DEF Typed
<1>2. [server.rows EXCEPT ![r] = status] \in [Rows -> {"none", "on", "off"}]
  BY DEF Typed, List
<1> QED
  BY <1>1, <1>2 DEF Written, List

\* What the server may make of the list.
NextVersions(nexts) ==
    server.version < MaxWrites =>
        \A n \in nexts : n \in List /\ n.version = server.version + 1

\* A save, a change of status, a deletion, and reading every notification.
LEMMA OutcomesTyped ==
  ASSUME Typed, NEW c
  PROVE  /\ NextVersions(SavedBy(c)) /\ NextVersions(DeletedBy(c)) /\ NextVersions({AllRead})
         /\ \A status \in {"on", "off"} : NextVersions(TurnedTo(c, status))
<1>1. \A r \in Rows : server.rows[r] \in {"none", "on", "off"}
  BY DEF Typed, List
<1>2. NextVersions(SavedBy(c))
  BY <1>1, WrittenTyped DEF NextVersions, SavedBy, Held
<1>3. NextVersions(DeletedBy(c))
  BY WrittenTyped DEF NextVersions, DeletedBy, TurnedTo, Held
<1>4. \A status \in {"on", "off"} : NextVersions(TurnedTo(c, status))
  BY WrittenTyped DEF NextVersions, TurnedTo, Held
<1>5. NextVersions({AllRead})
  <2> SUFFICES ASSUME server.version < MaxWrites
               PROVE  AllRead \in List /\ AllRead.version = server.version + 1
    BY DEF NextVersions
  <2>1. server.version + 1 \in 1..MaxWrites
    BY Versions, ConsoleAssumption DEF Typed
  <2>2. [r \in Rows |-> IF r \in Held(Rows) THEN "off" ELSE "none"]
          \in [Rows -> {"none", "on", "off"}]
    OBVIOUS
  <2> QED
    BY <2>1, <2>2 DEF AllRead, List
<1> QED
  BY <1>2, <1>3, <1>4, <1>5

\* The server writes: the calls it served have written no later version.
LEMMA WriteKeeps ==
  ASSUME Core, page' = page, UNCHANGED <<mounted, filter, dialog, confirm, extra, cache, told>>,
         server' \in List, server'.version >= server.version,
         calls' \subseteq Call, \A c \in calls' : c.wrote <= server'.version
  PROVE  Core' /\ Shape
<1>1. Filters' = Filters /\ Answers' = Answers
  BY DEF Filters, Answers
<1>2. Shape
  BY <1>1 DEF Shape
<1>3. Typed'
  BY <1>1, <1>2 DEF Core, Typed, Shape
<1>4. Keyed'
  BY <1>1 DEF Core, Keyed
<1>5. told' <= server'.version
  <2>1. /\ told \in Nat /\ told <= server.version /\ server.version \in Nat
        /\ server'.version \in Nat
    BY Versions, ConsoleAssumption DEF Core, Told, Typed
  <2> QED
    BY <2>1
<1>6. Told'
  BY <1>1, <1>5 DEF Core, Told, Entry, KeyOf, InUse
<1> QED
  BY <1>2, <1>3, <1>4, <1>6 DEF Core

\* A call is served, refused, or its answer is lost.
LEMMA ServeKeeping ==
  ASSUME Core, page' = page, NEW d, NEW op, NEW c \in calls, NEW nexts, NextVersions(nexts),
         Serve(c, nexts)
  PROVE  Keeping(d, op) /\ OnlyOld
<1>1. UNCHANGED <<mounted, filter, dialog, confirm, extra, cache, told>>
  BY Zenon DEF Serve, ui
<1>2. \E x : /\ calls' = (calls \ {c}) \cup {x}
             /\ x \in Call /\ Continued(x, c) /\ x.wrote <= server'.version
             /\ server' \in List /\ server'.version >= server.version
  <2>1. c \in Call /\ c.wrote <= server.version /\ server \in List
    BY DEF Core, Typed, Told
  <2>2. CASE /\ server.version < MaxWrites
             /\ \E next_ \in nexts, outcome \in {"done", "lost"} :
                   /\ server' = next_
                   /\ calls' = (calls \ {c}) \cup
                                 {[c EXCEPT !.stage = outcome, !.wrote = next_.version]}
    <3>1. PICK n \in nexts, outcome \in {"done", "lost"} :
               /\ server' = n
               /\ calls' = (calls \ {c}) \cup {[c EXCEPT !.stage = outcome, !.wrote = n.version]}
      BY <2>2
    <3>2. n \in List /\ n.version = server.version + 1
      BY <2>2 DEF NextVersions
    <3>3. PICK x : x = [c EXCEPT !.stage = outcome, !.wrote = n.version]
      OBVIOUS
    <3>4. n.version \in 0..MaxWrites
      BY <3>2 DEF List
    <3>5. x \in Call /\ Continued(x, c) /\ x.wrote = n.version
      BY <2>1, <3>3, <3>4 DEF Call, Continued
    <3>6. n.version <= n.version /\ n.version >= server.version
      BY <2>1, <3>2, <3>4, ConsoleAssumption DEF List
    <3> QED
      BY <3>1, <3>2, <3>3, <3>5, <3>6
  <2>3. CASE UNCHANGED server /\ calls' = (calls \ {c}) \cup {[c EXCEPT !.stage = "refused"]}
    <3>1. PICK x : x = [c EXCEPT !.stage = "refused"]
      OBVIOUS
    <3>2. x \in Call /\ Continued(x, c) /\ x.wrote = c.wrote
      BY <2>1, <3>1 DEF Call, Continued
    <3>3. server.version >= server.version
      BY <2>1 DEF List
    <3> QED
      BY <2>1, <2>3, <3>1, <3>2, <3>3
  <2> QED
    BY <2>2, <2>3, Zenon DEF Serve
<1>3. PICK x : /\ calls' = (calls \ {c}) \cup {x}
               /\ x \in Call /\ Continued(x, c) /\ x.wrote <= server'.version
               /\ server' \in List /\ server'.version >= server.version
  BY <1>2
<1>4. calls' \subseteq Call
  BY <1>3 DEF Core, Typed
<1>5. \A e \in calls' : e.wrote <= server'.version
  <2>1. \A e \in calls : e.wrote <= server.version /\ e.wrote \in 0..MaxWrites
    BY DEF Core, Told, Typed, Call
  <2>2. server.version \in 1..MaxWrites /\ server'.version \in 1..MaxWrites
    BY <1>3 DEF Core, Typed, List
  <2> QED
    BY <1>3, <2>1, <2>2, ConsoleAssumption
<1>6. OnlyOld
  BY <1>3 DEF OnlyOld, Continued
<1>7. Core' /\ Shape
  BY <1>1, <1>3, <1>4, <1>5, WriteKeeps
<1> QED
  BY <1>1, <1>6, <1>7, OldSeeds DEF Keeping

\* Somebody else writes.
LEMMA ElsewhereKeeping ==
  ASSUME Core, page' = page, NEW d, NEW op, NEW r \in Rows, Elsewhere(r)
  PROVE  Keeping(d, op) /\ OnlyOld
<1>1. server.rows[r] \in {"none", "on", "off"} /\ server.version < MaxWrites
  BY DEF Elsewhere, Core, Typed, List
<1>2. server' \in List /\ server'.version = server.version + 1
  BY <1>1, WrittenTyped DEF Elsewhere, Core
<1>3. UNCHANGED <<mounted, filter, dialog, confirm, extra, cache, told, calls>>
  BY DEF Elsewhere, ui
<1>4. \A e \in calls : e.wrote <= server.version + 1
  <2>1. \A e \in calls : e.wrote <= server.version /\ e.wrote \in 0..MaxWrites
    BY DEF Core, Told, Typed, Call
  <2>2. server.version \in 1..MaxWrites
    BY DEF Core, Typed, List
  <2> QED
    BY <2>1, <2>2, ConsoleAssumption
<1>5. server'.version >= server.version
  BY <1>2, Versions DEF Core, Typed
<1>6. Core' /\ Shape
  BY <1>2, <1>3, <1>4, <1>5, WriteKeeps DEF Core, Typed
<1> QED
  BY <1>3, <1>6 DEF Keeping, Seeded, OnlyOld, Continued

\* The page is told of a write: what it shows is asked for again, or joins a fetch.
LEMMA SucceedKeeping ==
  ASSUME Core, page' = page, NEW d, NEW op, NEW c \in calls, NEW u \in BOOLEAN,
         SucceedUsing(c, u), InUse => u, InUse' => InUse,
         dialog' \in [DOMAIN dialog -> DialogState],
         confirm' \in [DOMAIN confirm -> Rows \cup {Closed}],
         d \in DOMAIN dialog /\ Seeded(d, op) =>
            \/ dialog'[d] = dialog[d]
            \/ /\ dialog'[d].lastKey = dialog'[d].target
               /\ dialog'[d].typed \in {0, dialog'[d].session}
  PROVE  Keeping(d, op) /\ OnlyOld
<1>1. /\ cache' = [k \in Filters |-> Invalidated(cache[k], u /\ k = filter, filter)]
      /\ calls' = calls \ {c} /\ UNCHANGED <<mounted, filter, server>>
      /\ told' = IF c.wrote > told THEN c.wrote ELSE told
  BY DEF SucceedUsing, Refetched, KeyOf
<1>2. Filters' = Filters /\ filter \in Filters
  BY <1>1 DEF Filters, Core, Typed
<1>3. Answers' = Answers
  BY <1>2 DEF Answers
<1>4. ASSUME NEW k \in Filters
      PROVE  /\ cache'[k] \in QueryOf(Answers, Filters) /\ cache'[k].data = cache[k].data
             /\ u /\ k = filter => ~Idle(cache'[k])
             /\ \/ /\ cache'[k].flight = "asked" /\ cache'[k].want = filter
                   /\ k = filter /\ cache'[k].got = NoData
                \/ /\ cache'[k].flight = cache[k].flight
                   /\ cache'[k].want = cache[k].want
                   /\ cache'[k].got = cache[k].got
                   /\ ~Idle(cache[k]) => cache'[k].joined
  <2>1. cache[k] \in QueryOf(Answers, Filters)
    BY DEF Core, Typed
  <2>2. PICK used \in BOOLEAN : used = (u /\ k = filter)
    OBVIOUS
  <2>3. cache'[k] = Invalidated(cache[k], used, filter)
    BY <1>1, <2>2
  <2>4. /\ cache'[k] \in QueryOf(Answers, Filters) /\ cache'[k].data = cache[k].data
        /\ used => ~Idle(cache'[k])
        /\ \/ /\ cache'[k].flight = "asked" /\ cache'[k].want = filter
              /\ used /\ cache'[k].got = NoData
           \/ /\ cache'[k].flight = cache[k].flight
              /\ cache'[k].want = cache[k].want
              /\ cache'[k].got = cache[k].got
              /\ ~Idle(cache[k]) => cache'[k].joined
    BY <1>2, <2>1, <2>3, InvalidatedEntry
  <2>5. used <=> u /\ k = filter
    BY <2>2
  <2> QED
    BY <2>4, <2>5
<1>5. Shape
  BY <1>2 DEF Shape
<1>6. c.wrote \in 0..MaxWrites /\ told \in 0..MaxWrites
  BY DEF Core, Typed, Call
<1>7. Typed'
  <2>1. cache' \in [Filters -> QueryOf(Answers, Filters)]
    BY <1>1, <1>4
  <2>2. told' \in 0..MaxWrites
    BY <1>1, <1>6
  <2> QED
    BY <1>1, <1>2, <1>3, <1>5, <2>1, <2>2 DEF Core, Typed, Shape
<1>8. Keyed'
  BY <1>2, <1>4 DEF Core, Keyed
<1>9. Told'
  <2>1. told' <= server'.version
    BY <1>1 DEF Core, Told
  <2>2. \A e \in calls' : e.wrote <= server'.version
    BY <1>1 DEF Core, Told
  <2>3. ASSUME NEW i \in Filters, cache'[i].flight = "read"
        PROVE  cache'[i].got \in Answers /\ cache'[i].joined
    <3>1. cache[i].flight = "read" /\ cache'[i].got = cache[i].got /\ cache'[i].joined
      BY <1>4, <2>3 DEF Idle
    <3> QED
      BY <3>1 DEF Core, Told
  <2>4. ~(InUse' /\ Idle(Entry)')
    BY <1>1, <1>2, <1>4 DEF Entry, KeyOf, Idle
  <2> QED
    BY <1>2, <1>3, <2>1, <2>2, <2>3, <2>4 DEF Told
<1>10. OnlyOld
  BY <1>1 DEF OnlyOld, Continued
<1> QED
  BY <1>5, <1>7, <1>8, <1>9, <1>10, OldSeeds DEF Keeping, Core

\* A call is answered that closes no dialog, one that closes the dialog it was sent
\* from, and one that was confirmed.
LEMMA QuietlyKeeping ==
  ASSUME Core, page' = page, page # "types", NEW d, NEW op, NEW c \in calls,
         SucceedUsing(c, mounted), UNCHANGED <<dialog, confirm>>
  PROVE  Keeping(d, op) /\ OnlyOld
<1>1. mounted \in BOOLEAN /\ (InUse => mounted) /\ mounted' = mounted
  BY DEF InUse, Core, Typed, SucceedUsing
<1>2. InUse' => InUse
  BY <1>1 DEF InUse
<1> QED
  BY <1>1, <1>2, SucceedKeeping DEF Core, Typed

\* A save that succeeded closes the dialog of the page that sent it, if that is still shown.
LEMMA CloseKeeping ==
  ASSUME Core, page' = page, NEW d, NEW op, NEW c \in calls, NEW e \in DOMAIN dialog,
         NEW u \in BOOLEAN, InUse => u, InUse' => InUse,
         SucceedUsing(c, u), dialog' = IF c.live THEN ClosedBy(e) ELSE dialog,
         UNCHANGED confirm
  PROVE  Keeping(d, op) /\ OnlyOld
<1>1. PICK x \in DialogState :
            /\ ClosedBy(e) = [dialog EXCEPT ![e] = x]
            /\ x.target = Closed /\ x.lastKey = x.target /\ x.session = dialog[e].session
            /\ dialog[e].typed = 0 \/ dialog[e].lastKey # Closed => x.typed = 0
            /\ dialog[e].lastKey = Closed => x.typed = dialog[e].typed
  BY ClosedDialogs DEF Core
<1>2. dialog' \in [DOMAIN dialog -> DialogState]
  BY <1>1 DEF Core, Typed
<1>3. e = d /\ Seeded(d, op) => x.lastKey = x.target /\ x.typed \in {0, x.session}
  BY <1>1 DEF Seeded
<1>4. d \in DOMAIN dialog /\ Seeded(d, op) =>
            \/ dialog'[d] = dialog[d]
            \/ /\ dialog'[d].lastKey = dialog'[d].target
               /\ dialog'[d].typed \in {0, dialog'[d].session}
  BY <1>1, <1>3
<1>5. confirm' \in [DOMAIN confirm -> Rows \cup {Closed}]
  BY DEF Core, Typed
<1> QED
  BY <1>2, <1>4, <1>5, SucceedKeeping

\* The dialog is closed on the pages that have one list.
LEMMA SavedKeeping ==
  ASSUME Core, page' = page, page # "types", NEW d, NEW op, NEW c \in calls,
         NEW e \in DOMAIN dialog, SucceedAndClose(c, e)
  PROVE  Keeping(d, op) /\ OnlyOld
<1>1. mounted \in BOOLEAN /\ (InUse => mounted) /\ mounted' = mounted
  BY DEF InUse, Core, Typed, SucceedAndClose, Succeed, SucceedUsing
<1>2. InUse' => InUse
  BY <1>1 DEF InUse
<1> QED
  BY <1>1, <1>2, CloseKeeping DEF SucceedAndClose, Succeed

\* The confirmation is over.
LEMMA ConfirmedKeeping ==
  ASSUME Core, page' = page, page # "types", NEW d, NEW op, NEW c \in calls, NEW q,
         SucceedConfirmed(c, q)
  PROVE  Keeping(d, op) /\ OnlyOld
<1>1. mounted \in BOOLEAN /\ (InUse => mounted) /\ mounted' = mounted
  BY DEF InUse, Core, Typed, SucceedConfirmed, Succeed, SucceedUsing
<1>2. InUse' => InUse
  BY <1>1 DEF InUse
<1>3. confirm' \in [DOMAIN confirm -> Rows \cup {Closed}]
  BY DEF SucceedConfirmed, Core, Typed
<1>4. UNCHANGED dialog /\ dialog \in [DOMAIN dialog -> DialogState] /\ SucceedUsing(c, mounted)
  BY DEF SucceedConfirmed, Succeed, Core, Typed
<1> QED
  BY <1>1, <1>2, <1>3, <1>4, SucceedKeeping

\* A call is over that changed nothing on the page.
LEMMA FailKeeping ==
  ASSUME Core, page' = page, NEW d, NEW op, NEW c, calls' = calls \ {c},
         UNCHANGED <<ui, server, cache, told>>
  PROVE  Keeping(d, op) /\ OnlyOld
<1>1. UNCHANGED <<mounted, filter, dialog, confirm, extra, server, cache, told>>
  BY DEF ui
<1>2. Core' /\ Shape
  BY <1>1, QuietKeeps DEF InUse, Core, Typed, Told
<1> QED
  BY <1>1, <1>2 DEF Keeping, Seeded, OnlyOld, Continued

-----------------------------------------------------------------------------
(* The pages *)

\* What every page does: it is entered, fetches, and others write meanwhile.
LEMMA CommonKeeping ==
  ASSUME Core, page' = page, NEW d, NEW op, EnterPage \/ Fetching \/ \E r \in Rows : Elsewhere(r)
  PROVE  Keeping(d, op) /\ OnlyOld /\ UNCHANGED <<dialog, extra, calls>> /\ (mounted => mounted')
<1>1. CASE EnterPage
  BY <1>1, EnterKeeping DEF EnterPage
<1>2. CASE Fetching
  BY <1>2, FetchingKeeping, FetchingKeeps DEF ui
<1>3. CASE \E r \in Rows : Elsewhere(r)
  BY <1>3, ElsewhereKeeping DEF Elsewhere, ui
<1> QED
  BY <1>1, <1>2, <1>3

\* What a dialog with a seeded form does.
LEMMA FormKeeping ==
  ASSUME Core, page' = page, NEW e \in DOMAIN dialog, NEW o \in Ops,
         DismissDialog(e) \/ TypeIn(e) \/ SendForm(e, o)
  PROVE  Keeping(e, o) /\ UNCHANGED <<extra, mounted>>
<1>1. CASE DismissDialog(e)
  BY <1>1, DismissKeeping DEF DismissDialog
<1>2. CASE TypeIn(e)
  BY <1>2, TypeKeeping DEF TypeIn
<1>3. CASE SendForm(e, o)
  BY <1>3, SubmitKeeping DEF SendForm, Send, ui
<1> QED
  BY <1>1, <1>2, <1>3

\* The table of a page opens its dialog.
LEMMA TableKeeping ==
  ASSUME Core, page' = page, NEW d, NEW op, NEW e \in DOMAIN dialog,
         Unobstructed, \E r \in Rows \cup {Create} : OpenDialog(e, r)
  PROVE  Keeping(d, op) /\ UNCHANGED <<extra, mounted, calls>>
BY OpenKeeping DEF OpenDialog

\* A confirmation that was asked for is given, and a call is sent about its row.
LEMMA ConfirmingKeeping ==
  ASSUME Core, page' = page, NEW d, NEW op, NEW q \in DOMAIN confirm, NEW o \in Ops,
         Cancel(q) \/ Confirmed(q, o)
  PROVE  Keeping(d, op) /\ UNCHANGED <<extra, mounted>>
<1>1. CASE Cancel(q)
  BY <1>1, ConfirmKeeping DEF Cancel
<1>2. CASE Confirmed(q, o)
  <2>1. confirm[q] \in Targets
    BY DEF Core, Typed, Targets
  <2> QED
    BY <1>2, <2>1, PressKeeping DEF Confirmed, Send, ui
<1> QED
  BY <1>1, <1>2

\* The plans.
LEMMA PlansKeep ==
  ASSUME Core, page = "plans", page' = page, Seeded("plan", "savePlan"), extra = Nothing, PlansNext
  PROVE  Core' /\ Shape /\ Seeded("plan", "savePlan")' /\ extra' = Nothing
<1>1. "plan" \in DOMAIN dialog /\ Core
  BY DEF Seeded
<1> SUFFICES Keeping("plan", "savePlan") /\ extra' = Nothing
  BY DEF Keeping
<1>2. CASE EnterPage \/ Fetching \/ \E r \in Rows : Elsewhere(r)
  BY <1>2, CommonKeeping
<1>3. CASE LeavePage(Nothing)
  BY <1>3, LeaveKeeping DEF LeavePage
<1>4. CASE PlanTable
  BY <1>1, <1>4, TableKeeping DEF PlanTable
<1>5. CASE PlanDialog
  <2>1. "savePlan" \in Ops
    BY DEF Ops
  <2>2. DismissDialog("plan") \/ TypeIn("plan") \/ SendForm("plan", "savePlan")
    BY <1>5 DEF PlanDialog, SavePlan
  <2> QED
    BY <1>1, <2>1, <2>2, FormKeeping
<1>6. ASSUME NEW c \in calls, Serve(c, SavedBy(c)) \/ PlanSaved(c) \/ Fail(c)
      PROVE  Keeping("plan", "savePlan") /\ extra' = Nothing
  <2> DEFINE Goal == Keeping("plan", "savePlan") /\ extra' = Nothing
  <2> SUFFICES Goal
    OBVIOUS
  <2>1. CASE Serve(c, SavedBy(c))
    BY <2>1, OutcomesTyped, ServeKeeping DEF Core, Serve, ui
  <2>2. CASE PlanSaved(c)
    BY <1>1, <2>2, SavedKeeping DEF PlanSaved, SucceedAndClose
  <2>3. CASE Fail(c)
    BY <2>3, FailKeeping DEF Fail, ui
  <2> HIDE DEF Goal
  <2> QED
    BY <1>6, <2>1, <2>2, <2>3, Zenon
<1> QED
  BY <1>2, <1>3, <1>4, <1>5, <1>6 DEF PlansNext


\* The departments.
LEMMA DepartmentsKeep ==
  ASSUME Core, page = "departments", page' = page, Seeded("department", "saveDepartment"),
         "delete" \in DOMAIN confirm, extra = Nothing, DepartmentsNext
  PROVE  Core' /\ Shape /\ Seeded("department", "saveDepartment")' /\ extra' = Nothing
<1>1. "department" \in DOMAIN dialog /\ "saveDepartment" \in Ops /\ "delete" \in Ops
  BY DEF Seeded, Ops
<1> SUFFICES Keeping("department", "saveDepartment") /\ extra' = Nothing
  BY DEF Keeping
<1>2. CASE EnterPage \/ Fetching \/ \E r \in Rows : Elsewhere(r)
  BY <1>2, CommonKeeping
<1>3. CASE LeavePage(Nothing)
  BY <1>3, LeaveKeeping DEF LeavePage
<1>4. CASE DepartmentTable
  <2>1. CASE Unobstructed /\ \E r \in Rows \cup {Create} : OpenDialog("department", r)
    BY <1>1, <2>1, TableKeeping
  <2>2. CASE \E r \in Rows : AskFirst("delete", r)
    BY <2>2, ConfirmKeeping DEF AskFirst
  <2> QED
    BY <1>4, <2>1, <2>2 DEF DepartmentTable
<1>5. CASE DeleteDepartment
  BY <1>1, <1>5, ConfirmingKeeping DEF DeleteDepartment
<1>6. CASE DepartmentDialog
  BY <1>1, <1>6, FormKeeping DEF DepartmentDialog, SaveDepartment, SubmitForm
<1>7. ASSUME NEW c \in calls,
             \/ Serve(c, SavedBy(c)) \/ Serve(c, DeletedBy(c))
             \/ DepartmentSaved(c) \/ DepartmentDeleted(c) \/ Fail(c)
      PROVE  Keeping("department", "saveDepartment") /\ extra' = Nothing
  <2>1. CASE Serve(c, SavedBy(c)) \/ Serve(c, DeletedBy(c))
    BY <2>1, OutcomesTyped, ServeKeeping, Zenon DEF Core, Serve, ui
  <2>2. CASE DepartmentSaved(c)
    BY <1>1, <2>2, SavedKeeping DEF DepartmentSaved, SucceedAndClose
  <2>3. CASE DepartmentDeleted(c)
    BY <2>3, ConfirmedKeeping DEF DepartmentDeleted, SucceedConfirmed
  <2>4. CASE Fail(c)
    BY <2>4, FailKeeping DEF Fail, ui
  <2> QED
    BY <1>7, <2>1, <2>2, <2>3, <2>4
<1> QED
  BY <1>2, <1>3, <1>4, <1>5, <1>6, <1>7 DEF DepartmentsNext

\* The shifts.
LEMMA ShiftsKeep ==
  ASSUME Core, page = "shifts", page' = page, Seeded("shift", "saveShift"),
         "delete" \in DOMAIN confirm, extra = Nothing, ShiftsNext
  PROVE  Core' /\ Shape /\ Seeded("shift", "saveShift")' /\ extra' = Nothing
<1>1. "shift" \in DOMAIN dialog /\ "saveShift" \in Ops /\ "delete" \in Ops
  BY DEF Seeded, Ops
<1> SUFFICES Keeping("shift", "saveShift") /\ extra' = Nothing
  BY DEF Keeping
<1>2. CASE EnterPage \/ Fetching \/ \E r \in Rows : Elsewhere(r)
  BY <1>2, CommonKeeping
<1>3. CASE LeavePage(Nothing)
  BY <1>3, LeaveKeeping DEF LeavePage
<1>4. CASE ShiftTable
  <2>1. CASE Unobstructed /\ \E r \in Rows \cup {Create} : OpenDialog("shift", r)
    BY <1>1, <2>1, TableKeeping
  <2>2. CASE \E r \in Rows : AskFirst("delete", r)
    BY <2>2, ConfirmKeeping DEF AskFirst
  <2> QED
    BY <1>4, <2>1, <2>2 DEF ShiftTable
<1>5. CASE DeleteShift
  BY <1>1, <1>5, ConfirmingKeeping DEF DeleteShift
<1>6. CASE ShiftDialog
  BY <1>1, <1>6, FormKeeping DEF ShiftDialog, SaveShift, SubmitForm
<1>7. ASSUME NEW c \in calls,
             \/ Serve(c, SavedBy(c)) \/ Serve(c, DeletedBy(c))
             \/ ShiftSaved(c) \/ ShiftDeleted(c) \/ Fail(c)
      PROVE  Keeping("shift", "saveShift") /\ extra' = Nothing
  <2>1. CASE Serve(c, SavedBy(c)) \/ Serve(c, DeletedBy(c))
    BY <2>1, OutcomesTyped, ServeKeeping, Zenon DEF Core, Serve, ui
  <2>2. CASE ShiftSaved(c)
    BY <1>1, <2>2, SavedKeeping DEF ShiftSaved, SucceedAndClose
  <2>3. CASE ShiftDeleted(c)
    BY <2>3, ConfirmedKeeping DEF ShiftDeleted, SucceedConfirmed
  <2>4. CASE Fail(c)
    BY <2>4, FailKeeping DEF Fail, ui
  <2> QED
    BY <1>7, <2>1, <2>2, <2>3, <2>4, Zenon
<1> QED
  BY <1>2, <1>3, <1>4, <1>5, <1>6, <1>7 DEF ShiftsNext

\* The organizations.
LEMMA OrganizationsKeep ==
  ASSUME Core, page = "organizations", page' = page, Seeded("organization", "saveOrganization"),
         "suspend" \in DOMAIN confirm, extra = Nothing, OrganizationsNext
  PROVE  Core' /\ Shape /\ Seeded("organization", "saveOrganization")' /\ extra' = Nothing
<1>1. /\ "organization" \in DOMAIN dialog /\ "saveOrganization" \in Ops
      /\ "suspend" \in Ops /\ "activate" \in Ops
  BY DEF Seeded, Ops
<1> SUFFICES Keeping("organization", "saveOrganization") /\ extra' = Nothing
  BY DEF Keeping
<1>2. CASE EnterPage \/ Fetching \/ \E r \in Rows : Elsewhere(r)
  BY <1>2, CommonKeeping
<1>3. CASE LeavePage(Nothing)
  BY <1>3, LeaveKeeping DEF LeavePage
<1>4. CASE EditOrganization
  BY <1>1, <1>4, TableKeeping DEF EditOrganization
<1>5. ASSUME NEW r \in Rows, ActivateOrganization(r)
      PROVE  Keeping("organization", "saveOrganization") /\ extra' = Nothing
  <2>1. r \in Targets
    BY DEF Targets
  <2> QED
    BY <1>1, <1>5, <2>1, PressKeeping DEF ActivateOrganization, Send, ui
<1>6. ASSUME NEW r \in Rows, AskSuspend(r)
      PROVE  Keeping("organization", "saveOrganization") /\ extra' = Nothing
  BY <1>6, ConfirmKeeping DEF AskSuspend, AskFirst
<1>7. CASE SuspendDialog
  BY <1>1, <1>7, ConfirmingKeeping DEF SuspendDialog
<1>8. CASE OrganizationDialog
  BY <1>1, <1>8, FormKeeping DEF OrganizationDialog, SaveOrganization, SubmitForm
<1>9. ASSUME NEW c \in calls,
             \/ Serve(c, SavedBy(c)) \/ Serve(c, TurnedTo(c, "off")) \/ Serve(c, TurnedTo(c, "on"))
             \/ OrganizationSaved(c) \/ Suspended(c) \/ Activated(c) \/ Fail(c)
      PROVE  Keeping("organization", "saveOrganization") /\ extra' = Nothing
  <2>1. CASE Serve(c, SavedBy(c)) \/ Serve(c, TurnedTo(c, "off")) \/ Serve(c, TurnedTo(c, "on"))
    BY <2>1, OutcomesTyped, ServeKeeping, Zenon DEF Core, Serve, ui
  <2>2. CASE OrganizationSaved(c)
    BY <1>1, <2>2, SavedKeeping DEF OrganizationSaved, SucceedAndClose
  <2>3. CASE Suspended(c)
    BY <2>3, ConfirmedKeeping DEF Suspended, SucceedConfirmed
  <2>4. CASE Activated(c)
    BY <2>4, QuietlyKeeping DEF Activated, SucceedQuietly, Succeed
  <2>5. CASE Fail(c)
    BY <2>5, FailKeeping DEF Fail, ui
  <2> QED
    BY <1>9, <2>1, <2>2, <2>3, <2>4, <2>5, Zenon
<1> QED
  BY <1>2, <1>3, <1>4, <1>5, <1>6, <1>7, <1>8, <1>9 DEF OrganizationsNext, OrganizationTable


-----------------------------------------------------------------------------
(* The pages whose calls say more *)

\* A dialog sends nothing but its own calls.
LEMMA FormSends ==
  ASSUME Core, NEW e \in DOMAIN dialog, NEW o \in Ops,
         DismissDialog(e) \/ TypeIn(e) \/ SendForm(e, o)
  PROVE  \A c \in calls' : c \in calls \/ c.op = o
<1>1. dialog[e] \in DialogState
  BY DEF Core, Typed
<1>2. FormCall(o, dialog[e]).op = o
  BY <1>1, FormCallTyped
<1> QED
  BY <1>2 DEF DismissDialog, TypeIn, SendForm, Send

\* A confirmation sends nothing but a call about the row it asked for.
LEMMA ConfirmSends ==
  ASSUME Core, NEW q \in DOMAIN confirm, NEW o \in Ops, Cancel(q) \/ Confirmed(q, o)
  PROVE  \A c \in calls' : c \in calls \/ (c.op = o /\ c.target \in Rows)
<1>1. confirm[q] \in Rows \cup {Closed} /\ confirm[q] \in Targets
  BY DEF Core, Typed, Targets
<1>2. NewCall(o, confirm[q]).op = o /\ NewCall(o, confirm[q]).target = confirm[q]
  BY <1>1, NewCallTyped
<1> QED
  BY <1>1, <1>2 DEF Cancel, Confirmed, Send

\* A step that leaves the list alone may change what else the page keeps.
LEMMA ExtraKeeping ==
  ASSUME Core, page' = page, page # "types", NEW d, NEW op,
         UNCHANGED <<mounted, filter, server, cache, dialog, told>>,
         confirm' \in [DOMAIN confirm -> Rows \cup {Closed}],
         OnlyOld, calls' \subseteq Call, \A c \in calls' : c.wrote <= server.version
  PROVE  Keeping(d, op)
<1>1. Core' /\ Shape
  BY QuietKeeps DEF InUse, Core, Typed
<1> QED
  BY <1>1, OldSeeds DEF Keeping

\* The employees.
LEMMA EmployeesKeep ==
  ASSUME Core, page = "employees", page' = page, Seeded("employee", "saveEmployee"),
         {"reset", "terminate"} \subseteq DOMAIN confirm,
         extra \in Rows \cup {Closed}, Resets, EmployeesNext
  PROVE  /\ Core' /\ Shape /\ Seeded("employee", "saveEmployee")'
         /\ extra' \in Rows \cup {Closed} /\ Resets'
<1>1. /\ "employee" \in DOMAIN dialog /\ "saveEmployee" \in Ops /\ "reset" \in Ops
      /\ "terminate" \in Ops /\ "reset" \in DOMAIN confirm /\ "terminate" \in DOMAIN confirm
  BY DEF Seeded, Ops
<1> DEFINE Goal == /\ Keeping("employee", "saveEmployee")
                   /\ extra' \in Rows \cup {Closed} /\ Resets'
<1> SUFFICES Goal
  BY DEF Keeping
<1>a. OnlyOld => Resets'
  BY DEF OnlyOld, Resets, Continued
<1>2. CASE EnterPage \/ Fetching \/ \E r \in Rows : Elsewhere(r)
  BY <1>2, <1>a, CommonKeeping
<1>3. CASE LeavePage(Closed)
  BY <1>3, <1>a, LeaveKeeping DEF LeavePage
<1>4. CASE EditEmployee
  <2>1. Resets'
    BY <1>4 DEF EditEmployee, OpenDialog, Resets
  <2> QED
    BY <1>1, <1>4, <2>1, TableKeeping DEF EditEmployee
<1>5. ASSUME NEW r \in Rows, AskReset(r) \/ AskTerminate(r)
      PROVE  Goal
  BY <1>5, <1>a, ConfirmKeeping DEF AskReset, AskTerminate, AskFirst
<1>6. CASE ResetDialog \/ TerminateDialog
  <2>1. \/ Cancel("reset") \/ Confirmed("reset", "reset")
        \/ Cancel("terminate") \/ Confirmed("terminate", "terminate")
    BY <1>6 DEF ResetDialog, TerminateDialog
  <2>2. \A c \in calls' : c \in calls \/ c.target \in Rows
    BY <1>1, <2>1, ConfirmSends
  <2>3. Resets'
    BY <2>2 DEF Resets
  <2> QED
    BY <1>1, <2>1, <2>3, ConfirmingKeeping
<1>7. CASE DismissPassword
  <2>1. OnlyOld /\ confirm' \in [DOMAIN confirm -> Rows \cup {Closed}]
    BY <1>7 DEF DismissPassword, OnlyOld, Continued, Core, Typed
  <2>2. calls' \subseteq Call /\ \A c \in calls' : c.wrote <= server.version
    BY <1>7 DEF DismissPassword, Core, Typed, Told
  <2>3. UNCHANGED <<mounted, filter, server, cache, dialog, told>> /\ extra' = Closed
    BY <1>7 DEF DismissPassword
  <2> QED
    BY <1>a, <2>1, <2>2, <2>3, ExtraKeeping
<1>8. CASE EmployeeDialog
  <2>1. DismissDialog("employee") \/ TypeIn("employee") \/ SendForm("employee", "saveEmployee")
    BY <1>8 DEF EmployeeDialog, SaveEmployee, SubmitForm
  <2>2. Resets'
    BY <1>1, <2>1, FormSends DEF Resets
  <2> QED
    BY <1>1, <2>1, <2>2, FormKeeping
<1>9. ASSUME NEW c \in calls,
             \/ Serve(c, SavedBy(c)) \/ Serve(c, TurnedTo(c, "off"))
             \/ (c.op = "reset" /\ ServeReset(c))
             \/ EmployeeSaved(c) \/ Terminated(c) \/ PasswordReset(c) \/ Fail(c)
      PROVE  Goal
  <2>0. c \in Call /\ c.wrote <= server.version /\ (c.op = "reset" => c.target \in Rows)
    BY Zenon DEF Core, Typed, Told, Resets
  <2>1. CASE Serve(c, SavedBy(c)) \/ Serve(c, TurnedTo(c, "off"))
    BY <1>a, <2>1, OutcomesTyped, ServeKeeping, Zenon DEF Core, Serve, ui
  <2>2. CASE EmployeeSaved(c)
    BY <1>1, <1>a, <2>2, SavedKeeping DEF EmployeeSaved, SucceedAndClose
  <2>3. CASE Terminated(c)
    BY <1>a, <2>3, ConfirmedKeeping DEF Terminated, SucceedConfirmed
  <2>4. CASE Fail(c)
    BY <1>a, <2>4, FailKeeping DEF Fail, ui
  <2>5. CASE PasswordReset(c)
    <3>1. /\ calls' = calls \ {c} /\ UNCHANGED <<mounted, filter, server, cache, dialog, told>>
          /\ extra' \in Rows \cup {Closed}
      BY <2>0, <2>5 DEF PasswordReset
    <3>2. OnlyOld /\ calls' \subseteq Call /\ \A x \in calls' : x.wrote <= server.version
      BY <3>1 DEF OnlyOld, Continued, Core, Typed, Told
    <3>3. confirm' \in [DOMAIN confirm -> Rows \cup {Closed}]
      BY <2>5 DEF PasswordReset, Core, Typed
    <3> QED
      BY <1>a, <3>1, <3>2, <3>3, ExtraKeeping
  <2>6. CASE ServeReset(c)
    <3>1. PICK outcome \in {"done", "lost", "refused"} :
               calls' = (calls \ {c}) \cup {[c EXCEPT !.stage = outcome]}
      BY <2>6 DEF ServeReset
    <3>2. PICK x : x = [c EXCEPT !.stage = outcome]
      OBVIOUS
    <3>3. x \in Call /\ Continued(x, c) /\ x.wrote = c.wrote
      BY <2>0, <3>2 DEF Call, Continued
    <3>4. OnlyOld /\ calls' \subseteq Call /\ \A y \in calls' : y.wrote <= server.version
      BY <2>0, <3>1, <3>2, <3>3 DEF OnlyOld, Continued, Core, Typed, Told
    <3>5. UNCHANGED <<mounted, filter, server, cache, dialog, confirm, extra, told>>
      BY <2>6 DEF ServeReset, ui
    <3>6. confirm' \in [DOMAIN confirm -> Rows \cup {Closed}]
      BY <3>5 DEF Core, Typed
    <3> QED
      BY <1>a, <3>4, <3>5, <3>6, ExtraKeeping
  <2> QED
    BY <1>9, <2>1, <2>2, <2>3, <2>4, <2>5, <2>6
<1> QED
  BY <1>2, <1>3, <1>4, <1>5, <1>6, <1>7, <1>8, <1>9 DEF EmployeesNext, EmployeeTable

\* No form is placed by a step that sends none, and leaves the dialog as it is or
\* closes it.
LEMMA PositionsStay ==
  ASSUME Positions,
         \A c \in calls' : c.op = "saveBranch" => \E e \in calls : Continued(c, e),
         \/ dialog'["branch"] = dialog["branch"]
         \/ dialog'["branch"].target = Closed
         \/ dialog'["branch"].located = 0
  PROVE  Positions'
<1>1. ASSUME NEW c \in calls', c.op = "saveBranch"
      PROVE  c.located \in {0, c.session} /\ (c.target = Create => c.located # 0)
  <2>1. PICK e \in calls : Continued(c, e)
    BY <1>1
  <2> QED
    BY <1>1, <2>1 DEF Positions, PositionIsNew, Continued
<1>2. dialog'["branch"].target # Closed =>
         dialog'["branch"].located \in {0, dialog'["branch"].session}
  BY DEF Positions
<1> QED
  BY <1>1, <1>2 DEF Positions, PositionIsNew

\* A position arrives, in the dialog of the page that asked for it.
LEMMA PositionKeeping ==
  ASSUME Core, page = "branches", page' = page, Seeded("branch", "saveBranch"),
         NEW c \in calls, Position(c), Positions
  PROVE  Keeping("branch", "saveBranch") /\ Positions' /\ extra' = extra
<1>1. c \in Call /\ c.op = "locate" /\ c.wrote <= server.version
  BY DEF Position, Core, Typed, Told
<1>2. PICK x : x = [c EXCEPT !.op = "relocate"]
  OBVIOUS
<1>3. x \in Call /\ x.op = "relocate" /\ x.wrote = c.wrote
  <2>1. "relocate" \in Ops
    BY DEF Ops
  <2> QED
    BY <1>1, <1>2, <2>1 DEF Call
<1>4. \A e \in calls' : e \in calls \/ e = x
  BY <1>2 DEF Position
<1>5. UNCHANGED <<mounted, filter, server, cache, confirm, extra, told>>
  BY DEF Position
<1>6. calls' \subseteq Call /\ \A e \in calls' : e.wrote <= server.version
  BY <1>1, <1>3, <1>4 DEF Core, Typed, Told
<1>7. /\ "branch" \in DOMAIN dialog /\ dialog["branch"] \in DialogState
      /\ dialog \in [DOMAIN dialog -> DialogState]
  BY DEF Core, Typed, Seeded
<1>8. PICK z : z = [dialog["branch"] EXCEPT !.located = dialog["branch"].session]
  OBVIOUS
<1>9. /\ z \in DialogState /\ z.located = z.session /\ z.session = dialog["branch"].session
      /\ z.target = dialog["branch"].target /\ z.lastKey = dialog["branch"].lastKey
      /\ z.typed = dialog["branch"].typed
  BY <1>7, <1>8 DEF DialogState
<1>10. dialog' = dialog \/ dialog' = [dialog EXCEPT !["branch"] = z]
  BY <1>8 DEF Position, Located
<1>11. dialog' \in [DOMAIN dialog -> DialogState] /\ DOMAIN dialog' = DOMAIN dialog
  BY <1>7, <1>9, <1>10
<1>12. Core' /\ Shape
  BY <1>5, <1>6, <1>11, QuietKeeps DEF InUse, Core, Typed
<1>13. dialog'["branch"] = dialog["branch"] \/ dialog'["branch"] = z
  BY <1>7, <1>10
<1>14. Seeded("branch", "saveBranch")'
  BY <1>3, <1>4, <1>9, <1>11, <1>13 DEF Seeded
<1>15. Positions'
  BY <1>3, <1>4, <1>9, <1>13 DEF Positions, PositionIsNew
<1> QED
  BY <1>5, <1>12, <1>14, <1>15 DEF Keeping

\* A branch form is opened, dismissed, filled in or sent.
LEMMA BranchFormPlaced ==
  ASSUME Core, Seeded("branch", "saveBranch"), Positions,
         \/ Unobstructed /\ \E r \in Rows \cup {Create} : OpenDialog("branch", r)
         \/ BranchDialog
  PROVE  Positions'
<1>1. dialog["branch"] \in DialogState /\ "branch" \in DOMAIN dialog
  BY DEF Core, Typed, Seeded
<1>2. ASSUME NEW r \in Rows \cup {Create}, Unobstructed, OpenDialog("branch", r)
      PROVE  Positions'
  <2>1. PICK z : z = [dialog["branch"] EXCEPT !.target = r, !.session = dialog["branch"].session + 1]
    OBVIOUS
  <2>2. /\ z.target = r /\ z.lastKey = dialog["branch"].lastKey /\ z.session = dialog["branch"].session + 1
        /\ z \in DialogState
    <3>1. dialog["branch"].session \in 0..MaxOpens /\ dialog["branch"].session < MaxOpens
      BY <1>1, <1>2 DEF OpenDialog, DialogState
    <3>2. dialog["branch"].session + 1 \in 0..MaxOpens
      BY <3>1, ConsoleAssumption
    <3>3. r \in Targets
      BY DEF Targets
    <3> QED
      BY <1>1, <2>1, <3>2, <3>3 DEF DialogState
  <2>3. r # dialog["branch"].lastKey
    BY <1>1, <1>2, ConsoleAssumption DEF Unobstructed, Seeded
  <2>4. Rendered(z).located = 0
    BY <2>2, <2>3, RenderedDialog
  <2>5. dialog'["branch"].located = 0
    BY <1>1, <1>2, <2>1, <2>4 DEF OpenDialog, Core, Typed
  <2>6. calls' = calls
    BY <1>2 DEF OpenDialog
  <2> QED
    BY <2>5, <2>6, PositionsStay DEF Continued
<1>3. CASE DismissDialog("branch")
  <2>1. PICK x \in DialogState :
            ClosedBy("branch") = [dialog EXCEPT !["branch"] = x] /\ x.target = Closed
    BY <1>1, ClosedDialogs DEF Core
  <2>2. dialog'["branch"].target = Closed /\ calls' = calls
    BY <1>1, <1>3, <2>1 DEF DismissDialog, Core, Typed
  <2> QED
    BY <2>2, PositionsStay DEF Continued
<1>4. CASE TypeIn("branch")
  <2>1. PICK x : x = [dialog["branch"] EXCEPT !.typed = dialog["branch"].session]
    OBVIOUS
  <2>2. /\ x.located = dialog["branch"].located /\ x.session = dialog["branch"].session
        /\ x.target = dialog["branch"].target
    BY <1>1, <2>1 DEF DialogState
  <2>3. dialog'["branch"] = x /\ calls' = calls
    BY <1>1, <1>4, <2>1 DEF TypeIn, Core, Typed
  <2> QED
    BY <2>2, <2>3 DEF Positions, PositionIsNew
<1>5. CASE SaveBranch
  <2>1. PICK f : f = FormCall("saveBranch", dialog["branch"])
    OBVIOUS
  <2>2. "saveBranch" \in Ops
    BY DEF Ops
  <2>3. /\ f.target = dialog["branch"].target /\ f.located = dialog["branch"].located
        /\ f.session = dialog["branch"].session
    BY <1>1, <2>1, <2>2, FormCallTyped
  <2>4. /\ dialog["branch"].target # Closed /\ UNCHANGED dialog /\ calls' = calls \cup {f}
        /\ dialog["branch"].target = Create => dialog["branch"].located # 0
    BY <1>5, <2>1 DEF SaveBranch, SubmitForm, SendForm, Send, ui
  <2> QED
    BY <2>3, <2>4 DEF Positions, PositionIsNew
<1> QED
  BY <1>2, <1>3, <1>4, <1>5 DEF BranchDialog

\* The branches.
LEMMA BranchesKeep ==
  ASSUME Core, page = "branches", page' = page, Seeded("branch", "saveBranch"),
         "delete" \in DOMAIN confirm, extra = Nothing, Positions, BranchesNext
  PROVE  /\ Core' /\ Shape /\ Seeded("branch", "saveBranch")'
         /\ extra' = Nothing /\ Positions'
<1>1. /\ "branch" \in DOMAIN dialog /\ "saveBranch" \in Ops /\ "delete" \in Ops
      /\ "locate" \in Ops
  BY DEF Seeded, Ops
<1> DEFINE Goal == /\ Keeping("branch", "saveBranch")
                   /\ extra' = Nothing /\ Positions'
<1> SUFFICES Goal
  BY DEF Keeping
<1>a. OnlyOld /\ (UNCHANGED dialog \/ dialog'["branch"].target = Closed) => Positions'
  BY PositionsStay DEF OnlyOld
<1>2. CASE EnterPage \/ Fetching \/ \E r \in Rows : Elsewhere(r)
  BY <1>2, <1>a, CommonKeeping
<1>3. CASE LeavePage(Nothing)
  <2>1. dialog'["branch"].target = Closed
    BY <1>1, <1>3 DEF LeavePage, ClosedDialog
  <2> QED
    BY <1>1, <1>3, <1>a, <2>1, LeaveKeeping DEF LeavePage
<1>4. CASE BranchTable
  <2>1. CASE Unobstructed /\ \E r \in Rows \cup {Create} : OpenDialog("branch", r)
    BY <1>1, <2>1, BranchFormPlaced, TableKeeping
  <2>2. CASE \E r \in Rows : AskFirst("delete", r)
    BY <1>a, <2>2, ConfirmKeeping DEF AskFirst
  <2> QED
    BY <1>4, <2>1, <2>2 DEF BranchTable
<1>5. CASE DeleteBranch
  <2>1. Cancel("delete") \/ Confirmed("delete", "delete")
    BY <1>5 DEF DeleteBranch
  <2>2. \A c \in calls' : c \in calls \/ c.op = "delete"
    BY <1>1, <2>1, ConfirmSends
  <2>3. UNCHANGED dialog
    BY <2>1 DEF Cancel, Confirmed, Send, ui
  <2>4. Positions'
    BY <2>2, <2>3, PositionsStay DEF Continued
  <2> QED
    BY <1>1, <2>1, <2>4, ConfirmingKeeping
<1>6. CASE BranchDialog
  <2>1. DismissDialog("branch") \/ TypeIn("branch") \/ SendForm("branch", "saveBranch")
    BY <1>6 DEF BranchDialog, SaveBranch, SubmitForm
  <2> QED
    BY <1>1, <1>6, <2>1, BranchFormPlaced, FormKeeping
<1>7. CASE Capture
  <2>1. dialog["branch"] \in DialogState
    BY <1>1 DEF Core, Typed
  <2>2. PICK c : c = FormCall("locate", dialog["branch"])
    OBVIOUS
  <2>3. c.op = "locate"
    BY <1>1, <2>1, <2>2, FormCallTyped
  <2>4. /\ Send(FormCall("locate", dialog["branch"])) /\ calls' = calls \cup {c}
        /\ extra' = extra /\ dialog' = dialog
    BY <1>7, <2>2 DEF Capture, Send, ui
  <2>5. Positions'
    BY <2>3, <2>4, PositionsStay DEF Continued
  <2>6. Keeping("branch", "saveBranch")
    BY <1>1, <2>4, SubmitKeeping
  <2> QED
    BY <2>4, <2>5, <2>6
<1>8. ASSUME NEW c \in calls,
             \/ Serve(c, SavedBy(c)) \/ Serve(c, DeletedBy(c))
             \/ NotLocated(c) \/ Position(c) \/ Relocated(c)
             \/ BranchSaved(c) \/ BranchDeleted(c) \/ Fail(c)
      PROVE  Goal
  <2>1. CASE Serve(c, SavedBy(c)) \/ Serve(c, DeletedBy(c))
    BY <1>a, <2>1, OutcomesTyped, ServeKeeping, Zenon DEF Core, Serve, ui
  <2>2. CASE BranchSaved(c)
    <3>1. PICK x \in DialogState :
              ClosedBy("branch") = [dialog EXCEPT !["branch"] = x] /\ x.target = Closed
      BY <1>1, ClosedDialogs DEF Core
    <3>2. UNCHANGED dialog \/ dialog'["branch"].target = Closed
      BY <1>1, <2>2, <3>1 DEF BranchSaved, SucceedAndClose, Core, Typed
    <3> QED
      BY <1>1, <1>a, <2>2, <3>2, SavedKeeping DEF BranchSaved, SucceedAndClose
  <2>3. CASE BranchDeleted(c)
    BY <1>a, <2>3, ConfirmedKeeping DEF BranchDeleted, SucceedConfirmed
  <2>4. CASE NotLocated(c) \/ Relocated(c) \/ Fail(c)
    BY <1>a, <2>4, FailKeeping DEF NotLocated, Relocated, Fail, ui
  <2>5. CASE Position(c)
    BY <2>5, PositionKeeping
  <2> QED
    BY <1>8, <2>1, <2>2, <2>3, <2>4, <2>5, Zenon
<1> QED
  BY <1>2, <1>3, <1>4, <1>5, <1>6, <1>7, <1>8 DEF BranchesNext

-----------------------------------------------------------------------------
\* The subscriptions: a dialog that keeps its fields.
LEMMA SubscriptionsKeep ==
  ASSUME Core, page = "subscriptions", page' = page, "assign" \in DOMAIN dialog,
         extra \in BOOLEAN, SubscriptionsNext
  PROVE  Core' /\ Shape /\ extra' \in BOOLEAN
<1>1. "assign" \in Ops /\ "cancel" \in Ops
  BY DEF Ops
<1> DEFINE Goal == Keeping("none", "none") /\ extra' \in BOOLEAN
<1> SUFFICES Goal
  BY DEF Keeping
<1>2. CASE EnterPage \/ Fetching \/ \E r \in Rows : Elsewhere(r)
  BY <1>2, CommonKeeping
<1>3. CASE LeavePage(extra)
  BY <1>3, LeaveKeeping DEF LeavePage
<1>4. CASE PlansArrive
  <2>1. UNCHANGED <<mounted, filter, server, cache, dialog, confirm, calls, told>> /\ extra' = TRUE
    BY <1>4 DEF PlansArrive
  <2>2. OnlyOld /\ calls' \subseteq Call /\ \A c \in calls' : c.wrote <= server.version
    BY <2>1 DEF OnlyOld, Continued, Core, Typed, Told
  <2>3. confirm' \in [DOMAIN confirm -> Rows \cup {Closed}]
    BY <2>1 DEF Core, Typed
  <2> QED
    BY <2>1, <2>2, <2>3, ExtraKeeping
<1>5. CASE AssignButton
  BY <1>5, KeptKeeping DEF AssignButton, OpenKept
<1>6. CASE SubscriptionTable
  <2>1. PICK r \in Rows : Send(NewCall("cancel", r))
    BY <1>6 DEF SubscriptionTable
  <2>2. r \in Targets
    BY DEF Targets
  <2> QED
    BY <1>1, <2>1, <2>2, PressKeeping DEF Send, ui
<1>7. CASE AssignDialog
  <2>1. CASE DismissKept("assign")
    BY <2>1, KeptKeeping DEF DismissKept
  <2>2. CASE TypeIn("assign")
    BY <2>2, TypeKeeping DEF TypeIn
  <2>3. CASE AssignSubscription
    BY <1>1, <2>3, SubmitKeeping DEF AssignSubscription, SubmitForm, SendForm, Send, ui
  <2> QED
    BY <1>7, <2>1, <2>2, <2>3 DEF AssignDialog
<1>8. ASSUME NEW c \in calls,
             \/ Serve(c, SavedBy(c)) \/ Serve(c, TurnedTo(c, "off"))
             \/ Assigned(c) \/ Cancelled(c) \/ Fail(c)
      PROVE  Goal
  <2>1. CASE Serve(c, SavedBy(c)) \/ Serve(c, TurnedTo(c, "off"))
    BY <2>1, OutcomesTyped, ServeKeeping, Zenon DEF Core, Serve, ui
  <2>2. CASE Assigned(c)
    <3>1. /\ SucceedUsing(c, mounted) /\ UNCHANGED <<mounted, confirm, extra>>
          /\ mounted \in BOOLEAN /\ (InUse => mounted)
      BY <2>2 DEF Assigned, Succeed, SucceedUsing, Core, Typed, InUse
    <3>2. InUse' => InUse
      BY <3>1 DEF InUse
    <3>3. PICK x : x = [dialog["assign"] EXCEPT !.target = Closed, !.typed = 0]
      OBVIOUS
    <3>4. dialog["assign"] \in DialogState /\ Closed \in Targets /\ 0 \in 0..MaxOpens
      BY ConsoleAssumption DEF Core, Typed, Targets
    <3>5. x \in DialogState
      BY <3>3, <3>4 DEF DialogState
    <3>6. dialog' = IF c.live THEN [dialog EXCEPT !["assign"] = x] ELSE dialog
      BY <2>2, <3>3 DEF Assigned, Core, Typed
    <3>7. dialog' \in [DOMAIN dialog -> DialogState]
      BY <3>5, <3>6 DEF Core, Typed
    <3>8. confirm' \in [DOMAIN confirm -> Rows \cup {Closed}]
      BY <3>1 DEF Core, Typed
    <3>9. "none" \in DOMAIN dialog => dialog'["none"] = dialog["none"]
      BY <3>6 DEF Core, Typed
    <3> QED
      BY <3>1, <3>2, <3>7, <3>8, <3>9, SucceedKeeping
  <2>3. CASE Cancelled(c)
    BY <2>3, QuietlyKeeping DEF Cancelled, SucceedQuietly, Succeed
  <2>4. CASE Fail(c)
    BY <2>4, FailKeeping DEF Fail, ui
  <2> QED
    BY <1>8, <2>1, <2>2, <2>3, <2>4, Zenon
<1> QED
  BY <1>2, <1>3, <1>4, <1>5, <1>6, <1>7, <1>8 DEF SubscriptionsNext


-----------------------------------------------------------------------------
(* The requests for leave *)

\* A call that is served goes on as it was sent.
LEMMA ServedCall ==
  ASSUME NEW c \in Call, NEW nexts, Serve(c, nexts)
  PROVE  \E x : calls' = (calls \ {c}) \cup {x} /\ Continued(x, c)
<1>1. CASE \E n \in nexts, outcome \in {"done", "lost"} :
              calls' = (calls \ {c}) \cup {[c EXCEPT !.stage = outcome, !.wrote = n.version]}
  <2>1. PICK n \in nexts, outcome \in {"done", "lost"} :
              calls' = (calls \ {c}) \cup {[c EXCEPT !.stage = outcome, !.wrote = n.version]}
    BY <1>1
  <2>2. PICK x : x = [c EXCEPT !.stage = outcome, !.wrote = n.version]
    OBVIOUS
  <2>3. Continued(x, c)
    BY <2>2 DEF Call, Continued
  <2> QED
    BY <2>1, <2>2, <2>3
<1>2. CASE calls' = (calls \ {c}) \cup {[c EXCEPT !.stage = "refused"]}
  <2>1. PICK x : x = [c EXCEPT !.stage = "refused"]
    OBVIOUS
  <2>2. Continued(x, c)
    BY <2>1 DEF Call, Continued
  <2> QED
    BY <1>2, <2>1, <2>2
<1> QED
  BY <1>1, <1>2 DEF Serve

\* Nothing new is sent, typed or used: the reasons stand, whichever calls are over.
LEMMA ReasonsStand ==
  ASSUME Reasons, UNCHANGED <<dialog, extra>>, calls' \subseteq calls
  PROVE  Reasons'
BY DEF Reasons

\* A call is served.
LEMMA ReasonsServed ==
  ASSUME Core, Reasons, NEW c \in calls, NEW nexts, Serve(c, nexts)
  PROVE  Reasons'
<1>1. PICK x : calls' = (calls \ {c}) \cup {x} /\ Continued(x, c)
  BY ServedCall DEF Core, Typed
<1>2. UNCHANGED <<dialog, extra>>
  BY DEF Serve, ui
<1>3. ASSUME NEW a \in calls', a.op = "reject"
      PROVE  /\ a.typed # 0 /\ a.typed <= dialog["reject"].session
             /\ a.live => a.typed \notin extra
  BY <1>1, <1>3 DEF Reasons, Continued
<1>4. ASSUME NEW a \in calls', NEW e \in calls',
             a.op = "reject" /\ e.op = "reject" /\ a.live /\ e.live
      PROVE  a = e
  BY <1>1, <1>4 DEF Reasons, Continued
<1> QED
  BY <1>2, <1>3, <1>4 DEF Reasons

\* A reason is typed, in a dialog that is open.
LEMMA ReasonsTyped ==
  ASSUME Core, Reasons, TypeIn("reject")
  PROVE  Reasons'
<1>1. dialog["reject"] \in DialogState
  BY DEF Core, Typed, Reasons
<1>2. PICK x : x = [dialog["reject"] EXCEPT !.typed = dialog["reject"].session]
  OBVIOUS
<1>3. /\ x \in DialogState /\ x.typed = x.session /\ x.target = dialog["reject"].target
      /\ x.session = dialog["reject"].session /\ x.session \in 0..MaxOpens
  BY <1>1, <1>2 DEF DialogState
<1>4. dialog' = [dialog EXCEPT !["reject"] = x] /\ UNCHANGED <<extra, calls>>
  BY <1>2 DEF TypeIn
<1>5. dialog'["reject"] = x /\ "reject" \in DOMAIN dialog'
  BY <1>4 DEF Reasons, Core, Typed
<1>6. x.target # Closed
  BY <1>3 DEF TypeIn
<1>7. \A y \in extra : y < x.session
  BY <1>3, <1>6 DEF Reasons
<1>8. x.typed \notin extra /\ x.typed <= x.session
  BY <1>3, <1>7, ConsoleAssumption
<1> QED
  BY <1>3, <1>4, <1>5, <1>7, <1>8 DEF Reasons

\* The dialog opens for another request, or is dismissed: the reason survives.
LEMMA ReasonsKept ==
  ASSUME Core, Reasons, NEW r \in Rows \cup {Create},
         (Unobstructed /\ OpenKept("reject", r)) \/ DismissKept("reject")
  PROVE  Reasons'
<1>1. "reject" \in DOMAIN dialog
  BY DEF Reasons
<1>2. PICK x \in DialogState :
            /\ dialog' = [dialog EXCEPT !["reject"] = x]
            /\ x.typed = dialog["reject"].typed
            /\ \/ x.target = r /\ x.session = dialog["reject"].session + 1
               \/ x.target = Closed /\ x.session = dialog["reject"].session
  BY <1>1, KeptDialogs DEF Core
<1>3. UNCHANGED <<extra, calls>>
  BY DEF OpenKept, DismissKept
<1>4. dialog'["reject"] = x /\ "reject" \in DOMAIN dialog'
  BY <1>1, <1>2 DEF Core, Typed
<1>5. /\ dialog["reject"].session \in Nat /\ dialog["reject"].typed \in Nat
      /\ x.session \in Nat /\ extra \subseteq Nat
  BY <1>1, <1>2, ConsoleAssumption DEF Core, Typed, DialogState, Reasons
<1>6. x.typed <= x.session /\ x.typed \notin extra
  BY <1>2, <1>5 DEF Reasons
<1>7. \A y \in extra : y <= x.session /\ (x.target # Closed => y < x.session)
  BY <1>2, <1>5 DEF Reasons
<1>8. ASSUME NEW c \in calls, c.op = "reject" PROVE c.typed <= x.session
  <2>1. c.typed \in Nat /\ c.typed <= dialog["reject"].session
    BY <1>8, ConsoleAssumption DEF Reasons, Core, Typed, Call
  <2> QED
    BY <1>2, <1>5, <2>1
<1> QED
  BY <1>3, <1>4, <1>6, <1>7, <1>8 DEF Reasons

\* A rejection is sent, with a reason that was not used and while no other is pending.
LEMMA ReasonsSent ==
  ASSUME Core, Reasons, Reject
  PROVE  Reasons'
<1>1. dialog["reject"] \in DialogState /\ "reject" \in Ops
  BY DEF Core, Typed, Reasons, Ops
<1>2. PICK c : c = FormCall("reject", dialog["reject"])
  OBVIOUS
<1>3. c.op = "reject" /\ c.typed = dialog["reject"].typed /\ c.live = TRUE
  BY <1>1, <1>2, FormCallTyped
<1>4. calls' = calls \cup {c} /\ ~Pending("reject") /\ UNCHANGED <<dialog, extra>>
  BY <1>2, <1>3 DEF Reject, SubmitForm, SendForm, Send, ui
<1>5. c.typed # 0
  BY <1>3 DEF Reject
<1>6. \A e \in calls : e.op = "reject" => ~e.live
  BY <1>4 DEF Pending
<1>7. \A e \in calls' : e.op = "reject" =>
          /\ e.typed # 0 /\ e.typed <= dialog["reject"].session
          /\ e.live => e.typed \notin extra
  BY <1>3, <1>4, <1>5 DEF Reasons
<1>8. \A a, e \in calls' : a.op = "reject" /\ e.op = "reject" /\ a.live /\ e.live => a = e
  BY <1>4, <1>6
<1> QED
  BY <1>4, <1>7, <1>8 DEF Reasons

\* A rejection is done: its reason is used, and the field is empty.
LEMMA ReasonsUsed ==
  ASSUME Core, Reasons, NEW c \in calls, Rejected(c)
  PROVE  Reasons' /\ dialog' \in [DOMAIN dialog -> DialogState]
<1>1. calls' = calls \ {c} /\ c.op = "reject"
  BY DEF Rejected, Succeed, SucceedUsing
<1>2. CASE ~c.live
  <2>1. UNCHANGED <<dialog, extra>>
    BY <1>2 DEF Rejected
  <2> QED
    BY <1>1, <2>1, ReasonsStand DEF Core, Typed
<1>3. CASE c.live
  <2>1. dialog["reject"] \in DialogState /\ Closed \in Targets /\ 0 \in 0..MaxOpens
    BY ConsoleAssumption DEF Core, Typed, Targets, Reasons
  <2>2. PICK x : x = [dialog["reject"] EXCEPT !.target = Closed, !.typed = 0]
    OBVIOUS
  <2>3. /\ x \in DialogState /\ x.target = Closed /\ x.typed = 0
        /\ x.session = dialog["reject"].session /\ x.session \in 0..MaxOpens
    BY <2>1, <2>2 DEF DialogState
  <2>4. dialog' = [dialog EXCEPT !["reject"] = x] /\ extra' = extra \cup {c.typed}
    BY <1>3, <2>2 DEF Rejected, NoReason
  <2>5. dialog'["reject"] = x /\ "reject" \in DOMAIN dialog'
    BY <2>4 DEF Reasons, Core, Typed
  <2>6. c.typed \in 1..MaxOpens /\ c.typed <= x.session
    <3>1. c.typed \in 0..MaxOpens /\ c.typed # 0 /\ c.typed <= x.session
      BY <1>1, <2>3 DEF Core, Typed, Call, Reasons
    <3> QED
      BY <3>1, ConsoleAssumption
  <2>7. \A e \in calls' : e.op = "reject" => ~e.live
    BY <1>1, <1>3 DEF Reasons
  <2>8. extra' \subseteq 1..MaxOpens /\ \A y \in extra' : y <= x.session
    BY <2>3, <2>4, <2>6 DEF Reasons
  <2>9. 0 <= x.session /\ 0 \notin extra'
    BY <2>3, <2>8, ConsoleAssumption
  <2>10. \A e \in calls' : e.op = "reject" => e.typed # 0 /\ e.typed <= x.session
    BY <1>1, <2>3 DEF Reasons
  <2>11. Reasons'
    BY <2>3, <2>5, <2>7, <2>8, <2>9, <2>10 DEF Reasons
  <2> QED
    BY <2>3, <2>4, <2>11 DEF Core, Typed
<1> QED
  BY <1>2, <1>3

\* The page of the requests.
LEMMA RequestsKeep ==
  ASSUME Core, page # "types", page' = page, Reasons, RequestsNext
  PROVE  Core' /\ Shape /\ Reasons'
<1>1. "reject" \in Ops /\ "approve" \in Ops /\ "reject" \in DOMAIN dialog
  BY DEF Ops, Reasons
<1> DEFINE Goal == Keeping("none", "none") /\ Reasons'
<1> SUFFICES Goal
  BY DEF Keeping
<1>2. CASE EnterPage \/ Fetching \/ \E r \in Rows : Elsewhere(r)
  BY <1>2, CommonKeeping, ReasonsStand
<1>3. CASE LeavePage({})
  <2>1. Keeping("none", "none") /\ OnlyOld
    BY <1>3, LeaveKeeping
  <2>2. dialog["reject"].session \in 0..MaxOpens
    BY <1>1 DEF Core, Typed, DialogState
  <2>3. PICK x : x = [ClosedDialog EXCEPT !.session = dialog["reject"].session]
    OBVIOUS
  <2>4. x.session = dialog["reject"].session /\ x.typed = 0 /\ x.target = Closed
    BY <2>3 DEF ClosedDialog
  <2>5. dialog'["reject"] = x /\ "reject" \in DOMAIN dialog' /\ extra' = {}
    BY <1>1, <1>3, <2>3 DEF LeavePage
  <2>6. \A c \in calls' : ~c.live
    <3>1. \A c \in calls : [c EXCEPT !.live = FALSE].live = FALSE
      BY DEF Core, Typed, Call
    <3> QED
      BY <1>3, <3>1 DEF LeavePage
  <2>7. \A c \in calls' : c.op = "reject" => c.typed # 0 /\ c.typed <= x.session
    BY <2>1, <2>4 DEF OnlyOld, Continued, Reasons
  <2>8. x.typed <= x.session
    BY <2>2, <2>4, ConsoleAssumption
  <2>9. Reasons'
    BY <2>4, <2>5, <2>6, <2>7, <2>8 DEF Reasons
  <2> QED
    BY <2>1, <2>9
<1>4. CASE StatusFilters
  BY <1>4, EnterKeeping, ReasonsStand DEF StatusFilters, ChooseFilter
<1>5. CASE RequestTable
  <2>1. PICK r \in Rows : Approve(r) \/ OpenKept("reject", r)
    BY <1>5 DEF RequestTable
  <2>2. CASE Approve(r)
    <3>1. r \in Targets
      BY DEF Targets
    <3>2. PICK c : c = NewCall("approve", r)
      OBVIOUS
    <3>3. c.op = "approve" /\ calls' = calls \cup {c} /\ UNCHANGED <<dialog, extra>>
      BY <1>1, <2>2, <3>1, <3>2, NewCallTyped DEF Approve, Send, ui
    <3>4. Reasons'
      BY <3>3 DEF Reasons
    <3> QED
      BY <1>1, <2>2, <3>1, <3>4, PressKeeping DEF Approve
  <2>3. CASE OpenKept("reject", r)
    BY <1>1, <1>5, <2>3, KeptKeeping, ReasonsKept DEF RequestTable
  <2> QED
    BY <2>1, <2>2, <2>3
<1>6. CASE RejectDialog
  <2>1. CASE DismissKept("reject")
    BY <1>1, <2>1, KeptKeeping, ReasonsKept
  <2>2. CASE TypeIn("reject")
    BY <1>1, <2>2, TypeKeeping, ReasonsTyped
  <2>3. CASE Reject
    BY <1>1, <2>3, SubmitKeeping, ReasonsSent DEF Reject, SubmitForm, SendForm
  <2> QED
    BY <1>6, <2>1, <2>2, <2>3 DEF RejectDialog
<1>7. ASSUME NEW c \in calls,
             Serve(c, TurnedTo(c, "off")) \/ Rejected(c) \/ Approved(c) \/ Fail(c)
      PROVE  Goal
  <2>1. CASE Serve(c, TurnedTo(c, "off"))
    BY <2>1, OutcomesTyped, ServeKeeping, ReasonsServed DEF Core
  <2>2. CASE Rejected(c)
    <3>1. Reasons' /\ dialog' \in [DOMAIN dialog -> DialogState]
      BY <2>2, ReasonsUsed
    <3>2. /\ SucceedUsing(c, mounted) /\ UNCHANGED <<mounted, confirm>>
          /\ mounted \in BOOLEAN /\ (InUse => mounted)
      BY <2>2 DEF Rejected, Succeed, SucceedUsing, Core, Typed, InUse
    <3>3. InUse' => InUse
      BY <3>2 DEF InUse
    <3>4. confirm' \in [DOMAIN confirm -> Rows \cup {Closed}]
      BY <3>2 DEF Core, Typed
    <3>5. "none" \in DOMAIN dialog => dialog'["none"] = dialog["none"]
      BY <2>2 DEF Rejected, Core, Typed
    <3> QED
      BY <3>1, <3>2, <3>3, <3>4, <3>5, SucceedKeeping
  <2>3. CASE Approved(c)
    <3>1. UNCHANGED <<dialog, extra>> /\ calls' \subseteq calls
      BY <2>3 DEF Approved, SucceedQuietly, Succeed, SucceedUsing
    <3> QED
      BY <2>3, <3>1, QuietlyKeeping, ReasonsStand DEF Approved, SucceedQuietly, Succeed
  <2>4. CASE Fail(c)
    <3>1. UNCHANGED <<dialog, extra>> /\ calls' \subseteq calls
      BY <2>4 DEF Fail, ui
    <3> QED
      BY <2>4, <3>1, FailKeeping, ReasonsStand DEF Fail
  <2> QED
    BY <1>7, <2>1, <2>2, <2>3, <2>4
<1> QED
  BY <1>2, <1>3, <1>4, <1>5, <1>6, <1>7 DEF RequestsNext


-----------------------------------------------------------------------------
(* Balances, types, settings and records *)

\* The balances.
LEMMA BalancesKeep ==
  ASSUME Core, page = "balances", page' = page, extra = Nothing, BalancesNext
  PROVE  Core' /\ Shape /\ extra' = Nothing
<1> DEFINE Goal == Keeping("none", "none") /\ extra' = Nothing
<1> SUFFICES Goal
  BY DEF Keeping
<1>1. Core => /\ dialog \in [DOMAIN dialog -> DialogState]
              /\ confirm \in [DOMAIN confirm -> Rows \cup {Closed}]
              /\ calls \subseteq Call /\ \A c \in calls : c.wrote <= server.version
              /\ Nothing \in Filters /\ filter \in Filters /\ mounted \in BOOLEAN
  BY DEF Core, Typed, Told
<1>2. CASE Fetching \/ \E r \in Rows : Elsewhere(r)
  BY <1>2, CommonKeeping
<1>3. CASE LeavePage(Nothing)
  BY <1>3, LeaveKeeping DEF LeavePage
<1>4. CASE ShowPage \/ CloseBalance
  <2>1. /\ UNCHANGED <<server, cache, dialog, confirm, extra, calls, told>>
        /\ mounted' \in BOOLEAN /\ filter' \in Filters
    BY <1>1, <1>4 DEF ShowPage, CloseBalance
  <2>2. ~InUse'
    BY DEF InUse
  <2>3. Core' /\ Shape
    BY <1>1, <2>1, <2>2, QuietKeeps
  <2> QED
    BY <2>1, <2>3 DEF Keeping, Seeded
<1>5. CASE OpenBalance
  BY <1>5, EnterKeeping DEF OpenBalance, ChooseFilter
<1> QED
  BY <1>2, <1>3, <1>4, <1>5 DEF BalancesNext, BalanceDialog

\* The types.
LEMMA TypesKeep ==
  ASSUME Core, page = "types", page' = page, Filters = {Nothing}, Seeded("type", "saveType"),
         extra \in BOOLEAN, extra = TRUE => mounted, TypesNext
  PROVE  /\ Core' /\ Shape /\ Seeded("type", "saveType")'
         /\ extra' \in BOOLEAN /\ (extra' = TRUE => mounted')
<1>1. "type" \in DOMAIN dialog /\ "saveType" \in Ops
  BY DEF Seeded, Ops
<1> DEFINE Goal == /\ Keeping("type", "saveType")
                   /\ extra' \in BOOLEAN /\ (extra' = TRUE => mounted')
<1> SUFFICES Goal
  BY DEF Keeping
<1>2. CASE Fetching \/ \E r \in Rows : Elsewhere(r)
  BY <1>2, CommonKeeping
<1>3. CASE LeavePage(FALSE)
  BY <1>3, LeaveKeeping DEF LeavePage
<1>4. /\ dialog \in [DOMAIN dialog -> DialogState]
      /\ confirm \in [DOMAIN confirm -> Rows \cup {Closed}]
      /\ calls \subseteq Call /\ \A c \in calls : c.wrote <= server.version
      /\ filter = Nothing /\ filter \in Filters /\ mounted \in BOOLEAN
  BY DEF Core, Typed, Told
<1>5. CASE ShowPage
  <2>1. /\ UNCHANGED <<filter, server, cache, dialog, confirm, extra, calls, told>>
        /\ mounted' = TRUE /\ extra # TRUE
    BY <1>5 DEF ShowPage
  <2>2. ~InUse'
    BY <2>1 DEF InUse
  <2>3. Core' /\ Shape
    BY <1>4, <2>1, <2>2, QuietKeeps
  <2> QED
    BY <2>1, <2>3 DEF Keeping, Seeded
<1>6. CASE OpenTypes
  <2>1. /\ UNCHANGED <<filter, server, dialog, confirm, calls, told>>
        /\ mounted' = TRUE /\ extra' = TRUE
        /\ cache' = [cache EXCEPT ![filter] = Observed(@, filter)]
    BY <1>4, <1>6 DEF OpenTypes, TypesUnchanged
  <2>2. Core' /\ Shape
    BY <1>4, <2>1, ObserveKeeps
  <2> QED
    BY <2>1, <2>2 DEF Keeping, Seeded
<1>7. CASE CloseTypes
  <2>1. /\ UNCHANGED <<mounted, filter, server, cache, dialog, confirm, calls, told>>
        /\ extra' = FALSE
    BY <1>7 DEF CloseTypes, TypesUnchanged
  <2>2. ~InUse'
    BY <2>1 DEF InUse
  <2>3. Core' /\ Shape
    BY <1>4, <2>1, <2>2, QuietKeeps
  <2> QED
    BY <2>1, <2>3 DEF Keeping, Seeded
<1>8. CASE TypeList
  BY <1>1, <1>8, TableKeeping DEF TypeList
<1>9. CASE TypeFormDialog
  <2>1. DismissDialog("type") \/ TypeIn("type") \/ SendForm("type", "saveType")
    BY <1>9 DEF TypeFormDialog, SaveType, SubmitForm
  <2> QED
    BY <1>1, <2>1, FormKeeping
<1>10. ASSUME NEW c \in calls, Serve(c, SavedBy(c)) \/ TypeSaved(c) \/ Fail(c)
       PROVE  Goal
  <2>1. CASE Serve(c, SavedBy(c))
    BY <2>1, OutcomesTyped, ServeKeeping, Zenon DEF Core, Serve, ui
  <2>2. CASE TypeSaved(c)
    <3>1. PICK u \in BOOLEAN : u = (mounted /\ extra)
      OBVIOUS
    <3>2. /\ SucceedUsing(c, u) /\ UNCHANGED <<confirm, extra>>
          /\ dialog' = IF c.live THEN ClosedBy("type") ELSE dialog
      BY <2>2, <3>1 DEF TypeSaved
    <3>3. UNCHANGED mounted
      BY <3>2 DEF SucceedUsing
    <3>4. InUse => u
      BY <3>1 DEF InUse
    <3>5. InUse' => InUse
      BY <3>2, <3>3 DEF InUse
    <3> QED
      BY <1>1, <3>2, <3>3, <3>4, <3>5, CloseKeeping
  <2>3. CASE Fail(c)
    BY <2>3, FailKeeping DEF Fail, ui
  <2> QED
    BY <1>10, <2>1, <2>2, <2>3, Zenon
<1> QED
  BY <1>2, <1>3, <1>5, <1>6, <1>7, <1>8, <1>9, <1>10 DEF TypesNext

\* The settings forms: "Saved" is true of what was sent.
LEMMA SettingsKeep ==
  ASSUME Core, page # "types", page' = page, extra \in Form, SavedIsTrue,
         AttendanceRuleSection \/ PlatformSettings
  PROVE  Core' /\ Shape /\ extra' \in Form /\ SavedIsTrue'
<1> DEFINE Goal == Keeping("none", "none") /\ extra' \in Form /\ SavedIsTrue'
<1> SUFFICES Goal
  BY DEF Keeping
<1>0. NoForm \in Form
  BY ConsoleAssumption DEF NoForm, Form
<1>a. UNCHANGED extra => extra' \in Form /\ SavedIsTrue'
  BY DEF SavedIsTrue
<1>b. ASSUME FormOnly PROVE Keeping("none", "none")
  <2>1. UNCHANGED <<mounted, filter, server, cache, dialog, confirm, calls, told>>
    BY <1>b DEF FormOnly
  <2>2. OnlyOld /\ calls' \subseteq Call /\ \A c \in calls' : c.wrote <= server.version
    BY <2>1 DEF OnlyOld, Continued, Core, Typed, Told
  <2>3. confirm' \in [DOMAIN confirm -> Rows \cup {Closed}]
    BY <2>1 DEF Core, Typed
  <2> QED
    BY <2>1, <2>2, <2>3, ExtraKeeping
<1>1. CASE EnterPage \/ Fetching \/ \E r \in Rows : Elsewhere(r)
  BY <1>1, <1>a, CommonKeeping
<1>2. CASE LeavePage(NoForm)
  <2>1. extra' = NoForm
    BY <1>2 DEF LeavePage
  <2>2. SavedIsTrue'
    BY <2>1 DEF SavedIsTrue, NoForm
  <2> QED
    BY <1>0, <1>2, <2>1, <2>2, LeaveKeeping
<1>3. CASE Seed
  <2>1. PICK f : f = [extra EXCEPT !.seeded = TRUE]
    OBVIOUS
  <2>2. /\ f \in Form /\ f.saved = extra.saved /\ f.late = extra.late /\ f.edit = extra.edit
        /\ f.sent = extra.sent
    BY <2>1 DEF Form
  <2>3. extra' = f /\ FormOnly
    BY <1>3, <2>1 DEF Seed
  <2> QED
    BY <1>b, <2>2, <2>3 DEF SavedIsTrue
<1>4. ASSUME NEW f \in Form, f.saved = FALSE, f.edit = extra.edit, Type(f) PROVE Goal
  <2>1. PICK g : g = [f EXCEPT !.edit = f.edit + 1]
    OBVIOUS
  <2>2. f.edit + 1 \in 0..MaxOpens
    BY <1>4, ConsoleAssumption DEF Type, Form
  <2>3. g \in Form /\ g.saved = FALSE
    BY <1>4, <2>1, <2>2 DEF Form
  <2>4. extra' = g /\ FormOnly
    BY <1>4, <2>1 DEF Type
  <2> QED
    BY <1>b, <2>3, <2>4 DEF SavedIsTrue
<1>5. PICK f : f = Unsaved(extra)
  OBVIOUS
<1>6. f \in Form /\ f.saved = FALSE /\ f.edit = extra.edit
  BY <1>5 DEF Unsaved, Form
<1>7. CASE Type(Unsaved(extra))
  BY <1>4, <1>5, <1>6, <1>7
<1>8. CASE toggleDay
  <2>1. PICK none \in BOOLEAN : Type([f EXCEPT !.noDay = none])
    BY <1>5, <1>8 DEF toggleDay
  <2>2. PICK g : g = [f EXCEPT !.noDay = none]
    OBVIOUS
  <2>3. g \in Form /\ g.saved = FALSE /\ g.edit = extra.edit
    BY <1>6, <2>2 DEF Form
  <2> QED
    BY <1>4, <2>1, <2>2, <2>3
<1>9. CASE Save
  <2>1. PICK r \in Rows : Send([NewCall("save", r) EXCEPT !.typed = extra.edit])
    BY <1>9 DEF Save, Held
  <2>2. r \in Targets /\ "save" \in Ops /\ extra.edit \in 0..MaxOpens
    BY DEF Targets, Ops, Form
  <2>3. PICK n : n = NewCall("save", r)
    OBVIOUS
  <2>4. n \in Call /\ n.op = "save" /\ n.wrote = 0
    BY <2>2, <2>3, NewCallTyped
  <2>5. PICK c : c = [n EXCEPT !.typed = extra.edit]
    OBVIOUS
  <2>6. c \in Call /\ c.op = "save" /\ c.wrote = 0
    BY <2>2, <2>4, <2>5 DEF Call
  <2>7. Send(c) /\ UNCHANGED extra
    BY <2>1, <2>3, <2>5 DEF Send, ui
  <2> QED
    BY <1>a, <2>6, <2>7, SendKeeping
<1>10. ASSUME NEW c \in calls, Serve(c, SavedBy(c)) \/ Saved(c) \/ Fail(c) PROVE Goal
  <2>1. CASE Serve(c, SavedBy(c))
    BY <1>a, <2>1, OutcomesTyped, ServeKeeping, Zenon DEF Core, Serve, ui
  <2>2. CASE Saved(c)
    <3>1. PICK f2 : f2 = [extra EXCEPT !.saved = TRUE, !.sent = c.typed,
                                       !.late = (extra.edit # c.typed)]
      OBVIOUS
    <3>2. c.typed \in 0..MaxOpens
      BY DEF Core, Typed, Call
    <3>3. /\ f2 \in Form /\ f2.sent = c.typed /\ f2.edit = extra.edit
          /\ f2.late <=> extra.edit # c.typed
      BY <3>1, <3>2 DEF Form
    <3>4. extra' = IF c.live THEN f2 ELSE extra
      BY <2>2, <3>1 DEF Saved
    <3>5. extra' \in Form /\ SavedIsTrue'
      BY <1>a, <3>3, <3>4 DEF SavedIsTrue
    <3> QED
      BY <2>2, <3>5, QuietlyKeeping DEF Saved, Succeed
  <2>3. CASE Fail(c)
    BY <1>a, <2>3, FailKeeping DEF Fail, ui
  <2> QED
    BY <1>10, <2>1, <2>2, <2>3, Zenon
<1> QED
  BY <1>1, <1>2, <1>3, <1>7, <1>8, <1>9, <1>10
     DEF AttendanceRuleSection, PlatformSettings, Around, AttendanceRuleForm, updateField, SaveFailed

\* The pages of records.
LEMMA RecordsKeep ==
  ASSUME Core, page # "types", page' = page, extra = Nothing,
         Watching \/ (\E f \in Filters : ChooseFilter(f)) \/ Notifications
  PROVE  Core' /\ Shape /\ extra' = Nothing
<1> DEFINE Goal == Keeping("none", "none") /\ extra' = Nothing
<1> SUFFICES Goal
  BY DEF Keeping
<1>1. CASE Watching
  <2>1. CASE LeavePage(Nothing)
    BY <2>1, LeaveKeeping DEF LeavePage
  <2>2. CASE EnterPage \/ Fetching \/ \E r \in Rows : Elsewhere(r)
    BY <2>2, CommonKeeping
  <2> QED
    BY <1>1, <2>1, <2>2 DEF Watching
<1>2. CASE \E f \in Filters : ChooseFilter(f)
  BY <1>2, EnterKeeping DEF ChooseFilter
<1>3. CASE MarkAllRead \/ NotificationList
  <2>1. "markRead" \in Ops /\ "markAll" \in Ops
    BY DEF Ops
  <2>2. PICK o \in Ops, r \in Targets : Send(NewCall(o, r))
    BY <1>3, <2>1 DEF MarkAllRead, NotificationList, MarkRead, Targets
  <2> QED
    BY <2>2, PressKeeping DEF Send, ui
<1>4. ASSUME NEW c \in calls,
             Serve(c, TurnedTo(c, "off")) \/ Serve(c, {AllRead}) \/ Marked(c) \/ Fail(c)
      PROVE  Goal
  <2>1. CASE Serve(c, TurnedTo(c, "off")) \/ Serve(c, {AllRead})
    BY <2>1, OutcomesTyped, ServeKeeping, Zenon DEF Core, Serve, ui
  <2>2. CASE Marked(c)
    BY <2>2, QuietlyKeeping DEF Marked, SucceedQuietly, Succeed
  <2>3. CASE Fail(c)
    BY <2>3, FailKeeping DEF Fail, ui
  <2> QED
    BY <1>4, <2>1, <2>2, <2>3, Zenon
<1> QED
  BY <1>1, <1>2, <1>3, <1>4 DEF Notifications, NotificationFilter

-----------------------------------------------------------------------------
(* The pages, all of them *)

\* A page that was never entered.
LEMMA PageStart ==
  ASSUME NEW W, Nothing \in W, NEW D, NEW C, NEW S, PageInit(W, D, C, S),
         \A r \in Rows : server.rows[r] \in {"none", "on"}
  PROVE  /\ Core /\ Filters = W /\ DOMAIN dialog = D /\ DOMAIN confirm = C
         /\ extra = S /\ calls = {} /\ mounted = FALSE
         /\ \A d \in D : dialog[d] = ClosedDialog
<1>1. Filters = W /\ cache = [f \in W |-> NewQuery]
  BY DEF PageInit, Filters
<1>2. NewQuery \in QueryOf(Answers, Filters) /\ NewQuery.flight = "none"
      /\ NewQuery.got = NoData /\ NewQuery.data = NoData
  BY <1>1 DEF NewQuery, QueryOf
<1>3. server \in List /\ server.version = 1
  BY ConsoleAssumption DEF PageInit, List
<1>4. ClosedDialog \in DialogState
  BY ConsoleAssumption DEF ClosedDialog, DialogState, Targets
<1>5. cache \in [Filters -> QueryOf(Answers, Filters)]
  BY <1>1, <1>2
<1>6. Typed
  <2>1. filter \in Filters /\ Nothing \in Filters /\ mounted \in BOOLEAN /\ calls \subseteq Call
    BY <1>1 DEF PageInit
  <2>2. told \in 0..MaxWrites
    BY ConsoleAssumption DEF PageInit
  <2>3. dialog \in [DOMAIN dialog -> DialogState]
    BY <1>4 DEF PageInit
  <2>4. confirm \in [DOMAIN confirm -> Rows \cup {Closed}]
    BY DEF PageInit
  <2> QED
    BY <1>3, <1>5, <2>1, <2>2, <2>3, <2>4 DEF Typed
<1>7. Keyed
  BY <1>1, <1>2 DEF Keyed
<1>8. Told
  BY <1>1, <1>2, <1>3 DEF Told, PageInit, InUse
<1> QED
  BY <1>1, <1>4, <1>6, <1>7, <1>8 DEF Core, PageInit

\* A dialog that was never opened.
LEMMA SeededStart ==
  ASSUME NEW d \in DOMAIN dialog, NEW op, dialog[d] = ClosedDialog, calls = {}
  PROVE  Seeded(d, op)
BY DEF Seeded, ClosedDialog

\* Every page begins as it must.
LEMMA PagesInit == Init => PagesInv
<1> SUFFICES ASSUME Init PROVE PagesInv
  OBVIOUS
<1>1. Starts /\ \A r \in Rows : server.rows[r] \in {"none", "on"}
  BY DEF Init
<1>2. Nothing \in Choices /\ Nothing \in {Nothing}
  BY WebConsoleAssumption
<1>3. CASE page \in {"plans", "reports", "day", "badges", "tenants", "signIn"} /\ PlansInit
  <2>1. /\ Core /\ Filters = {Nothing} /\ DOMAIN dialog = {"plan"} /\ extra = Nothing
        /\ calls = {} /\ dialog["plan"] = ClosedDialog
    BY <1>1, <1>2, <1>3, PageStart DEF PlansInit
  <2>2. Seeded("plan", "savePlan")
    BY <2>1, SeededStart
  <2> QED
    BY <1>3, <2>1, <2>2 DEF PagesInv, Pages, Kept, WithFilter
<1>4. CASE page = "subscriptions" /\ SubscriptionsInit
  <2>1. /\ Core /\ Filters = {Nothing} /\ DOMAIN dialog = {"assign"} /\ extra = FALSE
    BY <1>1, <1>2, <1>4, PageStart DEF SubscriptionsInit
  <2> QED
    BY <1>4, <2>1 DEF PagesInv, Pages, Kept, WithFilter
<1>5. CASE page = "organizations" /\ OrganizationsInit
  <2>1. /\ Core /\ Filters = {Nothing} /\ DOMAIN dialog = {"organization"} /\ extra = Nothing
        /\ calls = {} /\ dialog["organization"] = ClosedDialog /\ DOMAIN confirm = {"suspend"}
    BY <1>1, <1>2, <1>5, PageStart DEF OrganizationsInit
  <2>2. Seeded("organization", "saveOrganization")
    BY <2>1, SeededStart
  <2> QED
    BY <1>5, <2>1, <2>2 DEF PagesInv, Pages, Kept, WithFilter
<1>6. CASE page = "departments" /\ DepartmentsInit
  <2>1. /\ Core /\ Filters = {Nothing} /\ DOMAIN dialog = {"department"} /\ extra = Nothing
        /\ calls = {} /\ dialog["department"] = ClosedDialog /\ DOMAIN confirm = {"delete"}
    BY <1>1, <1>2, <1>6, PageStart DEF DepartmentsInit
  <2>2. Seeded("department", "saveDepartment")
    BY <2>1, SeededStart
  <2> QED
    BY <1>6, <2>1, <2>2 DEF PagesInv, Pages, Kept, WithFilter
<1>7. CASE page = "employees" /\ EmployeesInit
  <2>1. /\ Core /\ Filters = {Nothing} /\ DOMAIN dialog = {"employee"} /\ extra = Closed
        /\ calls = {} /\ dialog["employee"] = ClosedDialog
        /\ DOMAIN confirm = {"reset", "terminate"}
    BY <1>1, <1>2, <1>7, PageStart DEF EmployeesInit
  <2>2. Seeded("employee", "saveEmployee") /\ Resets
    BY <2>1, SeededStart DEF Resets
  <2> QED
    BY <1>7, <2>1, <2>2 DEF PagesInv, Pages, Kept, WithFilter
<1>8. CASE page = "branches" /\ BranchesInit
  <2>1. /\ Core /\ Filters = {Nothing} /\ DOMAIN dialog = {"branch"} /\ extra = Nothing
        /\ calls = {} /\ dialog["branch"] = ClosedDialog /\ DOMAIN confirm = {"delete"}
    BY <1>1, <1>2, <1>8, PageStart DEF BranchesInit
  <2>2. Seeded("branch", "saveBranch") /\ Positions
    BY <2>1, SeededStart DEF Positions, PositionIsNew, ClosedDialog
  <2> QED
    BY <1>8, <2>1, <2>2 DEF PagesInv, Pages, Kept, WithFilter
<1>9. CASE page = "shifts" /\ ShiftsInit
  <2>1. /\ Core /\ Filters = {Nothing} /\ DOMAIN dialog = {"shift"} /\ extra = Nothing
        /\ calls = {} /\ dialog["shift"] = ClosedDialog /\ DOMAIN confirm = {"delete"}
    BY <1>1, <1>2, <1>9, PageStart DEF ShiftsInit
  <2>2. Seeded("shift", "saveShift")
    BY <2>1, SeededStart
  <2> QED
    BY <1>9, <2>1, <2>2 DEF PagesInv, Pages, Kept, WithFilter
<1>10. ASSUME NEW W, Nothing \in W, RequestsInit(W)
       PROVE  Core /\ Filters = W /\ Reasons
  <2>1. /\ Core /\ Filters = W /\ DOMAIN dialog = {"reject"} /\ extra = {}
        /\ calls = {} /\ dialog["reject"] = ClosedDialog
    BY <1>1, <1>10, PageStart DEF RequestsInit
  <2>2. Reasons
    BY <2>1 DEF Reasons, ClosedDialog
  <2> QED
    BY <2>1, <2>2
<1>11. CASE page = "requests" /\ RequestsInit({Nothing})
  BY <1>2, <1>10, <1>11 DEF PagesInv, Pages, Kept, WithFilter
<1>12. CASE page = "filtered" /\ RequestsInit(Choices)
  BY <1>2, <1>10, <1>12 DEF PagesInv, Pages, Kept, WithFilter
<1>13. CASE page = "balances" /\ BalancesInit(Choices)
  <2>1. Core /\ Filters = Choices /\ extra = Nothing
    BY <1>1, <1>2, <1>13, PageStart DEF BalancesInit
  <2> QED
    BY <1>13, <2>1 DEF PagesInv, Pages, Kept, WithFilter
<1>14. CASE page = "types" /\ TypesInit
  <2>1. /\ Core /\ Filters = {Nothing} /\ DOMAIN dialog = {"type"} /\ extra = FALSE
        /\ calls = {} /\ dialog["type"] = ClosedDialog
    BY <1>1, <1>2, <1>14, PageStart DEF TypesInit
  <2>2. Seeded("type", "saveType")
    BY <2>1, SeededStart
  <2> QED
    BY <1>14, <2>1, <2>2 DEF PagesInv, Pages, Kept, WithFilter
<1>15. CASE page \in {"rule", "platform"} /\ FormInit
  <2>1. Core /\ Filters = {Nothing} /\ extra = NoForm
    BY <1>1, <1>2, <1>15, PageStart DEF FormInit
  <2>2. NoForm \in Form /\ ~NoForm.saved
    BY ConsoleAssumption DEF NoForm, Form
  <2> QED
    BY <1>15, <2>1, <2>2 DEF PagesInv, Pages, Kept, WithFilter, SavedIsTrue
<1>16. CASE page \in {"records", "notifications"} /\ RecordsInit(Choices)
  <2>1. Core /\ Filters = Choices /\ extra = Nothing
    BY <1>1, <1>2, <1>16, PageStart DEF RecordsInit
  <2> QED
    BY <1>16, <2>1 DEF PagesInv, Pages, Kept, WithFilter
<1> QED
  BY <1>1, <1>3, <1>4, <1>5, <1>6, <1>7, <1>8, <1>9, <1>11, <1>12, <1>13, <1>14, <1>15, <1>16
     DEF Starts

\* A step of a page keeps what its cache, its calls and its dialogs stand for.
LEMMA TurnsKeep == PagesInv /\ page' = page /\ Turns => PagesInv'
<1> SUFFICES ASSUME PagesInv, page' = page, Turns PROVE PagesInv'
  OBVIOUS
<1>1. /\ page \in Pages /\ Core /\ Kept
      /\ Filters = IF WithFilter THEN Choices ELSE {Nothing}
  BY DEF PagesInv
<1>2. WithFilter' = WithFilter /\ page' \in Pages
  BY <1>1 DEF WithFilter
<1>3. SUFFICES Core' /\ Shape /\ Kept'
  BY <1>1, <1>2 DEF PagesInv, Shape
<1>4. CASE page = "plans" /\ PlansNext
  <2>1. Seeded("plan", "savePlan") /\ extra = Nothing
    BY <1>1, <1>4 DEF Kept
  <2>2. Core' /\ Shape /\ Seeded("plan", "savePlan")' /\ extra' = Nothing
    BY <1>1, <1>4, <2>1, PlansKeep
  <2> QED
    BY <1>4, <2>2 DEF Kept
<1>5. CASE page = "subscriptions" /\ SubscriptionsNext
  <2>1. "assign" \in DOMAIN dialog /\ extra \in BOOLEAN
    BY <1>1, <1>5 DEF Kept
  <2>2. Core' /\ Shape /\ extra' \in BOOLEAN
    BY <1>1, <1>5, <2>1, SubscriptionsKeep
  <2>3. "assign" \in DOMAIN dialog'
    BY <2>1, <2>2 DEF Shape
  <2> QED
    BY <1>5, <2>2, <2>3 DEF Kept
<1>6. CASE page = "organizations" /\ OrganizationsNext
  <2>1. Seeded("organization", "saveOrganization") /\ "suspend" \in DOMAIN confirm /\ extra = Nothing
    BY <1>1, <1>6 DEF Kept
  <2>2. Core' /\ Shape /\ Seeded("organization", "saveOrganization")' /\ extra' = Nothing
    BY <1>1, <1>6, <2>1, OrganizationsKeep
  <2>3. "suspend" \in DOMAIN confirm'
    BY <2>1, <2>2 DEF Shape
  <2> QED
    BY <1>6, <2>2, <2>3 DEF Kept
<1>7. CASE page = "departments" /\ DepartmentsNext
  <2>1. Seeded("department", "saveDepartment") /\ "delete" \in DOMAIN confirm /\ extra = Nothing
    BY <1>1, <1>7 DEF Kept
  <2>2. Core' /\ Shape /\ Seeded("department", "saveDepartment")' /\ extra' = Nothing
    BY <1>1, <1>7, <2>1, DepartmentsKeep
  <2>3. "delete" \in DOMAIN confirm'
    BY <2>1, <2>2 DEF Shape
  <2> QED
    BY <1>7, <2>2, <2>3 DEF Kept
<1>8. CASE page = "employees" /\ EmployeesNext
  <2>1. /\ Seeded("employee", "saveEmployee") /\ {"reset", "terminate"} \subseteq DOMAIN confirm
        /\ extra \in Rows \cup {Closed} /\ Resets
    BY <1>1, <1>8 DEF Kept
  <2>2. /\ Core' /\ Shape /\ Seeded("employee", "saveEmployee")'
        /\ extra' \in Rows \cup {Closed} /\ Resets'
    BY <1>1, <1>8, <2>1, EmployeesKeep
  <2>3. {"reset", "terminate"} \subseteq DOMAIN confirm'
    BY <2>1, <2>2 DEF Shape
  <2> QED
    BY <1>8, <2>2, <2>3 DEF Kept
<1>9. CASE page = "branches" /\ BranchesNext
  <2>1. /\ Seeded("branch", "saveBranch") /\ "delete" \in DOMAIN confirm
        /\ extra = Nothing /\ Positions
    BY <1>1, <1>9 DEF Kept
  <2>2. /\ Core' /\ Shape /\ Seeded("branch", "saveBranch")'
        /\ extra' = Nothing /\ Positions'
    BY <1>1, <1>9, <2>1, BranchesKeep
  <2>3. "delete" \in DOMAIN confirm'
    BY <2>1, <2>2 DEF Shape
  <2> QED
    BY <1>9, <2>2, <2>3 DEF Kept
<1>10. CASE page = "shifts" /\ ShiftsNext
  <2>1. Seeded("shift", "saveShift") /\ "delete" \in DOMAIN confirm /\ extra = Nothing
    BY <1>1, <1>10 DEF Kept
  <2>2. Core' /\ Shape /\ Seeded("shift", "saveShift")' /\ extra' = Nothing
    BY <1>1, <1>10, <2>1, ShiftsKeep
  <2>3. "delete" \in DOMAIN confirm'
    BY <2>1, <2>2 DEF Shape
  <2> QED
    BY <1>10, <2>2, <2>3 DEF Kept
<1>11. CASE page \in {"requests", "filtered"} /\ RequestsNext
  <2>1. Reasons /\ page # "types"
    BY <1>1, <1>11 DEF Kept
  <2>2. Core' /\ Shape /\ Reasons'
    BY <1>1, <1>11, <2>1, RequestsKeep
  <2> QED
    BY <1>11, <2>2 DEF Kept
<1>12. CASE page = "balances" /\ BalancesNext
  <2>1. extra = Nothing
    BY <1>1, <1>12 DEF Kept
  <2>2. Core' /\ Shape /\ extra' = Nothing
    BY <1>1, <1>12, <2>1, BalancesKeep
  <2> QED
    BY <1>12, <2>2 DEF Kept
<1>13. CASE page = "types" /\ TypesNext
  <2>1. /\ Seeded("type", "saveType") /\ extra \in BOOLEAN /\ (extra = TRUE => mounted)
        /\ Filters = {Nothing}
    BY <1>1, <1>13 DEF Kept, WithFilter
  <2>2. /\ Core' /\ Shape /\ Seeded("type", "saveType")'
        /\ extra' \in BOOLEAN /\ (extra' = TRUE => mounted')
    BY <1>1, <1>13, <2>1, TypesKeep
  <2> QED
    BY <1>13, <2>2 DEF Kept
<1>14. CASE page \in {"rule", "platform"} /\ (AttendanceRuleSection \/ PlatformSettings)
  <2>1. extra \in Form /\ SavedIsTrue /\ page # "types"
    BY <1>1, <1>14 DEF Kept
  <2>2. Core' /\ Shape /\ extra' \in Form /\ SavedIsTrue'
    BY <1>1, <1>14, <2>1, SettingsKeep
  <2> QED
    BY <1>14, <2>2 DEF Kept
<1>15. CASE /\ page \in {"records", "notifications"}
            /\ Watching \/ (\E f \in Filters : ChooseFilter(f)) \/ Notifications
  <2>1. extra = Nothing /\ page # "types"
    BY <1>1, <1>15 DEF Kept
  <2>2. Core' /\ Shape /\ extra' = Nothing
    BY <1>1, <1>15, <2>1, RecordsKeep
  <2> QED
    BY <1>15, <2>2 DEF Kept
<1> QED
  BY <1>4, <1>5, <1>6, <1>7, <1>8, <1>9, <1>10, <1>11, <1>12, <1>13, <1>14, <1>15
     DEF Turns, AttendanceList, SecurityEvents, AuditLogViewer, OrgAdminDashboard,
         SuperAdminDashboard, ExpiryMonitor, Recommendations, MonthlyReport,
         AttendanceFilters, SecurityFilters, AuditFilters, MonthPicker

\* What goes on beside the pages leaves them as they are.
LEMMA PagesStay == PagesInv /\ page' = page /\ UNCHANGED pageVars => PagesInv'
<1> SUFFICES ASSUME PagesInv, page' = page, UNCHANGED pageVars PROVE PagesInv'
  OBVIOUS
<1> USE DEF pageVars
<1>1. Typed' /\ Keyed'
  BY DEF PagesInv, Core, Typed, Keyed, Filters, Answers, QueryOf
<1>2. Told'
  BY DEF PagesInv, Core, Told, InUse, Filters, Answers, Entry, KeyOf, Idle, Shown
<1>3. Kept'
  BY DEF PagesInv, Kept, Seeded, Resets, Positions, PositionIsNew, Reasons, SavedIsTrue
<1> QED
  BY <1>1, <1>2, <1>3 DEF PagesInv, Core, Filters, WithFilter

\* ... in every step of the consoles.
LEMMA PagesStep == PagesInv /\ [Next]_vars => PagesInv'
BY TurnsKeep, PagesStay DEF Next, vars, pageVars

-----------------------------------------------------------------------------
(* What the pages promise, of the invariant *)

\* The forms carry what their dialogs did.
LEMMA SeededIsFresh ==
  ASSUME NEW d, NEW op, Seeded(d, op)
  PROVE  FreshForms({op})
BY DEF Seeded, FreshForms

\* Seven pages, seven forms.
LEMMA KeptIsFresh == PagesInv => Fresh
<1> SUFFICES ASSUME Kept PROVE Fresh
  BY DEF PagesInv
<1>1. page = "plans" => PlanForms
  BY SeededIsFresh DEF Kept, PlanForms
<1>2. page = "organizations" => OrganizationForms
  BY SeededIsFresh DEF Kept, OrganizationForms
<1>3. page = "departments" => DepartmentForms
  BY SeededIsFresh DEF Kept, DepartmentForms
<1>4. page = "employees" => EmployeeForms
  BY SeededIsFresh DEF Kept, EmployeeForms
<1>5. page = "branches" => BranchForms
  BY SeededIsFresh DEF Kept, BranchForms
<1>6. page = "shifts" => ShiftForms
  BY SeededIsFresh DEF Kept, ShiftForms
<1>7. page = "types" => TypeForms
  BY SeededIsFresh DEF Kept, TypeForms
<1> QED
  BY <1>1, <1>2, <1>3, <1>4, <1>5, <1>6, <1>7 DEF Fresh

\* The entry in use is the one on screen.
LEMMA ToldPages ==
  PagesInv /\ page # "signIn" =>
      IF page = "types" THEN TypesAreShown
      ELSE IF page \in {"rule", "platform"} THEN ToldIsShown /\ SavedIsTrue
      ELSE page # "balances" => ToldIsShown
<1> SUFFICES ASSUME PagesInv, page # "signIn"
             PROVE  IF page = "types" THEN TypesAreShown
                    ELSE IF page \in {"rule", "platform"} THEN ToldIsShown /\ SavedIsTrue
                    ELSE page # "balances" => ToldIsShown
  OBVIOUS
<1>1. Told /\ Kept
  BY DEF PagesInv, Core
<1>2. page \notin {"types", "balances"} => ToldIsShown
  BY <1>1 DEF Told, InUse, ToldIsShown
<1>3. page = "types" => TypesAreShown
  BY <1>1 DEF Told, InUse, ToldIsShown, TypesAreShown, Kept
<1>4. page \in {"rule", "platform"} => SavedIsTrue
  BY <1>1 DEF Kept
<1> QED
  BY <1>2, <1>3, <1>4

\* The entry of a filter holds rows of that filter.
LEMMA KeyedAnswers == PagesInv => AnswersFilter
BY DEF PagesInv, Core, Typed, Keyed, AnswersFilter, Entry, KeyOf, Shown

\* The positions and the reasons go where they were meant to.
LEMMA NoneIsReused == PagesInv => NothingReused
BY DEF PagesInv, Kept, Positions, Reasons, NothingReused, ReasonUsedOnce

\* The variables of the pages have their types.
LEMMA PagesTyped ==
  PagesInv => PageTypeOK(IF WithFilter THEN Choices ELSE {Nothing}, Extras)
<1> SUFFICES ASSUME PagesInv
             PROVE  PageTypeOK(IF WithFilter THEN Choices ELSE {Nothing}, Extras)
  OBVIOUS
<1>1. Typed /\ Kept /\ page \in Pages /\ Filters = IF WithFilter THEN Choices ELSE {Nothing}
  BY DEF PagesInv, Core
<1>2. extra \in Extras
  BY <1>1 DEF Kept, Reasons, Extras, Pages
<1> QED
  BY <1>1, <1>2 DEF Typed, PageTypeOK, Answers

-----------------------------------------------------------------------------
(* The export of a report *)

\* Nobody has asked for an export.
LEMMA ExportStart == Export!ExportInit => ExportInv
<1> SUFFICES ASSUME Export!ExportInit PROVE ExportInv
  OBVIOUS
<1>1. Export!ExportTypeOK
  BY WebConsoleAssumption
     DEF Export!ExportInit, Export!ExportTypeOK, Export!NoJob, Export!NotAsked, Export!NoRequest,
         Export!Jobs, Export!Statuses
<1>2. \A j \in Export!Jobs : Sound(jobs[j])
  BY DEF Sound, Export!ExportInit, Export!NoJob
<1>3. Acquainted /\ Waiting
  BY DEF Acquainted, Waiting, Export!ExportInit, Export!NotAsked, Export!NoRequest, Export!NoJob
<1> QED
  BY <1>1, <1>2, <1>3 DEF ExportInv

\* Rows are made and grow: none is unmade, and no file is taken back.
Grown ==
    /\ jobs' \in [Export!Jobs -> JobRow]
    /\ \A j \in Export!Jobs :
          /\ Sound(jobs'[j])
          /\ jobs[j].status # "none" => jobs'[j].status # "none"
          /\ jobs[j].stored => jobs'[j].stored

\* One row changes, to a row that is as sound.
LEMMA RowGrows ==
  ASSUME ExportInv, NEW j \in Export!Jobs, jobs' \in [Export!Jobs -> JobRow],
         \A i \in Export!Jobs \ {j} : jobs'[i] = jobs[i],
         Sound(jobs'[j]), jobs'[j].status # "none", jobs[j].stored => jobs'[j].stored
  PROVE  Grown
BY DEF ExportInv, Grown

\* The types of what surrounds the jobs.
Surroundings ==
    /\ request \in [Export!Jobs -> [stage: {"none", "sent", "answered", "failed"}, live: BOOLEAN]]
    /\ export \in [open: BOOLEAN, status: Export!Statuses \cup {"none"}, job: 0..MaxJobs,
                   late: BOOLEAN]
    /\ interval \in [Export!Jobs -> {"none", "page", "stray"}] /\ timer \in 0..MaxJobs
    /\ polls \subseteq [job: Export!Jobs, live: BOOLEAN,
                        answer: Export!Statuses \cup {"asked", "broken"}]

\* The invariant, part by part.
LEMMA ExportParts ==
  ExportInv => /\ Surroundings /\ jobs \in [Export!Jobs -> JobRow] /\ Acquainted /\ Waiting
               /\ \A j \in Export!Jobs : Sound(jobs[j])
               /\ Export!Jobs = 1..MaxJobs /\ MaxJobs \in Nat /\ 0 \notin Export!Jobs
BY WebConsoleAssumption
   DEF ExportInv, Export!ExportTypeOK, Surroundings, JobRow, Export!Jobs

\* What the page, the requests and the polls know of jobs stays true of them.
LEMMA GrownMeets ==
  ASSUME ExportInv, Grown
  PROVE  /\ \A j \in Export!Jobs :
               /\ request[j].stage = "answered" => jobs'[j].status # "none"
               /\ interval[j] # "none" => jobs'[j].status # "none"
         /\ \A p \in polls : /\ jobs'[p.job].status # "none"
                             /\ p.answer = "COMPLETED" => jobs'[p.job].stored
         /\ export.status = "COMPLETED" => jobs'[export.job].stored
<1>1. Surroundings /\ Acquainted /\ Waiting /\ Export!Jobs = 1..MaxJobs /\ MaxJobs \in Nat
  BY ExportParts
<1>2. export.job # 0 => export.job \in Export!Jobs
  BY <1>1 DEF Surroundings
<1>3. \A p \in polls : p.job \in Export!Jobs
  BY <1>1 DEF Surroundings
<1> QED
  BY <1>1, <1>2, <1>3 DEF Acquainted, Waiting, Grown

\* ... and back.
LEMMA ExportWhole ==
  ASSUME Grown, Surroundings', Acquainted', Waiting'
  PROVE  ExportInv'
<1>1. Export!ExportTypeOK'
  BY DEF Grown, Surroundings, Export!ExportTypeOK, JobRow
<1> QED
  BY <1>1 DEF ExportInv, Grown

\* The jobs are left alone.
LEMMA GrownStill == ExportInv /\ UNCHANGED jobs => Grown
BY ExportParts DEF Grown

\* Nothing but the jobs changes, and none is made.
LEMMA GrownKeeps ==
  ASSUME ExportInv, Grown, UNCHANGED <<request, export, interval, timer, polls>>,
         \A j \in Export!Jobs : jobs[j].status = "none" => jobs'[j].status = "none"
  PROVE  ExportInv'
<1>1. Surroundings' /\ Acquainted'
  BY ExportParts, GrownMeets DEF Surroundings, Acquainted
<1>2. Waiting'
  BY ExportParts, GrownMeets DEF Waiting, Asking
<1> QED
  BY <1>1, <1>2, ExportWhole

\* The task starts, stores its file, ends, fails or is killed.
LEMMA WorkKeeps ==
  ASSUME ExportInv, NEW j \in Export!Jobs, Export!generate_report_export(j) \/ Export!KillWorker(j)
  PROVE  ExportInv'
<1>1. jobs \in [Export!Jobs -> JobRow] /\ Sound(jobs[j])
  BY ExportParts
<1>2. ASSUME NEW row \in JobRow, jobs' = [jobs EXCEPT ![j] = row],
             Sound(row), row.status # "none", jobs[j].stored => row.stored,
             jobs[j].worker # "none", UNCHANGED <<request, export, interval, timer, polls>>
      PROVE  ExportInv'
  <2>1. Grown
    BY <1>1, <1>2, RowGrows
  <2>2. \A i \in Export!Jobs : jobs[i].status = "none" => jobs'[i].status = "none"
    BY <1>1, <1>2 DEF Sound
  <2> QED
    BY <1>2, <2>1, <2>2, GrownKeeps
<1>3. ASSUME NEW from, NEW status \in Export!Statuses,
             NEW worker \in {"building", "uploaded", "gone", "dead"},
             Export!Work(j, from, status, worker), from # "none",
             status = "PROCESSING" => worker # "gone",
             status = "COMPLETED" \/ worker = "uploaded" => jobs[j].stored
      PROVE  ExportInv'
  <2>1. PICK row : row = [jobs[j] EXCEPT !.status = status, !.worker = worker]
    OBVIOUS
  <2>2. /\ row \in JobRow /\ row.status = status /\ row.worker = worker
        /\ row.stored = jobs[j].stored
    BY <1>1, <2>1 DEF JobRow
  <2>3. /\ jobs' = [jobs EXCEPT ![j] = row] /\ jobs[j].worker # "none"
        /\ UNCHANGED <<request, export, interval, timer, polls>>
    BY <1>1, <1>3, <2>1 DEF Export!Work
  <2>4. Sound(row) /\ row.status # "none"
    BY <1>3, <2>2 DEF Sound, Export!Statuses
  <2> QED
    BY <1>2, <2>2, <2>3, <2>4
<1>4. CASE Export!StartTask(j)
  BY <1>3, <1>4 DEF Export!StartTask, Export!Statuses
<1>5. CASE Export!Upload(j)
  <2>1. PICK row : row = [jobs[j] EXCEPT !.stored = TRUE, !.worker = "uploaded"]
    OBVIOUS
  <2>2. /\ row \in JobRow /\ row.status = jobs[j].status /\ row.worker = "uploaded"
        /\ row.stored
    BY <1>1, <2>1 DEF JobRow
  <2>3. /\ jobs' = [jobs EXCEPT ![j] = row] /\ jobs[j].worker = "building"
        /\ UNCHANGED <<request, export, interval, timer, polls>>
    BY <1>1, <1>5, <2>1 DEF Export!Upload
  <2>4. Sound(row) /\ row.status # "none"
    BY <1>1, <2>2, <2>3 DEF Sound
  <2> QED
    BY <1>2, <2>2, <2>3, <2>4
<1>6. CASE Export!Complete(j)
  <2>1. jobs[j].stored
    BY <1>1, <1>6 DEF Export!Complete, Export!Work, Sound
  <2> QED
    BY <1>3, <1>6, <2>1 DEF Export!Complete, Export!Statuses
<1>7. CASE Export!FailTask(j)
  BY <1>3, <1>7 DEF Export!FailTask, Export!FailedStatus, Export!Statuses
<1>8. CASE Export!KillWorker(j)
  <2>1. PICK from \in {"building", "uploaded"} : Export!Work(j, from, jobs[j].status, "dead")
    BY <1>8 DEF Export!KillWorker
  <2>2. jobs[j].status \in Export!Statuses /\ (jobs[j].status = "COMPLETED" => jobs[j].stored)
    BY <1>1, <2>1 DEF Export!Work, Sound, JobRow
  <2> QED
    BY <1>3, <2>1, <2>2
<1> QED
  BY <1>4, <1>5, <1>6, <1>7, <1>8 DEF Export!generate_report_export

\* The server makes the row, queues the task and answers, or does not.
LEMMA ExportServed ==
  ASSUME ExportInv, NEW j \in Export!Jobs, Export!ServeExport(j)
  PROVE  ExportInv'
<1>1. /\ request[j].stage = "sent" /\ UNCHANGED <<export, interval, timer, polls>>
      /\ Surroundings /\ Acquainted /\ Waiting /\ jobs \in [Export!Jobs -> JobRow]
      /\ Sound(jobs[j]) /\ jobs[j].status = "none" /\ interval[j] = "none"
  BY ExportParts DEF Export!ServeExport, Acquainted
<1>2. PICK stage \in {"answered", "failed"} : request' = [request EXCEPT ![j].stage = stage]
  BY DEF Export!ServeExport
<1>3. \/ UNCHANGED jobs /\ stage = "failed"
      \/ \E worker \in {"queued", "gone"} : jobs' = [jobs EXCEPT ![j] = Export!Made(worker)]
  <2>1. CASE UNCHANGED jobs /\ request' = [request EXCEPT ![j].stage = "failed"]
    BY <1>1, <1>2, <2>1 DEF Surroundings
  <2> QED
    BY <2>1 DEF Export!ServeExport
<1>4. PICK r : r = [request[j] EXCEPT !.stage = stage]
  OBVIOUS
<1>5. /\ r \in [stage: {"none", "sent", "answered", "failed"}, live: BOOLEAN]
      /\ r.stage = stage /\ r.live = request[j].live /\ request' = [request EXCEPT ![j] = r]
  BY <1>1, <1>2, <1>4 DEF Surroundings
<1>6. /\ Grown /\ (stage = "answered" => jobs'[j].status # "none")
      /\ \A i \in Export!Jobs \ {j} : jobs'[i] = jobs[i]
  <2>1. CASE UNCHANGED jobs /\ stage = "failed"
    BY <2>1, GrownStill
  <2>2. ASSUME NEW worker \in {"queued", "gone"}, jobs' = [jobs EXCEPT ![j] = Export!Made(worker)]
        PROVE  Grown /\ jobs'[j].status # "none" /\ \A i \in Export!Jobs \ {j} : jobs'[i] = jobs[i]
    <3>1. PICK row : row = Export!Made(worker)
      OBVIOUS
    <3>2. row \in JobRow /\ row.status = "PENDING" /\ row.worker = worker /\ ~row.stored
      BY <3>1 DEF JobRow, Export!Made, Export!NoJob, Export!Statuses
    <3>3. Sound(row) /\ ~jobs[j].stored
      BY <1>1, <3>2 DEF Sound, JobRow
    <3>4. /\ jobs' \in [Export!Jobs -> JobRow] /\ jobs'[j] = row
          /\ \A i \in Export!Jobs \ {j} : jobs'[i] = jobs[i]
      BY <1>1, <2>2, <3>1, <3>2
    <3> QED
      BY <3>2, <3>3, <3>4, RowGrows
  <2> QED
    BY <1>3, <2>1, <2>2
<1>7. Surroundings'
  BY <1>1, <1>5 DEF Surroundings
<1>8. Acquainted'
  BY <1>1, <1>5, <1>6, GrownMeets DEF Acquainted, Surroundings
<1>9. Waiting'
  <2>1. Asking => Asking'
    BY <1>1, <1>5 DEF Asking, Surroundings
  <2> QED
    BY <1>1, <1>6, <2>1, GrownMeets DEF Waiting
<1> QED
  BY <1>6, <1>7, <1>8, <1>9, ExportWhole

\* The page is opened or left, and its button pressed.
LEMMA ReportsKeep ==
  ASSUME ExportInv, Export!OpenReports \/ Export!LeaveReports \/ Export!handleExport
  PROVE  ExportInv'
<1>1. Grown /\ UNCHANGED jobs
  BY GrownStill DEF Export!OpenReports, Export!LeaveReports, Export!handleExport
<1>2. /\ Surroundings /\ Acquainted /\ Waiting /\ 0 \in 0..MaxJobs
      /\ Export!Jobs = 1..MaxJobs /\ MaxJobs \in Nat
  BY ExportParts
<1> SUFFICES Surroundings' /\ Acquainted' /\ Waiting'
  BY <1>1, ExportWhole
<1>3. CASE Export!OpenReports
  <2>1. PICK opened : opened = [Export!NotAsked EXCEPT !.open = TRUE]
    OBVIOUS
  <2>2. /\ opened \in [open: BOOLEAN, status: {"none"}, job: 0..MaxJobs, late: BOOLEAN]
        /\ opened.status = "none"
    BY <1>2, <2>1 DEF Export!NotAsked
  <2>3. export' = opened /\ UNCHANGED <<request, interval, timer, polls>>
    BY <1>3, <2>1 DEF Export!OpenReports
  <2> QED
    BY <1>1, <1>2, <2>2, <2>3 DEF Surroundings, Acquainted, Waiting
<1>4. CASE Export!LeaveReports
  <2>1. PICK left : left = Export!NotAsked
    OBVIOUS
  <2>2. /\ left \in [open: BOOLEAN, status: {"none"}, job: 0..MaxJobs, late: BOOLEAN]
        /\ left.status = "none"
    BY <1>2, <2>1 DEF Export!NotAsked
  <2>3. /\ export' = left /\ timer' = 0
        /\ request' = [j \in Export!Jobs |-> [request[j] EXCEPT !.live = FALSE]]
        /\ interval' = [j \in Export!Jobs |->
                           IF j = timer \/ interval[j] = "none" THEN "none" ELSE "stray"]
        /\ polls' = {[p EXCEPT !.live = FALSE] : p \in polls}
    BY <1>4, <2>1 DEF Export!LeaveReports
  <2>4. ASSUME NEW j \in Export!Jobs
        PROVE  /\ request'[j] \in [stage: {"none", "sent", "answered", "failed"}, live: BOOLEAN]
               /\ request'[j].stage = request[j].stage
    <3>1. request[j] \in [stage: {"none", "sent", "answered", "failed"}, live: BOOLEAN]
      BY <1>2 DEF Surroundings
    <3> QED
      BY <2>3, <3>1
  <2>5. ASSUME NEW p \in polls'
        PROVE  \E q \in polls :
                  /\ p.job = q.job /\ p.answer = q.answer
                  /\ p \in [job: Export!Jobs, live: BOOLEAN,
                            answer: Export!Statuses \cup {"asked", "broken"}]
    <3>1. PICK q \in polls : p = [q EXCEPT !.live = FALSE]
      BY <2>3, <2>5
    <3>2. q \in [job: Export!Jobs, live: BOOLEAN,
                 answer: Export!Statuses \cup {"asked", "broken"}]
      BY <1>2 DEF Surroundings
    <3> QED
      BY <3>1, <3>2
  <2>6. Surroundings'
    BY <1>2, <2>2, <2>3, <2>4, <2>5 DEF Surroundings
  <2>7. Acquainted'
    BY <1>1, <1>2, <2>3, <2>4, <2>5 DEF Acquainted
  <2> QED
    BY <2>2, <2>3, <2>6, <2>7 DEF Waiting
<1>5. CASE Export!handleExport
  <2>1. PICK asked : asked = [export EXCEPT !.status = "PENDING", !.job = 0, !.late = FALSE]
    OBVIOUS
  <2>2. /\ asked \in [open: BOOLEAN, status: Export!Statuses \cup {"none"}, job: 0..MaxJobs,
                      late: BOOLEAN]
        /\ asked.status = "PENDING"
    BY <1>2, <2>1 DEF Surroundings, Export!Statuses
  <2>3. PICK j \in Export!Fresh : request' = [request EXCEPT ![j] = [stage |-> "sent", live |-> TRUE]]
    BY <1>5 DEF Export!handleExport
  <2>4. /\ j \in Export!Jobs /\ jobs[j].status = "none" /\ request[j].stage = "none"
        /\ export' = asked /\ UNCHANGED <<interval, timer, polls>>
    BY <1>5, <2>1 DEF Export!handleExport, Export!Fresh
  <2>5. Surroundings'
    BY <1>2, <2>2, <2>3, <2>4 DEF Surroundings
  <2>6. Acquainted'
    BY <1>1, <1>2, <2>3, <2>4 DEF Acquainted, Surroundings
  <2>7. Asking'
    BY <1>2, <2>3, <2>4 DEF Asking, Surroundings
  <2> QED
    BY <2>2, <2>4, <2>5, <2>6, <2>7 DEF Waiting
<1> QED
  BY <1>3, <1>4, <1>5

\* The page hears of its request, and the interval starts, and fires.
LEMMA AnswerKeeps ==
  ASSUME ExportInv, NEW j \in Export!Jobs,
         Export!pollJob(j) \/ Export!ExportRefused(j) \/ Export!Fire(j)
  PROVE  ExportInv'
<1>1. Grown /\ UNCHANGED jobs
  BY GrownStill DEF Export!pollJob, Export!ExportRefused, Export!Fire
<1>2. /\ Surroundings /\ Acquainted /\ Waiting /\ 0 \in 0..MaxJobs /\ j \in 0..MaxJobs /\ j # 0
      /\ Export!Jobs = 1..MaxJobs /\ MaxJobs \in Nat
  BY ExportParts
<1>3. PICK none : none = Export!NoRequest
  OBVIOUS
<1>4. /\ none \in [stage: {"none", "sent", "answered", "failed"}, live: BOOLEAN]
      /\ none.stage = "none"
  BY <1>3 DEF Export!NoRequest
<1> SUFFICES Surroundings' /\ Acquainted' /\ Waiting'
  BY <1>1, ExportWhole
<1>5. CASE Export!pollJob(j)
  <2>1. /\ request[j].stage = "answered" /\ request' = [request EXCEPT ![j] = none]
        /\ interval' = [interval EXCEPT ![j] = IF request[j].live THEN "page" ELSE "stray"]
        /\ timer' = IF request[j].live THEN j ELSE timer
        /\ UNCHANGED <<export, polls>>
    BY <1>3, <1>5 DEF Export!pollJob
  <2>2. interval[j] = "none" /\ jobs[j].status # "none"
    BY <1>2, <2>1 DEF Acquainted
  <2>3. Surroundings'
    BY <1>2, <1>4, <2>1 DEF Surroundings
  <2>4. Acquainted'
    BY <1>1, <1>2, <1>4, <2>1, <2>2 DEF Acquainted, Surroundings
  <2>5. Asking => Asking' \/ timer' # 0
    BY <1>2, <2>1 DEF Asking, Surroundings
  <2>6. timer # 0 => timer' # 0
    BY <1>2, <2>1
  <2> QED
    BY <1>1, <1>2, <2>1, <2>3, <2>4, <2>5, <2>6 DEF Waiting
<1>6. CASE Export!ExportRefused(j)
  <2>1. PICK refused : refused = [export EXCEPT !.status = "FAILED", !.job = 0]
    OBVIOUS
  <2>2. /\ refused \in [open: BOOLEAN, status: Export!Statuses \cup {"none"}, job: 0..MaxJobs,
                        late: BOOLEAN]
        /\ refused.status = "FAILED"
    BY <1>2, <2>1 DEF Surroundings, Export!Statuses
  <2>3. /\ request[j].stage = "failed" /\ request' = [request EXCEPT ![j] = none]
        /\ export' = IF request[j].live THEN refused ELSE export
        /\ UNCHANGED <<interval, timer, polls>>
    BY <1>3, <1>6, <2>1 DEF Export!ExportRefused
  <2>4. Surroundings'
    BY <1>2, <1>4, <2>2, <2>3 DEF Surroundings
  <2>5. Acquainted'
    BY <1>1, <1>2, <1>4, <2>3 DEF Acquainted, Surroundings
  <2>6. ~request[j].live /\ Asking => Asking'
    BY <1>2, <2>3 DEF Asking, Surroundings
  <2>7. Waiting'
    BY <1>1, <1>2, <2>2, <2>3, <2>6 DEF Waiting
  <2> QED
    BY <2>4, <2>5, <2>7
<1>7. CASE Export!Fire(j)
  <2>1. PICK poll : poll = [job |-> j, live |-> interval[j] = "page", answer |-> "asked"]
    OBVIOUS
  <2>2. /\ poll \in [job: Export!Jobs, live: BOOLEAN,
                     answer: Export!Statuses \cup {"asked", "broken"}]
        /\ poll.job = j /\ poll.answer = "asked"
    BY <2>1
  <2>3. /\ polls' = polls \cup {poll} /\ UNCHANGED <<request, export, interval, timer>>
        /\ jobs[j].status # "none"
    BY <1>2, <1>7, <2>1 DEF Export!Fire, Acquainted
  <2>4. Surroundings' /\ Acquainted'
    BY <1>1, <1>2, <2>2, <2>3 DEF Surroundings, Acquainted
  <2> QED
    BY <1>1, <1>2, <2>3, <2>4 DEF Waiting, Asking
<1> QED
  BY <1>5, <1>6, <1>7

\* A poll is answered by the server, or by the page that shows it.
LEMMA PollKeeps ==
  ASSUME ExportInv, NEW p \in polls,
         Export!ServePoll(p) \/ Export!Polled(p) \/ Export!StrayPolled(p)
  PROVE  ExportInv'
<1>1. Grown /\ UNCHANGED jobs /\ UNCHANGED request
  BY GrownStill DEF Export!ServePoll, Export!Polled, Export!StrayPolled
<1>2. /\ Surroundings /\ Acquainted /\ Waiting /\ 0 \in 0..MaxJobs
      /\ Export!Jobs = 1..MaxJobs /\ MaxJobs \in Nat
  BY ExportParts
<1>3. p \in [job: Export!Jobs, live: BOOLEAN, answer: Export!Statuses \cup {"asked", "broken"}]
  BY <1>2 DEF Surroundings
<1>4. Asking' <=> Asking
  BY <1>1 DEF Asking
<1> SUFFICES Surroundings' /\ Acquainted' /\ Waiting'
  BY <1>1, ExportWhole
<1>5. CASE Export!ServePoll(p)
  <2>1. PICK answer \in {jobs[p.job].status, "broken"} :
           polls' = (polls \ {p}) \cup {[p EXCEPT !.answer = answer]}
    BY <1>5 DEF Export!ServePoll
  <2>2. PICK served : served = [p EXCEPT !.answer = answer]
    OBVIOUS
  <2>3. /\ jobs[p.job].status \in Export!Statuses
        /\ jobs[p.job].status = "COMPLETED" => jobs[p.job].stored
    BY <1>2, <1>3, ExportParts DEF Acquainted, JobRow, Sound
  <2>4. /\ served \in [job: Export!Jobs, live: BOOLEAN,
                       answer: Export!Statuses \cup {"asked", "broken"}]
        /\ served.job = p.job /\ served.answer = answer
    BY <1>3, <2>2, <2>3
  <2>5. polls' = (polls \ {p}) \cup {served} /\ UNCHANGED <<export, interval, timer>>
    BY <1>5, <2>1, <2>2 DEF Export!ServePoll
  <2>6. Surroundings' /\ Acquainted'
    BY <1>1, <1>2, <2>3, <2>4, <2>5 DEF Surroundings, Acquainted
  <2> QED
    BY <1>1, <1>2, <1>4, <2>5, <2>6 DEF Waiting
<1>6. CASE Export!Polled(p)
  <2>1. PICK shown : shown = [export EXCEPT !.status = Export!Outcome(p),
                                            !.job = IF p.answer = "broken" THEN 0 ELSE p.job,
                                            !.late = p.job # timer]
    OBVIOUS
  <2>2. Export!Outcome(p) = IF p.answer = "broken" THEN "FAILED" ELSE p.answer
    BY DEF Export!Outcome
  <2>3. /\ shown \in [open: BOOLEAN, status: Export!Statuses, job: 0..MaxJobs, late: BOOLEAN]
        /\ shown.status = IF p.answer = "broken" THEN "FAILED" ELSE p.answer
        /\ p.answer # "broken" => shown.job = p.job
        /\ shown.late = (p.job # timer)
    <3>1. PICK status : status = Export!Outcome(p)
      OBVIOUS
    <3>2. PICK job : job = IF p.answer = "broken" THEN 0 ELSE p.job
      OBVIOUS
    <3>3. PICK late : late = (p.job # timer)
      OBVIOUS
    <3>4. p.answer # "asked" /\ status \in Export!Statuses
      BY <1>3, <1>6, <2>2, <3>1 DEF Export!Polled, Export!Statuses
    <3>5. job \in 0..MaxJobs /\ late \in BOOLEAN
      BY <1>2, <1>3, <3>2, <3>3
    <3>6. shown = [export EXCEPT !.status = status, !.job = job, !.late = late]
      BY <2>1, <3>1, <3>2, <3>3
    <3>7. /\ shown \in [open: BOOLEAN, status: Export!Statuses, job: 0..MaxJobs, late: BOOLEAN]
          /\ shown.status = status /\ shown.job = job /\ shown.late = late
      BY <1>2, <3>4, <3>5, <3>6 DEF Surroundings
    <3> QED
      BY <2>2, <3>1, <3>2, <3>3, <3>7
  <2>4. /\ export' = shown /\ polls' = polls \ {p}
        /\ timer' = IF Export!Over(p.answer) THEN 0 ELSE timer
        /\ interval' = [j \in Export!Jobs |-> IF Export!Over(p.answer) /\ j = timer THEN "none"
                                              ELSE interval[j]]
    BY <1>6, <2>1 DEF Export!Polled
  <2>5. Surroundings'
    BY <1>1, <1>2, <2>3, <2>4 DEF Surroundings
  <2>6. Acquainted'
    BY <1>1, <1>2, <2>4 DEF Acquainted, Surroundings
  <2>7. shown.status = "COMPLETED" => shown.job # 0 /\ jobs[shown.job].stored
    BY <1>2, <1>3, <2>3 DEF Acquainted
  <2>8. shown.status \in {"PENDING", "PROCESSING"} /\ ~shown.late => timer' # 0
    <3>1. shown.status \in {"PENDING", "PROCESSING"} => ~Export!Over(p.answer)
      BY <2>3 DEF Export!Over, Export!Ended
    <3>2. ~shown.late => timer # 0
      BY <1>2, <1>3, <2>3
    <3> QED
      BY <2>4, <3>1, <3>2
  <2> QED
    BY <1>1, <2>4, <2>5, <2>6, <2>7, <2>8 DEF Waiting
<1>7. CASE Export!StrayPolled(p)
  <2>1. /\ polls' \subseteq polls /\ UNCHANGED <<export, timer>>
        /\ interval' \in [Export!Jobs -> {"none", "page", "stray"}]
        /\ \A j \in Export!Jobs : \/ interval'[j] = interval[j]
                                  \/ interval[j] = "stray" /\ interval'[j] = "none"
    BY <1>2, <1>7 DEF Export!StrayPolled, Surroundings
  <2>2. Surroundings'
    BY <1>1, <1>2, <2>1 DEF Surroundings
  <2>3. Acquainted'
    BY <1>1, <1>2, <2>1 DEF Acquainted, Surroundings
  <2> QED
    BY <1>1, <1>2, <1>4, <2>1, <2>2, <2>3 DEF Waiting
<1> QED
  BY <1>5, <1>6, <1>7

\* However requests, polls, visits and failures interleave.
LEMMA ExportKeeps == ExportInv /\ Export!ExportNext => ExportInv'
BY WorkKeeps, ExportServed, ReportsKeep, AnswerKeeps, PollKeeps DEF Export!ExportNext

\* Nothing of the export changes elsewhere.
LEMMA ExportStep == ExportInv /\ [Next]_vars => ExportInv'
<1> SUFFICES ASSUME ExportInv, [Next]_vars PROVE ExportInv'
  OBVIOUS
<1>1. CASE Export!ExportNext
  BY <1>1, ExportKeeps
<1>2. CASE UNCHANGED exportVars
  BY <1>2 DEF exportVars, ExportInv, Export!ExportTypeOK, Acquainted, Waiting, Asking
<1> QED
  BY <1>1, <1>2 DEF Next, vars

\* A link leads to a file, and who waits is answered, or was answered late.
LEMMA ExportAnswers == ExportInv => ExportIsAnswered /\ Export!ExportTypeOK
BY ExportParts
   DEF ExportInv, Sound, Acquainted, Waiting, Asking, ExportIsAnswered, Export!LinkLeadsToFile,
       Export!NothingHangs

-----------------------------------------------------------------------------
(* The sign-in *)

\* Nobody is signed in, and the account has its first password.
LEMMA SignInStart == SignIn!SignInInit => SignInInv
<1> SUFFICES ASSUME SignIn!SignInInit PROVE SignInInv
  OBVIOUS
<1>1. 0 \in SignIn!Passwords /\ 1 \in 1..MaxPasswords + 1
  BY WebConsoleAssumption DEF SignIn!Passwords
<1>2. PICK none : none = SignIn!NoRequest
  OBVIOUS
<1>3. /\ none \in SignIn!Request /\ none.stage = "idle"
      /\ none.given = 0 /\ none.fresh = 0 /\ none.of = 0
  BY <1>1, <1>2 DEF SignIn!NoRequest, SignIn!Request
<1>4. posted \in [SignIn!Forms -> SignIn!Request] /\ \A form \in SignIn!Forms : posted[form] = none
  BY <1>2, <1>3 DEF SignIn!SignInInit
<1>5. SignIn!SignInTypeOK
  BY <1>1, <1>4 DEF SignIn!SignInInit, SignIn!SignInTypeOK, SignIn!Routes
<1> QED
  BY <1>3, <1>4, <1>5 DEF SignIn!SignInInit, SignInInv, FormSound

\* Fields of a form, and those of the invariant.
LEMMA SignInParts ==
  ASSUME SignInInv
  PROVE  /\ posted \in [SignIn!Forms -> SignIn!Request]
         /\ next \in 1..MaxPasswords + 1 /\ had \subseteq SignIn!Passwords
         /\ account \in [password: SignIn!Passwords, must: BOOLEAN] /\ account.password \in had
         /\ account.password < next
         /\ \A form \in SignIn!Forms :
               /\ posted[form] \in SignIn!Request /\ FormSound(posted[form])
               /\ posted[form].given \in SignIn!Passwords /\ posted[form].fresh \in SignIn!Passwords
               /\ posted[form].of \in SignIn!Passwords
<1>1. \A form \in SignIn!Forms : posted[form] \in SignIn!Request /\ FormSound(posted[form])
  BY DEF SignInInv, SignIn!SignInTypeOK
<1>2. \A r \in SignIn!Request : /\ r.given \in SignIn!Passwords /\ r.fresh \in SignIn!Passwords
                              /\ r.of \in SignIn!Passwords
  BY DEF SignIn!Request
<1>3. account.password < next
  BY WebConsoleAssumption DEF SignInInv, SignIn!SignInTypeOK
<1> QED
  BY <1>1, <1>2, <1>3 DEF SignInInv, SignIn!SignInTypeOK

\* The forms stay sound while one of them moves, and passwords that could enter can.
LEMMA FormsStay ==
  ASSUME SignInInv, NEW form \in SignIn!Forms, NEW r \in SignIn!Request,
         posted' = [posted EXCEPT ![form] = r], FormSound(r)',
         had \subseteq had', next' \in Nat, next <= next',
         \A x \in had : NotTemporary(x) => NotTemporary(x)'
  PROVE  /\ posted' \in [SignIn!Forms -> SignIn!Request]
         /\ \A f \in SignIn!Forms : FormSound(posted[f])'
<1>1. posted \in [SignIn!Forms -> SignIn!Request] /\ next \in Nat
  BY SignInParts, WebConsoleAssumption
<1>2. posted' \in [SignIn!Forms -> SignIn!Request]
  BY <1>1
<1>3. ASSUME NEW f \in SignIn!Forms PROVE FormSound(posted[f])'
  <2>1. CASE f = form
    BY <1>1, <2>1
  <2>2. CASE f # form
    <3>1. posted'[f] = posted[f]
      BY <1>1, <2>2
    <3>2. FormSound(posted[f]) /\ posted[f].given \in Nat /\ posted[f].fresh \in Nat
          /\ posted[f].of \in Nat
      BY SignInParts DEF SignIn!Passwords
    <3> QED
      BY <1>1, <3>1, <3>2 DEF FormSound
  <2> QED
    BY <2>1, <2>2
<1> QED
  BY <1>2, <1>3

\* The form stays blank when it has been dealt with, or is loaded anew.
LEMMA BlankForm ==
  ASSUME SignInInv, NEW none, none = SignIn!NoRequest, next' \in Nat, next <= next'
  PROVE  none \in SignIn!Request /\ FormSound(none)'
<1>1. 0 \in SignIn!Passwords /\ 0 < next'
  BY SignInParts, WebConsoleAssumption DEF SignIn!Passwords
<1>2. /\ none \in SignIn!Request /\ none.stage = "idle"
      /\ none.given = 0 /\ none.fresh = 0 /\ none.of = 0
  BY <1>1 DEF SignIn!NoRequest, SignIn!Request
<1> QED
  BY <1>1, <1>2 DEF FormSound

\* A form has been dealt with: what else changes is the page's.
LEMMA FormsSettle ==
  ASSUME SignInInv, NEW form \in SignIn!Forms, SignIn!Settle(form), UNCHANGED <<account, had, next>>
  PROVE  /\ posted' \in [SignIn!Forms -> SignIn!Request]
         /\ \A f \in SignIn!Forms : FormSound(posted[f])'
<1>1. PICK none : none = SignIn!NoRequest
  OBVIOUS
<1>2. next' \in Nat /\ next <= next'
  BY SignInParts, WebConsoleAssumption
<1>3. none \in SignIn!Request /\ FormSound(none)'
  BY <1>1, <1>2, BlankForm
<1>4. posted' = [posted EXCEPT ![form] = none]
  BY <1>1 DEF SignIn!Settle
<1>5. \A x \in had : NotTemporary(x) => NotTemporary(x)'
  BY DEF NotTemporary
<1> QED
  BY <1>2, <1>3, <1>4, <1>5, FormsStay

\* The server answers a form, having looked at the password it was sent.
LEMMA FormServed ==
  ASSUME SignInInv, NEW form \in SignIn!Forms, SignIn!Serve(form)
  PROVE  SignInInv'
<1>1. UNCHANGED <<signedIn, mustChangePassword, vouched, route, leaving, done, timeout, next>>
  BY DEF SignIn!Serve, SignIn!context
<1>2. next \in Nat /\ next' \in Nat /\ next <= next'
  BY <1>1, SignInParts, WebConsoleAssumption
<1> DEFINE Safe == /\ account' \in [password: SignIn!Passwords, must: BOOLEAN]
                   /\ account'.password \in had' /\ had \subseteq had'
                   /\ had' \subseteq SignIn!Passwords /\ had' \subseteq 0..next - 1
                   /\ links' = links
                   /\ \A x \in 0..next - 1 : NotTemporary(x) => NotTemporary(x)'
<1>3. ASSUME Safe, NEW r \in SignIn!Request, posted' = [posted EXCEPT ![form] = r], FormSound(r)'
      PROVE  SignInInv'
  <2>1. had \subseteq 0..next - 1 /\ vouched \in 0..next - 1
    BY DEF SignInInv
  <2>2. /\ posted' \in [SignIn!Forms -> SignIn!Request]
        /\ \A f \in SignIn!Forms : FormSound(posted[f])'
    BY <1>2, <1>3, <2>1, FormsStay
  <2>3. SignIn!SignInTypeOK'
    BY <1>1, <1>3, <2>2 DEF SignInInv, SignIn!SignInTypeOK
  <2>4. signedIn' /\ ~mustChangePassword' => NotTemporary(vouched)'
    BY <1>1, <1>3, <2>1 DEF SignInInv
  <2>5. /\ 0 \in had' /\ had' \cup {vouched'} \subseteq 0..next' - 1 /\ done' \in had'
        /\ links' \subseteq had'
    BY <1>1, <1>3, <2>1 DEF SignInInv
  <2> QED
    BY <2>2, <2>3, <2>4, <2>5 DEF SignInInv
<1>4. UNCHANGED <<account, had, links>> => Safe
  BY SignInParts DEF SignInInv, SignIn!SignInTypeOK, NotTemporary
<1>5. SignIn!SetPassword(posted[form].fresh, FALSE) =>
         Safe /\ account' = [password |-> posted[form].fresh, must |-> FALSE] /\ posted[form].fresh \in had'
  <2>1. SUFFICES ASSUME SignIn!SetPassword(posted[form].fresh, FALSE)
                 PROVE  /\ Safe /\ posted[form].fresh \in had'
                        /\ account' = [password |-> posted[form].fresh, must |-> FALSE]
    OBVIOUS
  <2>2. PICK x \in 0..next - 1 : x = posted[form].fresh /\ x \in SignIn!Passwords
    BY <1>2, SignInParts DEF FormSound, SignIn!Passwords
  <2>3. account' = [password |-> x, must |-> FALSE] /\ had' = had \cup {x} /\ links' = links
    BY <2>1, <2>2 DEF SignIn!SetPassword
  <2>4. account'.password = x /\ account'.must = FALSE
        /\ account' \in [password: SignIn!Passwords, must: BOOLEAN]
    BY <2>2, <2>3
  <2>5. had' \subseteq SignIn!Passwords /\ had' \subseteq 0..next - 1
    BY <2>2, <2>3, SignInParts DEF SignInInv
  <2> QED
    BY <2>2, <2>3, <2>4, <2>5 DEF NotTemporary
<1>6. ASSUME NEW stage \in {"ok", "must", "error", "expired"}, SignIn!Answer(form, stage), Safe,
             stage = "ok" => ~account.must /\ account' = account
      PROVE  SignInInv'
  <2>1. PICK r : r = [posted[form] EXCEPT !.stage = stage, !.of = account.password]
    OBVIOUS
  <2>2. /\ r \in SignIn!Request /\ r.stage = stage /\ r.of = account.password
        /\ r.given = posted[form].given /\ r.fresh = posted[form].fresh
    BY <2>1, SignInParts DEF SignIn!Request
  <2>3. posted' = [posted EXCEPT ![form] = r]
    BY <1>6, <2>1, SignInParts DEF SignIn!Answer
  <2>4. FormSound(posted[form]) /\ account.password \in had /\ account.password < next
    BY SignInParts
  <2>5. FormSound(r)'
    BY <1>1, <1>6, <2>2, <2>4 DEF FormSound, NotTemporary
  <2> QED
    BY <1>3, <1>6, <2>2, <2>3, <2>5
<1>7. ASSUME SignIn!SetPassword(posted[form].fresh, FALSE),
             posted' = [posted EXCEPT ![form].stage = "ok", ![form].of = posted[form].fresh]
      PROVE  SignInInv'
  <2>1. PICK r : r = [posted[form] EXCEPT !.stage = "ok", !.of = posted[form].fresh]
    OBVIOUS
  <2>2. /\ r \in SignIn!Request /\ r.stage = "ok" /\ r.of = posted[form].fresh
        /\ r.given = posted[form].given /\ r.fresh = posted[form].fresh
    BY <2>1, SignInParts DEF SignIn!Request
  <2>3. posted' = [posted EXCEPT ![form] = r]
    BY <1>7, <2>1, SignInParts
  <2>4. FormSound(posted[form])
    BY SignInParts
  <2>5. FormSound(r)'
    BY <1>1, <1>5, <1>7, <2>2, <2>4 DEF FormSound, NotTemporary
  <2> QED
    BY <1>3, <1>5, <1>7, <2>2, <2>3, <2>5
<1>8. CASE SignIn!Accepted(form)
  <2>1. CASE /\ UNCHANGED <<account, had, links>>
             /\ SignIn!Answer(form, IF account.must THEN "must" ELSE "ok")
    <3>1. account.must \in BOOLEAN
      BY SignInParts
    <3>2. PICK stage \in {"ok", "must"} : stage = IF account.must THEN "must" ELSE "ok"
      OBVIOUS
    <3>3. SignIn!Answer(form, stage) /\ (stage = "ok" => ~account.must)
      BY <2>1, <3>1, <3>2
    <3> QED
      BY <1>4, <1>6, <2>1, <3>3
  <2>2. CASE SignIn!SetPassword(posted[form].fresh, FALSE) /\ SignIn!Answer(form, "error")
    BY <1>5, <1>6, <2>2
  <2> QED
    BY <1>7, <1>8, <2>1, <2>2 DEF SignIn!Accepted, SignIn!server
<1>9. CASE SignIn!Refused(form)
  BY <1>4, <1>6, <1>9 DEF SignIn!Refused, SignIn!server
<1> QED
  BY <1>8, <1>9 DEF SignIn!Serve

\* A form is submitted, with a password typed before or a new one.
LEMMA FormSubmitted ==
  ASSUME SignInInv, NEW form \in SignIn!Forms, NEW r \in SignIn!Request,
         posted' = [posted EXCEPT ![form] = r], r.stage = "sent", r.of = 0,
         r.given < next', r.fresh < next', next' \in 1..MaxPasswords + 1, next <= next',
         UNCHANGED <<account, had, links, signedIn, mustChangePassword, vouched, route, leaving,
                     done, timeout>>
  PROVE  SignInInv'
<1>1. next \in Nat /\ next' \in Nat /\ 0 < next'
  BY SignInParts, WebConsoleAssumption
<1>2. \A x \in had : NotTemporary(x) => NotTemporary(x)'
  BY DEF NotTemporary
<1>3. FormSound(r)'
  BY <1>1 DEF FormSound
<1>4. /\ posted' \in [SignIn!Forms -> SignIn!Request]
      /\ \A f \in SignIn!Forms : FormSound(posted[f])'
  BY <1>1, <1>2, <1>3, FormsStay
<1>5. SignIn!SignInTypeOK'
  BY <1>4 DEF SignInInv, SignIn!SignInTypeOK
<1>6. had' \cup {vouched'} \subseteq 0..next' - 1
  BY <1>1 DEF SignInInv
<1> QED
  BY <1>4, <1>5, <1>6 DEF SignInInv, NotTemporary

\* ... by the page that is shown.
LEMMA PasswordSubmitted ==
  ASSUME SignInInv, NEW form \in {"force", "reset"}, NEW given \in 0..next - 1,
         SignIn!SubmitPassword(form, given)
  PROVE  SignInInv'
<1>1. /\ next \in 1..MaxPasswords + 1 /\ signedIn \in BOOLEAN /\ form \in SignIn!Forms
      /\ next <= MaxPasswords /\ next' = next + 1 /\ MaxPasswords \in Nat
  BY SignInParts, WebConsoleAssumption
     DEF SignInInv, SignIn!SignInTypeOK, SignIn!SubmitPassword, SignIn!Forms
<1>2. PICK r : r = [stage |-> "sent", given |-> given, fresh |-> next, of |-> 0, bearer |-> signedIn]
  OBVIOUS
<1>3. r \in SignIn!Request /\ r.stage = "sent" /\ r.of = 0 /\ r.given = given /\ r.fresh = next
  BY <1>1, <1>2 DEF SignIn!Request, SignIn!Passwords
<1>4. /\ posted' = [posted EXCEPT ![form] = r]
      /\ UNCHANGED <<account, had, links, signedIn, mustChangePassword, vouched, route, leaving,
                     done, timeout>>
  BY <1>2 DEF SignIn!SubmitPassword, SignIn!server, SignIn!context
<1>5. r.given < next' /\ r.fresh < next' /\ next' \in 1..MaxPasswords + 1 /\ next <= next'
  BY <1>1, <1>3
<1> QED
  BY <1>1, <1>3, <1>4, <1>5, FormSubmitted

\* In whatever order pages are left, forms answered and passwords issued.
LEMMA SignInKeeps == SignInInv /\ SignIn!SignInNext => SignInInv'
<1> SUFFICES ASSUME SignInInv, SignIn!SignInNext PROVE SignInInv'
  OBVIOUS
<1>1. ASSUME NEW form \in SignIn!Forms, SignIn!Serve(form) PROVE SignInInv'
  BY <1>1, FormServed
<1>2. CASE SignIn!Login
  <2>1. PICK given \in 0..next - 1 : SignIn!SubmitLogin(given)
    BY <1>2 DEF SignIn!Login
  <2>2. next \in 1..MaxPasswords + 1 /\ MaxPasswords \in Nat /\ "login" \in SignIn!Forms
    BY SignInParts, WebConsoleAssumption DEF SignIn!Forms
  <2>3. PICK none : none = SignIn!NoRequest
    OBVIOUS
  <2>4. none \in SignIn!Request /\ none.fresh = 0 /\ none.of = 0
    BY <2>2, <2>3 DEF SignIn!Request, SignIn!Passwords, SignIn!NoRequest
  <2>5. given \in SignIn!Passwords
    BY <2>1, <2>2 DEF SignIn!Passwords
  <2>6. PICK r : r = [none EXCEPT !.stage = "sent", !.given = given]
    OBVIOUS
  <2>7. /\ r \in SignIn!Request /\ r.stage = "sent" /\ r.of = 0
        /\ r.given = given /\ r.fresh = 0
    BY <2>6, <2>4, <2>5 DEF SignIn!Request
  <2>8. /\ posted' = [posted EXCEPT !["login"] = r]
        /\ UNCHANGED <<account, had, links, signedIn, mustChangePassword, vouched, route, leaving,
                       done, timeout, next>>
    BY <2>1, <2>6, <2>3 DEF SignIn!SubmitLogin, SignIn!server, SignIn!context
  <2>9. r.given < next' /\ r.fresh < next' /\ next' \in 1..MaxPasswords + 1 /\ next <= next'
    BY <2>2, <2>7, <2>8
  <2> QED
    BY <2>2, <2>7, <2>8, <2>9, FormSubmitted
<1>3. CASE SignIn!ForceChangePassword
  BY <1>3, PasswordSubmitted DEF SignIn!ForceChangePassword
<1>4. CASE SignIn!ResetPassword
  <2>1. PICK link \in links : SignIn!SubmitPassword("reset", link)
    BY <1>4 DEF SignIn!ResetPassword
  <2>2. link \in 0..next - 1
    BY <2>1 DEF SignInInv
  <2> QED
    BY <2>1, <2>2, PasswordSubmitted
<1>5. ASSUME NEW form \in SignIn!Forms, SignIn!NotDone(form) PROVE SignInInv'
  <2>1. /\ posted' \in [SignIn!Forms -> SignIn!Request]
        /\ \A f \in SignIn!Forms : FormSound(posted[f])'
    BY <1>5, FormsSettle DEF SignIn!NotDone, SignIn!server
  <2>2. /\ UNCHANGED <<account, had, links, route, leaving, done, timeout, next>>
        /\ signedIn' = FALSE \/ signedIn' = signedIn
        /\ UNCHANGED <<mustChangePassword, vouched>>
    BY <1>5 DEF SignIn!NotDone, SignIn!onAuthExpired, SignIn!context, SignIn!server
  <2>3. SignIn!SignInTypeOK'
    BY <2>1, <2>2 DEF SignInInv, SignIn!SignInTypeOK
  <2>4. signedIn' /\ ~mustChangePassword' => NotTemporary(vouched)'
    BY <2>2 DEF SignInInv, NotTemporary
  <2> QED
    BY <2>1, <2>2, <2>3, <2>4 DEF SignInInv
<1>6. CASE SignIn!LoggedIn
  <2>1. "login" \in SignIn!Forms
    BY DEF SignIn!Forms
  <2>2. /\ posted' \in [SignIn!Forms -> SignIn!Request]
        /\ \A f \in SignIn!Forms : FormSound(posted[f])'
    BY <1>6, <2>1, FormsSettle DEF SignIn!LoggedIn, SignIn!server
  <2>3. PICK r \in SignIn!Request : r = posted["login"]
    BY <2>1, SignInParts
  <2>4. r.of \in SignIn!Passwords /\ r.of \in 0..next - 1 /\ FormSound(r)
    BY <2>1, <2>3, SignInParts, WebConsoleAssumption DEF FormSound, SignIn!Passwords
  <2>5. /\ UNCHANGED <<account, had, links, leaving, done, timeout, next>>
        /\ signedIn' = TRUE /\ mustChangePassword' = (r.stage = "must") /\ vouched' = r.of
        /\ route' = "console" /\ r.stage \in {"ok", "must"}
    BY <1>6, <2>3 DEF SignIn!LoggedIn, SignIn!server
  <2> QED
    BY <2>2, <2>4, <2>5 DEF SignInInv, SignIn!SignInTypeOK, NotTemporary, FormSound, SignIn!Routes
<1>7. CASE SignIn!ForcedChangeDone
  <2>1. "force" \in SignIn!Forms
    BY DEF SignIn!Forms
  <2>2. /\ posted' \in [SignIn!Forms -> SignIn!Request]
        /\ \A f \in SignIn!Forms : FormSound(posted[f])'
    BY <1>7, <2>1, FormsSettle DEF SignIn!ForcedChangeDone, SignIn!server
  <2>3. PICK r \in SignIn!Request : r = posted["force"]
    BY <2>1, SignInParts
  <2>4. r.of \in SignIn!Passwords /\ r.of \in 0..next - 1 /\ FormSound(r)
    BY <2>1, <2>3, SignInParts, WebConsoleAssumption DEF FormSound, SignIn!Passwords
  <2>5. /\ UNCHANGED <<account, had, links, signedIn, leaving, done, timeout, next>>
        /\ mustChangePassword' = FALSE /\ vouched' = r.of
        /\ route' = "console" /\ r.stage = "ok"
    BY <1>7, <2>3 DEF SignIn!ForcedChangeDone, SignIn!server
  <2> QED
    BY <2>2, <2>4, <2>5 DEF SignInInv, SignIn!SignInTypeOK, NotTemporary, FormSound, SignIn!Routes
<1>8. CASE SignIn!ResetDone
  <2>1. "reset" \in SignIn!Forms
    BY DEF SignIn!Forms
  <2>2. /\ posted' \in [SignIn!Forms -> SignIn!Request]
        /\ \A f \in SignIn!Forms : FormSound(posted[f])'
    BY <1>8, <2>1, FormsSettle DEF SignIn!ResetDone, SignIn!server
  <2>3. PICK r \in SignIn!Request : r = posted["reset"]
    BY <2>1, SignInParts
  <2>4. r.of \in SignIn!Passwords /\ FormSound(r)
    BY <2>1, <2>3, SignInParts
  <2>5. /\ UNCHANGED <<account, had, links, signedIn, mustChangePassword, vouched, route, leaving, next>>
        /\ done' = r.of /\ timeout' = TRUE /\ r.stage = "ok"
    BY <1>8, <2>3 DEF SignIn!ResetDone, SignIn!server, SignIn!context
  <2> QED
    BY <2>2, <2>4, <2>5 DEF SignInInv, SignIn!SignInTypeOK, NotTemporary, FormSound
<1>9. CASE SignIn!IssueTemporary
  <2>1. /\ next \in 1..MaxPasswords + 1 /\ next <= MaxPasswords /\ next' = next + 1
        /\ MaxPasswords \in Nat /\ had \cup {vouched} \subseteq 0..next - 1
    BY <1>9, SignInParts, WebConsoleAssumption DEF SignIn!IssueTemporary, SignInInv
  <2>2. /\ account' = [password |-> next, must |-> TRUE] /\ had' = had \cup {next}
        /\ UNCHANGED <<links, signedIn, mustChangePassword, vouched, route, posted, leaving,
                       done, timeout>>
    BY <1>9 DEF SignIn!IssueTemporary, SignIn!SetPassword, SignIn!context
  <2>3. /\ account'.password = next /\ next \in SignIn!Passwords
        /\ account' \in [password: SignIn!Passwords, must: BOOLEAN]
    BY <2>1, <2>2 DEF SignIn!Passwords
  <2>4. ASSUME NEW f \in SignIn!Forms PROVE FormSound(posted[f])'
    <3>1. /\ FormSound(posted[f]) /\ posted[f].given \in Nat /\ posted[f].fresh \in Nat
          /\ posted[f].of \in Nat
      BY SignInParts DEF SignIn!Passwords
    <3> QED
      BY <2>1, <2>2, <2>3, <3>1 DEF FormSound, NotTemporary
  <2>5. SignIn!SignInTypeOK'
    BY <2>1, <2>2, <2>3 DEF SignInInv, SignIn!SignInTypeOK
  <2>6. /\ had' \cup {vouched'} \subseteq 0..next' - 1 /\ 0 \in had' /\ done' \in had'
        /\ links' \subseteq had'
    BY <2>1, <2>2 DEF SignInInv
  <2>7. NotTemporary(vouched)'
    BY <2>1, <2>2, <2>3 DEF NotTemporary
  <2> QED
    BY <2>4, <2>5, <2>6, <2>7 DEF SignInInv
<1>10. ASSUME NEW r \in SignIn!Routes, SignIn!Load(r) PROVE SignInInv'
  <2>1. PICK none : none = SignIn!NoRequest
    OBVIOUS
  <2>2. /\ posted' = [form \in SignIn!Forms |-> none]
        /\ UNCHANGED <<account, had, links, vouched, next>>
        /\ signedIn' = FALSE /\ mustChangePassword' = FALSE /\ leaving' = FALSE
        /\ done' = 0 /\ timeout' = FALSE /\ route' = r
    BY <1>10, <2>1 DEF SignIn!Load, SignIn!server
  <2>3. next' \in Nat /\ next <= next'
    BY <2>2, SignInParts, WebConsoleAssumption
  <2>4. none \in SignIn!Request /\ FormSound(none)'
    BY <2>1, <2>3, BlankForm
  <2>5. /\ posted' \in [SignIn!Forms -> SignIn!Request]
        /\ \A f \in SignIn!Forms : FormSound(posted[f])'
    BY <2>2, <2>4
  <2>6. 0 \in SignIn!Passwords
    BY WebConsoleAssumption DEF SignIn!Passwords
  <2> QED
    BY <2>2, <2>5, <2>6 DEF SignInInv, SignIn!SignInTypeOK
<1> DEFINE Steady == /\ UNCHANGED <<account, had, posted, vouched, done, next>>
                     /\ links' \in {links, links \cup {account.password}}
                     /\ route' \in SignIn!Routes
                     /\ {leaving', timeout'} \subseteq BOOLEAN
                     /\ mustChangePassword' \in BOOLEAN
                     /\ \/ signedIn' = FALSE
                        \/ UNCHANGED <<signedIn, mustChangePassword>>
<1>11. ASSUME Steady PROVE SignInInv'
  <2>1. SignIn!SignInTypeOK'
    BY <1>11 DEF SignInInv, SignIn!SignInTypeOK
  <2>2. \A f \in SignIn!Forms : FormSound(posted[f])'
    BY <1>11 DEF SignInInv, FormSound, NotTemporary
  <2>3. signedIn' /\ ~mustChangePassword' => NotTemporary(vouched)'
    <3>1. NotTemporary(vouched) => NotTemporary(vouched)'
      BY <1>11 DEF NotTemporary
    <3>2. CASE signedIn' = FALSE
      BY <3>2
    <3>3. CASE UNCHANGED <<signedIn, mustChangePassword>>
      BY <3>1, <3>3 DEF SignInInv
    <3> QED
      BY <1>11, <3>2, <3>3
  <2>4. links' \subseteq had'
    BY <1>11 DEF SignInInv, SignIn!SignInTypeOK
  <2> QED
    BY <1>11, <2>1, <2>2, <2>3, <2>4 DEF SignInInv
<1>12. route \in SignIn!Routes /\ {leaving, timeout, mustChangePassword} \subseteq BOOLEAN
  BY DEF SignInInv, SignIn!SignInTypeOK
<1>13. ASSUME NEW r \in SignIn!Routes, SignIn!Go(r) PROVE Steady
  BY <1>12, <1>13 DEF SignIn!Go, SignIn!server, SignIn!context
<1>14. SignIn!TimedOut \/ SignIn!requestPasswordReset \/ SignIn!SessionEnds => Steady
  BY <1>12 DEF SignIn!TimedOut, SignIn!requestPasswordReset, SignIn!SessionEnds,
               SignIn!onAuthExpired, SignIn!server, SignIn!context, SignIn!Routes, SignIn!Forms
<1>15. SignIn!logout \/ SignIn!LoggedOut => Steady
  BY <1>12 DEF SignIn!logout, SignIn!LoggedOut, SignIn!server, SignIn!context
<1> QED
  BY <1>1, <1>2, <1>3, <1>4, <1>5, <1>6, <1>7, <1>8, <1>9, <1>10, <1>11, <1>13, <1>14, <1>15
     DEF SignIn!SignInNext

\* Nothing of the sign-in changes elsewhere.
LEMMA SignInStep == SignInInv /\ [Next]_vars => SignInInv'
<1> SUFFICES ASSUME SignInInv, [Next]_vars PROVE SignInInv'
  OBVIOUS
<1>1. CASE SignIn!SignInNext
  BY <1>1, SignInKeeps
<1>2. CASE UNCHANGED signInVars
  BY <1>2 DEF signInVars, SignInInv, SignIn!SignInTypeOK, NotTemporary, FormSound
<1> QED
  BY <1>1, <1>2 DEF Next, vars

\* The guard of the console goes by the answer that opened it.
LEMMA SignInEarns == SignInInv => SignIn!ConsoleIsEarned /\ SignIn!SignInTypeOK
BY DEF SignInInv, SignIn!SignInTypeOK, SignIn!ConsoleIsEarned, SignIn!Guarded, NotTemporary

-----------------------------------------------------------------------------
(* The calendar *)

\* One working day is judged, second by second.
LEMMA DayStart == Init => DayInv
<1> SUFFICES ASSUME Init, page = "day" PROVE DayInv
  BY DEF DayInv
<1>1. Days!Init
  BY DEF Init
<1> QED
  BY <1>1, WebConsoleAssumption DEF DayInv, Days!Init

\* ... and nothing of it changes elsewhere.
LEMMA DayStep == DayInv /\ [Next]_vars => DayInv'
BY WebConsoleAssumption DEF DayInv, Next, vars, dayVars, Days!Later, Days!Horizon

\* A browser and a row.
LEMMA BadgesStart == Init => BadgesInv
<1> SUFFICES ASSUME Init PROVE BadgesInv
  OBVIOUS
<1>1. CASE page = "badges"
  <2>1. clock \in [hour: {24}, zone: Zones, expiry: Expiries, swept: {FALSE}]
    BY <1>1 DEF Init, Badges!BadgesInit
  <2>2. /\ \A z \in Zones : z \in -12..14
        /\ \A e \in Expiries : e \in Int
    BY WebConsoleAssumption
  <2>3. PICK z \in Zones, e \in Expiries :
           clock = [hour |-> 24, zone |-> z, expiry |-> e, swept |-> FALSE]
    BY <2>1
  <2> QED
    BY <2>2, <2>3 DEF BadgesInv
<1>2. CASE page # "badges"
  <2>1. clock = [hour |-> 24, zone |-> 0, expiry |-> 1, swept |-> FALSE]
    BY <1>2 DEF Init
  <2> QED
    BY <2>1 DEF BadgesInv
<1> QED
  BY <1>1, <1>2

\* Hours pass, and the row is swept.
LEMMA BadgesStep == BadgesInv /\ [Next]_vars => BadgesInv'
<1> SUFFICES ASSUME BadgesInv, [Next]_vars PROVE BadgesInv'
  OBVIOUS
<1>1. CASE Badges!HourPasses
  <2>1. PICK hour \in Int : hour = clock.hour + 1
    BY DEF BadgesInv
  <2>2. clock' = [clock EXCEPT !.hour = hour]
    BY <1>1, <2>1 DEF Badges!HourPasses
  <2> QED
    BY <2>2 DEF BadgesInv
<1>2. CASE Badges!Sweep
  BY <1>2 DEF BadgesInv, Badges!Sweep
<1>3. CASE UNCHANGED clock
  BY <1>3 DEF BadgesInv
<1> QED
  BY <1>1, <1>2, <1>3 DEF Next, vars, Badges!BadgesNext

\* Rounding the distance of two midnights to whole days gives those days, and one more
\* where the zone is half a day or more.
LEMMA RoundedDays ==
  ASSUME NEW days \in Int, NEW zone \in -12..14
  PROVE  (2 * (24 * days + zone) + 24) \div 48 = days + Badges!DaysGiven(zone)
BY DEF Badges!DaysGiven

\* A browser counts the days of its calendar, and the one it is given.
LEMMA BadgesCount == BadgesInv => Badges!DaysLeftAreCalendarDays
<1> SUFFICES ASSUME BadgesInv PROVE Badges!DaysLeftAreCalendarDays
  OBVIOUS
<1>1. /\ clock.hour \in Int /\ clock.zone \in -12..14 /\ clock.expiry \in Int
      /\ clock.swept \in BOOLEAN
  BY DEF BadgesInv
<1>2. PICK today \in Int : today = Badges!Today
  BY <1>1 DEF Badges!Today
<1>3. 24 * clock.expiry - (24 * today - clock.zone) = 24 * (clock.expiry - today) + clock.zone
  BY <1>1, <1>2
<1>4. PICK given \in Int : given = Badges!DaysGiven(clock.zone)
  BY DEF Badges!DaysGiven
<1>5. Badges!daysUntil(clock) = clock.expiry - today + given
  <2>1. PICK days \in Int : days = clock.expiry - today
    BY <1>1, <1>2
  <2>2. (2 * (24 * days + clock.zone) + 24) \div 48 = days + given
    BY <1>1, <1>4, <2>1, RoundedDays
  <2>3. Badges!LocalMidnight = 24 * today - clock.zone
    BY <1>2 DEF Badges!LocalMidnight
  <2>4. 24 * clock.expiry - Badges!LocalMidnight = 24 * days + clock.zone
    BY <1>3, <2>1, <2>3
  <2> QED
    BY <2>1, <2>2, <2>4 DEF Badges!daysUntil
<1>6. Badges!Urgency(clock) = "expired" <=> clock.swept \/ clock.expiry - today + given < 0
  <2>1. PICK days \in Int : days = clock.expiry - today + given
    BY <1>1, <1>2, <1>4
  <2>2. PICK swept \in BOOLEAN : swept = clock.swept
    BY <1>1
  <2>3. Badges!Urgency(clock) =
          CASE swept \/ days < 0 -> "expired"
            [] ~swept /\ days \in 0..3 -> "destructive"
            [] ~swept /\ days \in 4..7 -> "outline"
            [] ~swept /\ days > 7 -> "secondary"
    BY <1>5, <2>1, <2>2 DEF Badges!Urgency
  <2> QED
    BY <2>1, <2>2, <2>3
<1> QED
  BY <1>1, <1>2, <1>4, <1>5, <1>6 DEF Badges!DaysLeftAreCalendarDays

\* Multiples grow with what is multiplied.
LEMMA Multiples ==
  ASSUME NEW m \in Int, NEW q \in Int, NEW n \in Nat, m <= q
  PROVE  n * m <= n * q
<1>1. PICK k \in Nat : q = m + k
  BY q - m \in Nat
<1>2. n * q = n * m + n * k /\ n * k \in Nat
  BY <1>1
<1> QED
  BY <1>2

\* Division, as minutes are counted: m of them fit exactly if m is no more than that.
LEMMA FittingMinutes ==
  ASSUME NEW d \in Int, NEW n \in Nat \ {0}, NEW m \in Int
  PROVE  n * m <= d <=> m <= d \div n
<1>1. PICK q \in Int : q = d \div n
  OBVIOUS
<1>2. n * q <= d /\ d < n * q + n
  BY <1>1
<1>3. m <= q => n * m <= n * q
  BY Multiples
<1>4. q + 1 <= m => n * (q + 1) <= n * m
  BY Multiples
<1>5. n * (q + 1) = n * q + n /\ n * m \in Int /\ n * q \in Int
  OBVIOUS
<1> QED
  BY <1>1, <1>2, <1>3, <1>4, <1>5

\* The minutes counted one by one are the whole minutes between two instants that are
\* no further apart than the horizon.
LEMMA MinutesElapsed ==
  ASSUME NEW from \in Int, NEW to \in Int, to - from <= Days!Horizon
  PROVE  Days!Elapsed(from, to) =
            IF Days!WholeMinutes(to - from) > 0 THEN Days!WholeMinutes(to - from) ELSE 0
<1> USE WebConsoleAssumption
<1>1. PICK d \in Int : d = to - from
  OBVIOUS
<1>2. PICK q \in Int : q = d \div MinuteLength
  OBVIOUS
<1>3. \A m \in Int : MinuteLength * m <= d <=> m <= q
  BY <1>2, FittingMinutes
<1>4. q <= Days!Horizon
  <2>1. Days!Horizon \in Nat
    BY DEF Days!Horizon
  <2>2. MinuteLength * (Days!Horizon + 1) >= Days!Horizon + 1
    <3>1. PICK n \in Nat : MinuteLength = n + 1
      BY MinuteLength - 1 \in Nat
    <3>2. PICK h \in Nat : h = Days!Horizon + 1
      BY <2>1
    <3>3. (n + 1) * h = n * h + h /\ n * h \in Nat
      BY <3>1, <3>2
    <3> QED
      BY <3>1, <3>2, <3>3
  <2>3. MinuteLength * (Days!Horizon + 1) <= d <=> Days!Horizon + 1 <= q
    BY <1>3, <2>1
  <2> QED
    BY <1>1, <1>2, <2>1, <2>2, <2>3
<1>5. {m \in 1..Days!Horizon : from + m * MinuteLength <= to} = 1..q
  <2>1. \A m \in Int : from + m * MinuteLength <= to <=> MinuteLength * m <= d
    BY <1>1
  <2>2. Days!Horizon \in Nat
    BY DEF Days!Horizon
  <2>3. \A m \in Int : from + m * MinuteLength <= to <=> m <= q
    BY <1>3, <2>1
  <2>4. \A m \in 1..Days!Horizon : from + m * MinuteLength <= to <=> m \in 1..q
    BY <1>2, <2>2, <2>3
  <2>5. 1..q \subseteq 1..Days!Horizon
    BY <1>2, <1>4, <2>2
  <2> QED
    BY <2>4, <2>5, Zenon
<1>6. Days!Elapsed(from, to) = IF q > 0 THEN q ELSE 0
  <2>1. 1 \in Int /\ q \in Int
    BY <1>2
  <2>2. Cardinality(1..q) = IF 1 > q THEN 0 ELSE q - 1 + 1
    BY <2>1, FS_Interval
  <2>3. Days!Cardinality(1..q) = Cardinality(1..q)
    BY Zenon DEF Days!Cardinality, Cardinality
  <2>4. Days!Elapsed(from, to) = Days!Cardinality(1..q)
    BY <1>5 DEF Days!Elapsed
  <2> QED
    BY <2>1, <2>2, <2>3, <2>4
<1> QED
  BY <1>1, <1>2, <1>6 DEF Days!WholeMinutes

\* Past the grace period, every minute; within it, none.
LEMMA GraceElapsed ==
  ASSUME NEW from \in Int, NEW to \in Int, to - from <= Days!Horizon, threshold \in Nat
  PROVE  /\ Days!PastGrace(Days!WholeMinutes(to - from), threshold) = Days!Counted(from, to)
         /\ Days!Counted(from, to) \in Nat
<1>1. PICK q \in Int : q = Days!WholeMinutes(to - from)
  BY WebConsoleAssumption DEF Days!WholeMinutes
<1> QED
  BY <1>1, MinutesElapsed DEF Days!PastGrace, Days!Counted

\* The rules count the minutes there are, and the day has the status that comes first.
LEMMA DayCounts == DayInv /\ page = "day" => Days!DayIsClassified
<1> SUFFICES ASSUME DayInv, page = "day" PROVE Days!DayIsClassified
  OBVIOUS
<1>1. /\ in \in 0..DayLength - 1 /\ out \in 0..2 * DayLength
      /\ shift \in Shifts \cup {NoShift} /\ threshold \in Nat
      /\ DayLength \in Nat \ {0} /\ MinuteLength \in Nat \ {0}
  BY WebConsoleAssumption DEF DayInv
<1>2. CASE shift = NoShift
  BY <1>1, <1>2
     DEF Days!DayIsClassified, Days!MinutesAreCounted, Days!StatusPriority, Days!late, Days!early,
         Days!over, Days!MinutesLate, Days!MinutesEarlyDeparture, Days!MinutesOvertime,
         Days!FinalStatus, Days!CheckInStatus
<1>3. CASE shift # NoShift
  <2>1. shift \in Days!Shift
    BY <1>1, <1>3, WebConsoleAssumption
  <2>2. PICK start \in 0..DayLength - 1 : start = shift.start
    BY <2>1 DEF Days!Shift
  <2>3. PICK end \in 0..2 * DayLength - 1 : end = Days!End
    BY <1>1, <2>1 DEF Days!Shift, Days!End
  <2>4. Days!ExpectedStart(0, shift) = start /\ Days!ExpectedEnd(0, shift) = end
    BY <1>1, <2>1, <2>2, <2>3 DEF Days!Shift, Days!End, Days!ExpectedStart, Days!ExpectedEnd
  <2>5. in - start <= Days!Horizon /\ end - out <= Days!Horizon /\ out - end <= Days!Horizon
    BY <1>1, <2>2, <2>3 DEF Days!Horizon
  <2>6. {in, out, start, end} \subseteq Int
    BY <1>1, <2>2, <2>3
  <2>7. Days!late = Days!Counted(start, in) /\ Days!late \in Nat
    <3>1. Days!late = Days!PastGrace(Days!WholeMinutes(in - start), threshold)
      BY <1>3, <2>4 DEF Days!late, Days!MinutesLate
    <3> QED
      BY <1>1, <2>5, <2>6, <3>1, GraceElapsed
  <2>8. Days!early = Days!Counted(out, end) /\ Days!early \in Nat
    <3>1. Days!early = Days!PastGrace(Days!WholeMinutes(end - out), threshold)
      BY <1>3, <2>4 DEF Days!early, Days!MinutesEarlyDeparture
    <3> QED
      BY <1>1, <2>5, <2>6, <3>1, GraceElapsed
  <2>9. Days!over = Days!Counted(end, out) /\ Days!over \in Nat
    <3>1. Days!over = Days!PastGrace(Days!WholeMinutes(out - end), threshold)
      BY <1>3, <2>4 DEF Days!over, Days!MinutesOvertime
    <3> QED
      BY <1>1, <2>5, <2>6, <3>1, GraceElapsed
  <2>10. Days!early = 0 \/ Days!over = 0
    <3>1. Days!WholeMinutes(end - out) <= 0 \/ Days!WholeMinutes(out - end) <= 0
      BY <1>1, <2>3 DEF Days!WholeMinutes
    <3> QED
      BY <1>1, <1>3, <2>4, <3>1
         DEF Days!early, Days!over, Days!MinutesEarlyDeparture, Days!MinutesOvertime,
             Days!PastGrace, Days!WholeMinutes
  <2>11. Days!MinutesAreCounted
    BY <1>3, <2>2, <2>3, <2>7, <2>8, <2>9 DEF Days!MinutesAreCounted
  <2>12. Days!StatusPriority
    BY <2>7, <2>8, <2>9, <2>10 DEF Days!StatusPriority, Days!FinalStatus, Days!CheckInStatus
  <2> QED
    BY <2>11, <2>12 DEF Days!DayIsClassified
<1> QED
  BY <1>2, <1>3

-----------------------------------------------------------------------------
(* The tenant context: which binding each stage of a process stands on *)

Process == {"web", "celery"}
OfWeb == {"idle", "anonymous", "user", "super", "admin", "find", "export", "exported"}
OfCelery == {"idle", "find", "export", "sweep"}

\* A process is at a stage of its own, for an organization or for none.
Stages ==
    /\ doing \in [process : Process, at : OfWeb \cup OfCelery, who : Orgs \cup {None}]
    /\ doing.process = "web" => doing.at \in OfWeb
    /\ doing.process = "celery" => doing.at \in OfCelery
    /\ doing.at \in {"user", "export"} => doing.who \in Orgs

\* What each stage is bound to.  A worker of Celery forgets the organization of an
\* export when it ends; one of gunicorn keeps everything until the next request.
Bindings ==
    /\ doing.at \in {"anonymous", "exported"} => setting = None
    /\ doing.at \in {"user", "export"} => setting = doing.who /\ org = doing.who
    /\ doing.at \in {"super", "admin", "sweep"} => setting = Wildcard /\ org = None
    /\ doing.at = "find" => setting = Wildcard /\ org = doing.who
    /\ doing.process = "celery" /\ doing.at \in {"idle", "find"} => org = None

TenantInv == Stages /\ Bindings

\* Every process begins unbound.
LEMMA TenantStart == TenantInit => TenantInv
BY DEF TenantInit, TenantInv, Stages, Bindings, Process, OfWeb, OfCelery

\* Every request, task, reply, death of a connection or of a process rebinds what the
\* next stage stands on.
LEMMA TenantKeeps == TenantInv /\ [TenantNext]_tenantVars => TenantInv'
<1> SUFFICES ASSUME TenantInv, [TenantNext]_tenantVars PROVE TenantInv'
  OBVIOUS
<1> USE TenantAssumption DEF TenantInv, Stages, Bindings, Process, OfWeb, OfCelery, At
<1>1. CASE BeginRequest
  BY <1>1 DEF BeginRequest, Unset
<1>2. CASE Authenticate
  BY <1>2 DEF Authenticate, BindForUser
<1>3. CASE Login
  BY <1>3 DEF Login, BindForUser
<1>4. CASE EndRequest
  BY <1>4 DEF EndRequest
<1>5. CASE StartExport
  BY <1>5 DEF StartExport
<1>6. CASE FindJob
  BY <1>6 DEF FindJob
<1>7. CASE JobGone
  BY <1>7 DEF JobGone
<1>8. CASE EndExport
  BY <1>8 DEF EndExport, Unset, NoOrganization
<1>9. CASE StartSweep
  BY <1>9 DEF StartSweep
<1>10. CASE EndSweep
  BY <1>10 DEF EndSweep, Unset
<1>11. CASE CloseConnection
  BY <1>11 DEF CloseConnection
<1>12. CASE Respawn
  BY <1>12 DEF Respawn
<1>13. CASE UNCHANGED tenantVars
  BY <1>13 DEF tenantVars
<1> QED
  BY <1>1, <1>2, <1>3, <1>4, <1>5, <1>6, <1>7, <1>8, <1>9, <1>10, <1>11, <1>12, <1>13
     DEF TenantNext

\* What the policy and the manager let through, of what is bound.
LEMMA BindingsIsolate == TenantInv => TenantIsolation
BY TenantAssumption
   DEF TenantInv, Stages, Bindings, Process, OfWeb, OfCelery, TenantIsolation, Readable, Scoped

\* The process of "tenants" is at work only there, and any other is idle and unbound.
LEMMA TenantInits == Init => TenantInv
BY TenantStart, TenantAssumption
   DEF Init, TenantInv, Stages, Bindings, Process, OfWeb, OfCelery

\* ... in every step of the consoles.
LEMMA TenantStep == TenantInv /\ [Next]_vars => TenantInv'
BY TenantKeeps DEF Next, vars, tenantVars

-----------------------------------------------------------------------------
(* The promises *)

\* All of them together, as each is inductive on its own.
Consoles == PagesInv /\ ExportInv /\ SignInInv /\ DayInv /\ BadgesInv /\ TenantInv

\* Every state of the consoles is one of the invariant's.
THEOREM ConsolesHold == Spec => []Consoles
<1>1. Init => Consoles
  <2>1. Init => ExportInv /\ SignInInv
    BY ExportStart, SignInStart DEF Init
  <2> QED
    BY <2>1, PagesInit, DayStart, BadgesStart, TenantInits DEF Consoles
<1>2. Consoles /\ [Next]_vars => Consoles'
  BY PagesStep, ExportStep, SignInStep, DayStep, BadgesStep, TenantStep DEF Consoles
<1> QED
  BY <1>1, <1>2, PTL DEF Spec

\* The pages, the cache, the calls, the export and the sign-in have their types.
THEOREM Types == Spec => []TypeOK
<1>1. Consoles => TypeOK
  BY PagesTyped, ExportAnswers, SignInEarns DEF Consoles, TypeOK
<1> QED
  BY <1>1, ConsolesHold, PTL

\* `if (dialogKey !== lastKey)' in the seven dialogs that are seeded by it (plan,
\* organization, department, employee, branch, shift, leave type): with any number of
\* rows, openings and calls, none of their saves carries what was typed for another row
\* or in an earlier opening.  The dialogs that assign and reject are not among them.
THEOREM FormsAreFresh == Spec => []Fresh
<1>1. Consoles => Fresh
  BY KeptIsFresh DEF Consoles
<1> QED
  BY <1>1, ConsolesHold, PTL

\* The onSuccess of every mutation: a list at rest holds every write the page was told
\* of, unless an invalidation was absorbed; "Saved" and the console are earned.
THEOREM TellsTheTruth == Spec => []ToldIsTrue
<1>1. Consoles => ToldIsTrue
  BY ToldPages, SignInEarns DEF Consoles, ToldIsTrue
<1> QED
  BY <1>1, ConsolesHold, PTL

\* The keys of the queries end in the filter: with any number of filters, chosen in any
\* order while answers are under way, the rows on screen are of the filter on screen.
THEOREM FiltersAreAnswered == Spec => []AnswersFilter
<1>1. Consoles => AnswersFilter
  BY KeyedAnswers DEF Consoles
<1> QED
  BY <1>1, ConsolesHold, PTL

\* setLocation(null) of BranchList.jsx:174 and setReason("") of LeaveList.jsx:194: with
\* any number of openings, captures and rejections under way, no branch is saved with a
\* position that came before its form was opened, and no reason the page was told had
\* been used is sent again.  A reason that was only typed may be.
THEOREM NothingIsReused == Spec => []NothingReused
<1>1. Consoles => NothingReused
  BY NoneIsReused DEF Consoles
<1> QED
  BY <1>1, ConsolesHold, PTL

\* reports/tasks.py and Reports.jsx: with any number of exports, visits, and polls that
\* overtake each other, a link leads to a stored file; and unless it shows an answer that
\* came after its interval had ended or been replaced, a page that waits is asking or
\* polling.
THEOREM ExportsAreAnswered == Spec => []ExportIsAnswered
<1>1. Consoles => ExportIsAnswered
  BY ExportAnswers DEF Consoles
<1> QED
  BY <1>1, ConsolesHold, PTL

\* rules.py and ExpiryMonitor.jsx:20: whatever a minute and a day last, the floor
\* divisions of the rules count minutes one by one, and in every time zone the rounding
\* of the monitor counts the days of the calendar, plus the one it gives the zones of
\* twelve hours and more.
THEOREM CountsTheCalendar == Spec => []CalendarArithmetic
<1>1. Consoles => CalendarArithmetic
  BY DayCounts, BadgesCount DEF Consoles, CalendarArithmetic
<1> QED
  BY <1>1, ConsolesHold, PTL

\* tenant_middleware.py:12: with any number of organizations, tasks inside the request
\* or in workers of their own, no request or task reads by the binding of another.
THEOREM Isolated == Spec => []TenantIsolation
<1>1. Consoles => TenantIsolation
  BY BindingsIsolate DEF Consoles
<1> QED
  BY <1>1, ConsolesHold, PTL

\* ... and so for a process of the backend on its own, whatever the consoles do.
THEOREM IsolatedAlone == TenantSpec => []TenantIsolation
<1>1. TenantSpec => []TenantInv
  BY TenantStart, TenantKeeps, PTL DEF TenantSpec
<1> QED
  BY <1>1, BindingsIsolate, PTL

=============================================================================
