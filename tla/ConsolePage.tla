----------------------------- MODULE ConsolePage ----------------------------
(***************************************************************************)
(* What the pages of the two administration consoles share.  A page shows    *)
(* the cached answer to the query of its list, opens dialogs over it, and    *)
(* sends calls to the server; it can be left and entered again, which loses  *)
(* its React state and keeps the cache and the calls under way.              *)
(*                                                                           *)
(* Data is abstracted to what the properties tell apart.  The list is its    *)
(* version (how many writes it has seen) and the status of its rows.  The    *)
(* fields of a form are the opening of the dialog in which something was     *)
(* typed, or a position arrived.  The lists behind <select>s, error banners and wording are left    *)
(* out, and the browser is online.                                           *)
(***************************************************************************)
EXTENDS Naturals, FiniteSets, QueryCache

CONSTANTS Rows,        \* the row identifiers a list can hold
          Closed,      \* no dialog target (null)
          Create,      \* the dialog target of a row to be
          MaxOpens,    \* bound: openings of each dialog
          MaxWrites,   \* bound: versions of the list
          MaxCalls     \* bound: calls under way at once

ASSUME ConsoleAssumption ==
    /\ Closed \notin Rows \cup {Create}
    /\ MaxOpens \in Nat /\ MaxWrites \in Nat \ {0}

VARIABLES mounted,   \* the page is the one the router shows
          filter,    \* the filter chosen on the page
          server,    \* the list, as the server holds it
          cache,     \* query key -> entry of the query cache
          dialog,    \* dialog name -> state of a form dialog
          confirm,   \* confirmation name -> the row asked about, or Closed
          extra,     \* what else the page keeps in React state
          calls,     \* mutations sent and not answered yet
          told       \* the latest write whose success the page was told of

pageVars == <<mounted, filter, server, cache, dialog, confirm, extra, calls, told>>
ui == <<mounted, filter, dialog, confirm, extra>>

\* The filters a page can set, Nothing for none.
Filters == DOMAIN cache

\* A row is not there, or as it was made, or suspended, cancelled, decided...
List == [version: 1..MaxWrites, rows: [Rows -> {"none", "on", "off"}]]
Targets == Rows \cup {Closed, Create}
ClosedDialog == [target |-> Closed, lastKey |-> Closed, typed |-> 0, located |-> 0, session |-> 0]
DialogState == [target: Targets, lastKey: Targets, typed: 0..MaxOpens, located: 0..MaxOpens,
                session: 0..MaxOpens]

\* The useMutation hooks of the pages, and the browser's geolocation.
Ops == {"savePlan", "assign", "cancel", "saveOrganization", "suspend", "activate",
        "saveDepartment", "delete", "saveEmployee", "reset", "terminate", "saveBranch",
        "locate", "relocate", "saveShift", "approve", "reject", "saveType", "save",
        "markRead", "markAll"}
Call == [op: Ops, target: Targets, form: Targets, typed: 0..MaxOpens, located: 0..MaxOpens,
         session: 0..MaxOpens, live: BOOLEAN, stage: {"sent", "done", "refused", "lost"}, wrote: 0..MaxWrites]

PageTypeOK(filters, extras) ==
    /\ mounted \in BOOLEAN /\ filter \in filters /\ extra \in extras
    /\ server \in List
    /\ cache \in [filters -> QueryOf([for: filters, list: List], filters)]
    /\ dialog \in [DOMAIN dialog -> DialogState]
    /\ confirm \in [DOMAIN confirm -> Rows \cup {Closed}]
    /\ \A c \in calls : c \in Call
    /\ told \in 0..MaxWrites

\* A page that was never entered, over a list that nobody has written to yet.
PageInit(filters, dialogs, confirms, start) ==
    /\ mounted = FALSE /\ filter = Nothing /\ extra = start
    /\ server \in [version: {1}, rows: [Rows -> {"none", "on"}]]
    /\ cache = [f \in filters |-> NewQuery]
    /\ dialog = [d \in dialogs |-> ClosedDialog]
    /\ confirm = [c \in confirms |-> Closed]
    /\ calls = {} /\ told = 0

-----------------------------------------------------------------------------
(* Queries *)

\* Mutation of KeyOf: the filter is left out of the query key.
OneKey(f) == Nothing

\* The query key of a list ends in its filter, and is that of the entry on screen.
KeyOf(f) == f
Entry == cache[KeyOf(filter)]
RowOnScreen(r) == Shown(Entry) /\ Entry.data.list.rows[r] # "none"
StatusShown(r) == Entry.data.list.rows[r]

\* Nothing modal is in front of the page.
Unobstructed ==
    /\ mounted
    /\ \A d \in DOMAIN dialog : dialog[d].target = Closed
    /\ \A c \in DOMAIN confirm : confirm[c] = Closed

\* The server answers a fetch, the answer arrives, or neither happens.
Lookup(k) ==
    /\ cache[k].flight = "asked"
    /\ cache' = [cache EXCEPT ![k] = Read(@, [for |-> cache[k].want, list |-> server])]
    /\ UNCHANGED <<ui, server, calls, told>>
Arrive(k) ==
    /\ cache[k].flight = "read"
    /\ cache' = [cache EXCEPT ![k] = Stored(@)]
    /\ UNCHANGED <<ui, server, calls, told>>
Break(k) ==
    /\ cache[k].flight = "asked"
    /\ cache' = [cache EXCEPT ![k] = Failed(@)]
    /\ UNCHANGED <<ui, server, calls, told>>
Fetching == \E k \in Filters : Lookup(k) \/ Arrive(k) \/ Break(k)

\* The router mounts the page, or shows another one: React state is lost, and
\* with it the observers of the calls under way.
EnterPage ==
    /\ ~mounted /\ mounted' = TRUE
    /\ cache' = [cache EXCEPT ![KeyOf(filter)] = Observed(@, filter)]
    /\ UNCHANGED <<filter, server, dialog, confirm, extra, calls, told>>
LeavePage(start) ==
    /\ mounted /\ mounted' = FALSE /\ filter' = Nothing /\ extra' = start
    /\ dialog' = [d \in DOMAIN dialog |->
                     [ClosedDialog EXCEPT !.session = dialog[d].session]]
    /\ confirm' = [c \in DOMAIN confirm |-> Closed]
    /\ calls' = {[c EXCEPT !.live = FALSE] : c \in calls}
    /\ UNCHANGED <<server, cache, told>>

ChooseFilter(f) ==
    /\ Unobstructed /\ f # filter
    /\ filter' = f
    /\ cache' = [cache EXCEPT ![KeyOf(f)] = Observed(@, f)]
    /\ UNCHANGED <<mounted, server, dialog, confirm, extra, calls, told>>

\* Mutation of Refetched: a success invalidates nothing.
NotRefetched(used) == cache

\* invalidateQueries({queryKey: [list]}) matches every key that starts with it;
\* `used` tells whether the page has the query enabled.
Refetched(used) ==
    [k \in Filters |-> Invalidated(cache[k], used /\ k = KeyOf(filter), filter)]

-----------------------------------------------------------------------------
(* Dialogs *)

\* Mutation of Rendered: a closed dialog keeps its key.
SeededPerRow(d) ==
    IF d.target \in {d.lastKey, Closed} THEN d
    ELSE [d EXCEPT !.lastKey = d.target, !.typed = 0, !.located = 0]

\* Mutation of Rendered: the position is not reset with the other fields.
PositionStays(d) ==
    IF d.target = d.lastKey THEN d ELSE [d EXCEPT !.lastKey = d.target, !.typed = 0]

\* `if (dialogKey !== lastKey)`: the form is seeded again whenever the dialog's
\* key changes, and "closed" is a key of its own.
Rendered(d) ==
    IF d.target = d.lastKey THEN d
    ELSE [d EXCEPT !.lastKey = d.target, !.typed = 0, !.located = 0]

OpenDialog(d, r) ==
    /\ dialog[d].session < MaxOpens
    /\ r \in Rows => RowOnScreen(r)
    /\ dialog' = [dialog EXCEPT ![d] =
                     Rendered([@ EXCEPT !.target = r, !.session = dialog[d].session + 1])]
    /\ UNCHANGED <<mounted, filter, server, cache, confirm, extra, calls, told>>

ClosedBy(d) == [dialog EXCEPT ![d] = Rendered([@ EXCEPT !.target = Closed])]

\* Escape, the overlay or the cross: possible whatever is under way.
DismissDialog(d) ==
    /\ mounted /\ dialog[d].target # Closed
    /\ dialog' = ClosedBy(d)
    /\ UNCHANGED <<mounted, filter, server, cache, confirm, extra, calls, told>>
TypeIn(d) ==
    /\ mounted /\ dialog[d].target # Closed
    /\ dialog' = [dialog EXCEPT ![d].typed = dialog[d].session]
    /\ UNCHANGED <<mounted, filter, server, cache, confirm, extra, calls, told>>

\* A dialog that is not seeded: opening and dismissing it leave its fields alone.
OpenKept(d, r) ==
    /\ dialog[d].session < MaxOpens
    /\ dialog' = [dialog EXCEPT ![d].target = r, ![d].lastKey = r, ![d].session = @ + 1]
    /\ UNCHANGED <<mounted, filter, server, cache, confirm, extra, calls, told>>
DismissKept(d) ==
    /\ mounted /\ dialog[d].target # Closed
    /\ dialog' = [dialog EXCEPT ![d].target = Closed]
    /\ UNCHANGED <<mounted, filter, server, cache, confirm, extra, calls, told>>

\* A ConfirmDialog opens, or is cancelled.
AskFirst(c, r) ==
    /\ Unobstructed /\ RowOnScreen(r)
    /\ confirm' = [confirm EXCEPT ![c] = r]
    /\ UNCHANGED <<mounted, filter, server, cache, dialog, extra, calls, told>>
Cancel(c) ==
    /\ mounted /\ confirm[c] # Closed
    /\ confirm' = [confirm EXCEPT ![c] = Closed]
    /\ UNCHANGED <<mounted, filter, server, cache, dialog, extra, calls, told>>

-----------------------------------------------------------------------------
(* Calls *)

\* isPending of a useMutation hook of the mounted page.
Pending(op) == \E c \in calls : c.op = op /\ c.live

NewCall(op, r) ==
    [op |-> op, target |-> r, form |-> r, typed |-> 0, located |-> 0, session |-> 0,
     live |-> TRUE, stage |-> "sent", wrote |-> 0]

\* mutate() of a form dialog: the target is the dialog's, the fields the form's.
FormCall(op, d) ==
    [NewCall(op, d.target) EXCEPT !.form = d.lastKey, !.typed = d.typed,
                                  !.located = d.located, !.session = d.session]

Send(c) ==
    /\ mounted /\ ~Pending(c.op) /\ Cardinality(calls) < MaxCalls
    /\ calls' = calls \cup {c}
    /\ UNCHANGED <<ui, server, cache, told>>

\* The Save button of an open dialog, disabled while its save is under way ...
SendForm(d, op) == dialog[d].target # Closed /\ Send(FormCall(op, dialog[d]))

\* ... and, where a field is required, until something is typed for a row to be.
SubmitForm(d, op) ==
    /\ dialog[d].target = Create => dialog[d].typed # 0
    /\ SendForm(d, op)

\* The confirm button of a ConfirmDialog.
Confirmed(c, op) == confirm[c] # Closed /\ Send(NewCall(op, confirm[c]))

\* The server carries the call out, with one of the outcomes `nexts` for its list,
\* and the answer arrives or is lost on the way; or it refuses, or the request
\* never gets there.
Serve(c, nexts) ==
    /\ c.stage = "sent"
    /\ \/ /\ server.version < MaxWrites
          /\ \E next \in nexts, outcome \in {"done", "lost"} :
                /\ server' = next
                /\ calls' = (calls \ {c}) \cup
                               {[c EXCEPT !.stage = outcome, !.wrote = next.version]}
       \/ /\ UNCHANGED server
          /\ calls' = (calls \ {c}) \cup {[c EXCEPT !.stage = "refused"]}
    /\ UNCHANGED <<ui, cache, told>>

\* What a change of status, a deletion or a save makes of the list.
Written(r, status) ==
    [version |-> server.version + 1, rows |-> [server.rows EXCEPT ![r] = status]]
Held(rs) == {r \in rs \cap Rows : server.rows[r] # "none"}
TurnedTo(c, status) == {Written(r, status) : r \in Held({c.target})}
DeletedBy(c) == TurnedTo(c, "none")
SavedBy(c) ==
    IF c.target = Create THEN {Written(r, "on") : r \in Rows \ Held(Rows)}
    ELSE {Written(r, server.rows[r]) : r \in Held({c.target})}

\* onSuccess: the list is invalidated even when the page has been left since.
SucceedUsing(c, used) ==
    /\ c.stage = "done"
    /\ calls' = calls \ {c}
    /\ cache' = Refetched(used)
    /\ told' = IF c.wrote > told THEN c.wrote ELSE told
    /\ UNCHANGED <<mounted, filter, server>>
Succeed(c) == SucceedUsing(c, mounted)
SucceedQuietly(c) == Succeed(c) /\ UNCHANGED <<dialog, confirm, extra>>

\* ... and closes the dialog of the page that sent it, whoever is in it now.
SucceedAndClose(c, d) ==
    /\ Succeed(c)
    /\ dialog' = IF c.live THEN ClosedBy(d) ELSE dialog
    /\ UNCHANGED <<confirm, extra>>
SucceedConfirmed(c, q) ==
    /\ Succeed(c)
    /\ confirm' = IF c.live THEN [confirm EXCEPT ![q] = Closed] ELSE confirm
    /\ UNCHANGED <<dialog, extra>>

\* onError: nothing but the banner changes.
Fail(c) ==
    /\ c.stage \in {"refused", "lost"}
    /\ calls' = calls \ {c}
    /\ UNCHANGED <<ui, server, cache, told>>

\* Another administrator writes to a row.
Elsewhere(r) ==
    /\ server.version < MaxWrites /\ r \in Held(Rows)
    /\ server' = Written(r, server.rows[r])
    /\ UNCHANGED <<ui, cache, calls, told>>

-----------------------------------------------------------------------------
(* What the pages promise *)

\* A save carries only what was typed since its dialog was last opened, for the
\* row the dialog showed: nothing of an abandoned edit, of this row or another,
\* reaches the server.  `ops` are the calls of the dialogs that are seeded.
FreshForms(ops) ==
    \A c \in calls : c.op \in ops => c.form = c.target /\ c.typed \in {0, c.session}

\* A list that shows no sign of being behind (no fetch under way, no error) holds
\* every write the page was told of, unless an invalidation was absorbed by a
\* fetch already under way.
ToldIsShown ==
    mounted /\ Idle(Entry) /\ Shown(Entry) /\ ~Entry.joined =>
        told <= Entry.data.list.version

\* The rows on screen answer the filter on screen.
AnswersFilter == mounted /\ Shown(Entry) => Entry.data.for = filter
=============================================================================
