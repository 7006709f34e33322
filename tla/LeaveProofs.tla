----------------------------- MODULE LeaveProofs -----------------------------
(***************************************************************************)
(* Proofs about Leave, for any number of employees, leave types, requests  *)
(* and workers.  Types, and that decisions are final but for workers that  *)
(* loaded the request before, hold however operations overlap.  That the   *)
(* balances sum the approved leave holds until two operations have met on  *)
(* one request or one balance.  It relates a balance to a sum over the     *)
(* table, so this starts with what sums do when a request joins or leaves  *)
(* them.                                                                   *)
(***************************************************************************)
EXTENDS Leave, FiniteSets, FiniteSetTheorems, WellFoundedInduction, TLAPS

-----------------------------------------------------------------------------
(* Sums over finite sets. *)

\* The member that the fold takes out first.
One(s) == CHOOSE x \in s : TRUE

\* Function g sums f over every subset of S, one member after the other.
Rec(g, f, S) ==
    g = [s \in SUBSET S |-> IF s = {} THEN 0 ELSE f[One(s)] + g[s \ {One(s)}]]

\* SumFunctionOnSet is such a solution, applied to the whole set.
LEMMA SumDef ==
    ASSUME NEW f, NEW S
    PROVE SumFunctionOnSet(f, S) = (CHOOSE g : Rec(g, f, S))[S]
BY DEF SumFunctionOnSet, FoldFunctionOnSet, MapThenFoldSet, Rec, One

\* A set that is not empty has a member to take out.
LEMMA OneIn ==
    ASSUME NEW s, s # {} PROVE One(s) \in s
BY DEF One

\* A family of subsets of a finite set has a smallest member.
LEMMA Smallest ==
    ASSUME NEW S, IsFiniteSet(S), NEW Bad \in SUBSET SUBSET S, Bad # {}
    PROVE \E T \in Bad : \A U \in Bad : U \subseteq T => U = T
<1>1. IsWellFoundedOn(StrictSubsetOrdering(S), SUBSET S)
  BY FS_StrictSubsetOrderingWellFounded, FS_FiniteSubsetsOfFinite
<1>2. \E T \in Bad : \A U \in Bad : ~ (<<U, T>> \in StrictSubsetOrdering(S))
  BY <1>1, WFMin
<1>3. QED
  BY <1>2 DEF StrictSubsetOrdering

\* The recursion has at most one solution on the subsets of both S and T.
LEMMA RecUnique ==
    ASSUME NEW f, NEW S, NEW T, IsFiniteSet(T), T \subseteq S,
           NEW g, NEW h, Rec(g, f, S), Rec(h, f, T)
    PROVE \A U \in SUBSET T : g[U] = h[U]
<1> DEFINE Bad == {U \in SUBSET T : g[U] # h[U]}
<1>1. SUFFICES ASSUME Bad # {} PROVE FALSE
  OBVIOUS
<1>2. PICK U \in Bad : \A V \in Bad : V \subseteq U => V = U
  <2>1. Bad \in SUBSET SUBSET T
    OBVIOUS
  <2> HIDE DEF Bad
  <2>2. QED
    BY <1>1, <2>1, Smallest
<1>3. g[U] = IF U = {} THEN 0 ELSE f[One(U)] + g[U \ {One(U)}]
  BY DEF Rec
<1>4. h[U] = IF U = {} THEN 0 ELSE f[One(U)] + h[U \ {One(U)}]
  BY DEF Rec
<1>5. U # {}
  BY <1>3, <1>4
<1>6. One(U) \in U
  BY <1>5, OneIn
<1>7. U \ {One(U)} \notin Bad
  BY <1>2, <1>6
<1>8. g[U \ {One(U)}] = h[U \ {One(U)}]
  BY <1>7
<1>9. QED
  BY <1>3, <1>4, <1>8

\* The recursion has a solution on the subsets of a finite set.
LEMMA RecExists ==
    ASSUME NEW f, NEW S, IsFiniteSet(S) PROVE \E g : Rec(g, f, S)
<1> DEFINE Bad == {T \in SUBSET S : ~ \E g : Rec(g, f, T)}
<1>1. SUFFICES ASSUME Bad # {} PROVE FALSE
  OBVIOUS
<1>2. PICK T \in Bad : \A V \in Bad : V \subseteq T => V = T
  <2>1. Bad \in SUBSET SUBSET S
    OBVIOUS
  <2> HIDE DEF Bad
  <2>2. QED
    BY <1>1, <2>1, Smallest
<1>3. \A V \in SUBSET T : V # T => \E g : Rec(g, f, V)
  BY <1>2
<1>4. IsFiniteSet(T) /\ \A V \in SUBSET T : IsFiniteSet(V)
  BY FS_Subset
<1> DEFINE Val(V) == (CHOOSE g : Rec(g, f, V))[V]
           h == [s \in SUBSET T |-> IF s = {} THEN 0 ELSE f[One(s)] + Val(s \ {One(s)})]
<1>5. ASSUME NEW V \in SUBSET T, V # T PROVE Val(V) = h[V]
  <2>1. PICK g : g = CHOOSE k : Rec(k, f, V)
    OBVIOUS
  <2>2. Rec(g, f, V)
    BY <1>3, <1>5, <2>1
  <2>3. g[V] = IF V = {} THEN 0 ELSE f[One(V)] + g[V \ {One(V)}]
    BY <2>2 DEF Rec
  <2>4. CASE V = {}
    BY <2>1, <2>3, <2>4
  <2>5. CASE V # {}
    <3>1. PICK W : W = V \ {One(V)}
      OBVIOUS
    <3>2. W \in SUBSET V /\ W \in SUBSET T /\ W # T
      BY <1>5, <2>5, <3>1, OneIn
    <3>3. PICK k : k = CHOOSE u : Rec(u, f, W)
      OBVIOUS
    <3>4. Rec(k, f, W)
      BY <1>3, <3>2, <3>3
    <3>5. g[W] = k[W]
      BY <1>4, <2>2, <3>2, <3>4, RecUnique
    <3>6. Val(W) = k[W]
      BY <3>3
    <3> HIDE DEF Val
    <3>7. h[V] = f[One(V)] + Val(W)
      BY <2>5, <3>1
    <3>8. QED
      BY <2>1, <2>3, <2>5, <3>1, <3>5, <3>6, <3>7 DEF Val
  <2>6. QED
    BY <2>4, <2>5
<1> HIDE DEF Val
<1>6. ASSUME NEW s \in SUBSET T, s # {} PROVE h[s] = f[One(s)] + h[s \ {One(s)}]
  <2>1. PICK V : V = s \ {One(s)}
    OBVIOUS
  <2>2. V \in SUBSET T /\ V # T
    BY <1>6, <2>1, OneIn
  <2>3. Val(V) = h[V]
    BY <1>5, <2>2
  <2>4. h[s] = f[One(s)] + Val(V)
    BY <1>6, <2>1
  <2>5. QED
    BY <2>1, <2>3, <2>4
<1>7. h = [s \in SUBSET T |-> IF s = {} THEN 0 ELSE f[One(s)] + h[s \ {One(s)}]]
  <2>1. h = [s \in SUBSET T |-> h[s]]
    OBVIOUS
  <2>2. h[{}] = 0
    OBVIOUS
  <2> HIDE DEF h
  <2>3. QED
    BY <1>6, <2>1, <2>2
<1>8. Rec(h, f, T)
  BY <1>7 DEF Rec
<1>9. QED
  BY <1>2, <1>8

\* What the sum over a finite set is.
LEMMA SumRec ==
    ASSUME NEW f, NEW S, IsFiniteSet(S)
    PROVE SumFunctionOnSet(f, S)
          = IF S = {} THEN 0 ELSE f[One(S)] + SumFunctionOnSet(f, S \ {One(S)})
<1>1. PICK g : g = CHOOSE k : Rec(k, f, S)
  OBVIOUS
<1>2. Rec(g, f, S)
  BY <1>1, RecExists
<1>3. SumFunctionOnSet(f, S) = g[S]
  BY <1>1, SumDef
<1>4. g[S] = IF S = {} THEN 0 ELSE f[One(S)] + g[S \ {One(S)}]
  BY <1>2 DEF Rec
<1>5. PICK T : T = S \ {One(S)}
  OBVIOUS
<1>6. IsFiniteSet(T) /\ T \subseteq S
  BY <1>5, FS_Subset
<1>7. PICK h : h = CHOOSE k : Rec(k, f, T)
  OBVIOUS
<1>8. Rec(h, f, T)
  BY <1>6, <1>7, RecExists
<1>9. SumFunctionOnSet(f, T) = h[T]
  BY <1>7, SumDef
<1>10. g[T] = h[T]
  BY <1>2, <1>6, <1>8, RecUnique
<1>11. QED
  BY <1>3, <1>4, <1>5, <1>9, <1>10

\* A sum of integers is an integer, and any element may be taken out first.
LEMMA SumTakeOut ==
    ASSUME NEW S, IsFiniteSet(S), NEW f \in [S -> Int]
    PROVE \A T \in SUBSET S :
            /\ SumFunctionOnSet(f, T) \in Int
            /\ \A x \in T : SumFunctionOnSet(f, T) = f[x] + SumFunctionOnSet(f, T \ {x})
<1> DEFINE Sum(T) == SumFunctionOnSet(f, T)
           Good(T) == Sum(T) \in Int /\ \A x \in T : Sum(T) = f[x] + Sum(T \ {x})
           Bad == {T \in SUBSET S : ~Good(T)}
<1>1. SUFFICES ASSUME Bad # {} PROVE FALSE
  OBVIOUS
<1>2. PICK T \in Bad : \A V \in Bad : V \subseteq T => V = T
  <2>1. Bad \in SUBSET SUBSET S
    OBVIOUS
  <2> HIDE DEF Bad
  <2>2. QED
    BY <1>1, <2>1, Smallest
<1>3. \A V \in SUBSET T : V # T => Good(V)
  BY <1>2
<1>4. \A V \in SUBSET T : Sum(V) = IF V = {} THEN 0 ELSE f[One(V)] + Sum(V \ {One(V)})
  <2> SUFFICES ASSUME NEW V \in SUBSET T
               PROVE Sum(V) = IF V = {} THEN 0 ELSE f[One(V)] + Sum(V \ {One(V)})
    OBVIOUS
  <2>1. IsFiniteSet(V)
    BY FS_Subset
  <2>2. QED
    BY <2>1, SumRec
<1> HIDE DEF Sum
<1>5. ~Good(T)
  BY <1>2
<1>6. ASSUME T = {} PROVE FALSE
  <2>1. Sum(T) = 0
    BY <1>4, <1>6
  <2>2. QED
    BY <1>5, <1>6, <2>1
<1>7. PICK c \in T : c = One(T)
  BY <1>6, OneIn
<1>8. Sum(T) = f[c] + Sum(T \ {c})
  BY <1>4, <1>6, <1>7
<1>9. Sum(T \ {c}) \in Int /\ f[c] \in Int
  BY <1>3
<1>10. ASSUME NEW x \in T PROVE Sum(T) = f[x] + Sum(T \ {x})
  <2>1. CASE x = c
    BY <1>8, <2>1
  <2>2. CASE x # c
    <3>1. PICK V : V = T \ {c, x}
      OBVIOUS
    <3>2. Sum(T \ {c}) = f[x] + Sum(V)
      <4>1. (T \ {c}) \ {x} = V
        BY <3>1
      <4>2. QED
        BY <1>3, <2>2, <4>1
    <3>3. Sum(T \ {x}) = f[c] + Sum(V)
      <4>1. (T \ {x}) \ {c} = V
        BY <3>1
      <4>2. QED
        BY <1>3, <2>2, <4>1
    <3>4. Sum(V) \in Int /\ f[x] \in Int
      BY <1>3, <3>1
    <3>5. QED
      BY <1>8, <1>9, <3>2, <3>3, <3>4
  <2>3. QED
    BY <2>1, <2>2
<1>11. QED
  BY <1>5, <1>8, <1>9, <1>10

\* A sum depends on nothing but the values that are summed.
LEMMA SumSame ==
    ASSUME NEW S, IsFiniteSet(S), NEW f \in [S -> Int], NEW T \in SUBSET S, NEW g \in [T -> Int],
           \A x \in T : g[x] = f[x]
    PROVE SumFunctionOnSet(f, T) = SumFunctionOnSet(g, T)
<1> DEFINE F(U) == SumFunctionOnSet(f, U)
           G(U) == SumFunctionOnSet(g, U)
           Bad == {U \in SUBSET T : F(U) # G(U)}
<1>0. IsFiniteSet(T) /\ \A U \in SUBSET T : IsFiniteSet(U)
  BY FS_Subset
<1>1. SUFFICES ASSUME Bad # {} PROVE FALSE
  OBVIOUS
<1>2. PICK U \in Bad : \A V \in Bad : V \subseteq U => V = U
  <2>1. Bad \in SUBSET SUBSET T
    OBVIOUS
  <2> HIDE DEF Bad
  <2>2. QED
    BY <1>0, <1>1, <2>1, Smallest
<1>3. /\ F(U) = IF U = {} THEN 0 ELSE f[One(U)] + F(U \ {One(U)})
      /\ G(U) = IF U = {} THEN 0 ELSE g[One(U)] + G(U \ {One(U)})
  BY <1>0, SumRec
<1> HIDE DEF F, G
<1>4. U # {}
  BY <1>3
<1>5. One(U) \in U
  BY <1>4, OneIn
<1>6. F(U \ {One(U)}) = G(U \ {One(U)}) /\ f[One(U)] = g[One(U)]
  BY <1>2, <1>5
<1>7. QED
  BY <1>3, <1>6

\* One more term.
LEMMA SumOneMore ==
    ASSUME NEW S, IsFiniteSet(S), NEW x, x \notin S,
           NEW f \in [S \cup {x} -> Int], NEW g \in [S -> Int], \A y \in S : g[y] = f[y]
    PROVE SumFunction(f) = f[x] + SumFunction(g) /\ SumFunction(g) \in Int
<1>1. PICK T : T = S \cup {x}
  OBVIOUS
<1>2. IsFiniteSet(T) /\ S \in SUBSET T /\ T \ {x} = S /\ T \in SUBSET T /\ x \in T
  BY <1>1, FS_AddElement
<1>3. f \in [T -> Int]
  BY <1>1
<1>4. SumFunctionOnSet(f, T) = f[x] + SumFunctionOnSet(f, S)
  BY <1>2, <1>3, SumTakeOut
<1>5. SumFunctionOnSet(f, S) = SumFunctionOnSet(g, S)
  BY <1>2, <1>3, SumSame
<1>6. SumFunctionOnSet(g, S) \in Int
  BY SumTakeOut
<1>7. DOMAIN f = T /\ DOMAIN g = S
  BY <1>3
<1>8. QED
  BY <1>4, <1>5, <1>6, <1>7 DEF SumFunction

-----------------------------------------------------------------------------
(* What holds however operations overlap. *)

\* What the worker's copy was when it was judged: it does not change after that.
Judged(w) ==
    /\ job[w].pc # "idle" => /\ job[w].id \in Ids /\ Made(job[w].id)
                             /\ job[w].copy \in LeaveRequest
    /\ job[w].pc \in {"edit.save", "approve.read", "approve.balance", "approve.status",
                      "reject.status"} => job[w].copy.status = "PENDING"
    /\ job[w].pc \in {"cancel.read", "cancel.balance"} => job[w].copy.status = "APPROVED"
    /\ job[w].pc = "cancel.status" => job[w].copy.status \in {"PENDING", "APPROVED"}

\* The types, whatever the order of a request's dates.
JInv ==
    /\ requests \in [Ids -> LeaveRequest \cup {NoRequest}]
    /\ used \in [Balances -> Int]
    /\ job \in [Workers -> Job]
    /\ crashes \in 0 .. MaxCrashes
    /\ lost \in [Balances -> Int]
    /\ \A w \in Workers : Judged(w)

\* A worker without a request is typed.
LEMMA IdleTyped == Idle \in Job /\ Idle.pc = "idle"
BY DEF Idle, Job

\* Leave is a whole number of days, and charged to one of the balances.
LEMMA CopyCharged ==
    ASSUME NEW r \in LeaveRequest
    PROVE BalanceOf(r) \in Balances /\ DaysRequested(r) \in Int
<1>1. BalanceOf(r) \in Balances
  BY DEF BalanceOf, Balances, LeaveRequest
<1>2. DaysRequested(r) \in Int
  BY LeaveAssumption DEF DaysRequested, LeaveRequest, Days
<1>3. QED
  BY <1>1, <1>2

\* Of an edit, what is saved is a leave request, and the edited copy itself if it
\* is made from the row as it is.
LEMMA EditedTyped ==
    ASSUME NEW r \in LeaveRequest, NEW data \in Patch \cup LeaveRequest, NEW fields \in SUBSET Fields
    PROVE /\ Edited(r, data, fields) \in LeaveRequest
          /\ Edited(r, data, fields).status = r.status
          /\ Edited(r, data, fields).emp = r.emp
          /\ Edited(r, Edited(r, data, fields), fields) = Edited(r, data, fields)
<1>1. Edited(r, data, fields) \in LeaveRequest
  BY DEF Edited, LeaveRequest, Patch
<1>2. Edited(r, Edited(r, data, fields), fields) = Edited(r, data, fields)
  BY DEF Edited
<1>3. QED
  BY <1>1, <1>2 DEF Edited

\* A worker takes up, goes on with or ends a request, and rows stay made.
LEMMA WorkerStep ==
    ASSUME JInv, NEW w \in Workers, NEW q \in Job, job' = [job EXCEPT ![w] = q],
           requests' \in [Ids -> LeaveRequest \cup {NoRequest}],
           \A id \in Ids : Made(id) => Made(id)', Judged(w)',
           used' \in [Balances -> Int], crashes' \in 0 .. MaxCrashes, lost' \in [Balances -> Int]
    PROVE JInv'
<1>1. job' \in [Workers -> Job] /\ \A v \in Workers : v # w => job'[v] = job[v]
  BY DEF JInv
<1>2. ASSUME NEW v \in Workers, v # w PROVE Judged(v)'
  <2>1. job'[v] = job[v] /\ Judged(v)
    BY <1>1, <1>2 DEF JInv
  <2>2. QED
    BY <2>1 DEF Judged
<1>3. QED
  BY <1>1, <1>2 DEF JInv

\* A worker that ends or dies.
LEMMA EndStep ==
    ASSUME JInv, NEW w \in Workers, Answer(w),
           requests' \in [Ids -> LeaveRequest \cup {NoRequest}],
           \A id \in Ids : Made(id) => Made(id)',
           used' \in [Balances -> Int], crashes' \in 0 .. MaxCrashes, lost' \in [Balances -> Int]
    PROVE JInv' /\ job'[w].pc = "idle"
<1>1. job' = [job EXCEPT ![w] = Idle] /\ job'[w] = Idle
  BY DEF Answer, JInv
<1>2. Judged(w)'
  BY <1>1, IdleTyped DEF Judged
<1>3. QED
  BY <1>1, <1>2, IdleTyped, WorkerStep

\* A worker that takes up a request, or goes on with it.
LEMMA ProceedStep ==
    ASSUME JInv, NEW w \in Workers, NEW pc, NEW id, NEW copy, NEW fields \in SUBSET Fields,
           NEW held \in Int, Proceed(w, pc, id, copy, fields, held),
           UNCHANGED <<requests, crashes, lost>>, used' \in [Balances -> Int],
           id \in Ids, Made(id), copy \in LeaveRequest,
           \/ /\ pc \in {"edit.save", "approve.read", "approve.balance", "approve.status",
                         "reject.status"}
              /\ copy.status = "PENDING"
           \/ pc \in {"cancel.read", "cancel.balance", "cancel.status"} /\ copy.status = "APPROVED"
           \/ pc = "cancel.status" /\ copy.status = "PENDING"
    PROVE JInv'
<1> DEFINE q == [pc |-> pc, id |-> id, copy |-> copy, fields |-> fields, held |-> held]
<1>1. q \in Job /\ q.pc = pc /\ q.id = id /\ q.copy = copy
  BY DEF Job
<1>2. job' = [job EXCEPT ![w] = q] /\ job'[w] = q
  BY DEF Proceed, JInv
<1> HIDE DEF q
<1>3. Made(id)' /\ \A i \in Ids : Made(i) => Made(i)'
  BY DEF Made
<1>4. Judged(w)'
  BY <1>1, <1>2, <1>3 DEF Judged
<1>5. requests' \in [Ids -> LeaveRequest \cup {NoRequest}] /\ crashes' \in 0 .. MaxCrashes
      /\ lost' \in [Balances -> Int]
  BY DEF JInv
<1>6. QED
  BY <1>1, <1>2, <1>3, <1>4, <1>5, WorkerStep

\* One row of the table gets other contents.
LEMMA RowWritten ==
    ASSUME JInv, NEW id \in Ids, NEW r \in LeaveRequest, requests' = [requests EXCEPT ![id] = r]
    PROVE /\ requests' \in [Ids -> LeaveRequest \cup {NoRequest}]
          /\ \A i \in Ids : Made(i) => Made(i)'
          /\ \A i \in Ids : requests'[i] = IF i = id THEN r ELSE requests[i]
BY LeaveAssumption DEF JInv, Made

\* The row that an edit saves keeps its status.
LEMMA SaveEditRow ==
    ASSUME JInv, NEW w \in Workers, SaveEdit(w)
    PROVE /\ JInv' /\ job[w].pc = "edit.save" /\ job'[w].pc = "idle"
          /\ job[w].id \in Ids /\ job[w].copy.status = "PENDING"
          /\ \A i \in Ids : i # job[w].id => requests'[i] = requests[i]
<1>1. /\ job[w].pc = "edit.save" /\ job[w].id \in Ids /\ job[w].copy \in LeaveRequest
      /\ requests[job[w].id] \in LeaveRequest /\ job[w].fields \in SUBSET Fields
      /\ job[w].copy.status = "PENDING"
  BY DEF SaveEdit, JInv, Judged, Made, Job
<1>2. PICK id \in Ids : id = job[w].id
  BY <1>1
<1>3. PICK r \in LeaveRequest : r = Edited(requests[id], job[w].copy, job[w].fields)
  BY <1>1, <1>2, EditedTyped
<1>4. requests' = [requests EXCEPT ![id] = r] /\ Answer(w) /\ UNCHANGED <<used, crashes, lost>>
  BY <1>2, <1>3 DEF SaveEdit
<1>5. JInv' /\ job'[w].pc = "idle"
  BY <1>4, RowWritten, EndStep DEF JInv
<1>6. QED
  BY <1>1, <1>2, <1>4, <1>5, RowWritten

\* The row that a decision saves gets the status of the decision, and nothing else.
LEMMA SaveStatusWrites ==
    ASSUME JInv, NEW w \in Workers, SaveStatus(w)
    PROVE \E id \in Ids, r \in LeaveRequest, decided \in {"APPROVED", "REJECTED", "CANCELLED"} :
            /\ JInv' /\ job'[w].pc = "idle" /\ job[w].pc # "idle" /\ id = job[w].id
            /\ r = [requests[id] EXCEPT !.status = decided]
            /\ \A i \in Ids : requests'[i] = IF i = id THEN r ELSE requests[i]
            /\ \/ decided \in {"APPROVED", "REJECTED"} /\ job[w].copy.status = "PENDING"
               \/ decided = "CANCELLED" /\ job[w].copy.status \in {"PENDING", "APPROVED"}
<1>1. /\ job[w].pc \in {"approve.status", "reject.status", "cancel.status"}
      /\ job[w].id \in Ids /\ requests[job[w].id] \in LeaveRequest
  BY DEF SaveStatus, JInv, Judged, Made
<1>2. PICK id \in Ids : id = job[w].id
  BY <1>1
<1>3. PICK decided \in {"APPROVED", "REJECTED", "CANCELLED"} :
        /\ decided = IF job[w].pc = "approve.status" THEN "APPROVED"
                     ELSE IF job[w].pc = "reject.status" THEN "REJECTED" ELSE "CANCELLED"
  OBVIOUS
<1>4. PICK r \in LeaveRequest : r = [requests[id] EXCEPT !.status = decided]
  BY <1>1, <1>2 DEF LeaveRequest, Status
<1>5. requests' = [requests EXCEPT ![id].status = decided]
  BY <1>2, <1>3 DEF SaveStatus
<1>6. requests' = [requests EXCEPT ![id] = r]
  BY <1>4, <1>5
<1>7. Answer(w) /\ UNCHANGED <<used, crashes, lost>>
  BY DEF SaveStatus
<1>8. JInv' /\ job'[w].pc = "idle"
  BY <1>6, <1>7, RowWritten, EndStep DEF JInv
<1>9. \/ decided \in {"APPROVED", "REJECTED"} /\ job[w].copy.status = "PENDING"
      \/ decided = "CANCELLED" /\ job[w].copy.status \in {"PENDING", "APPROVED"}
  BY <1>1, <1>3 DEF JInv, Judged
<1>10. \A i \in Ids : requests'[i] = IF i = id THEN r ELSE requests[i]
  BY <1>6, RowWritten
<1>11. job[w].pc # "idle"
  BY <1>1
<1>12. QED
  BY <1>2, <1>4, <1>8, <1>9, <1>10, <1>11

\* A request that begins is judged.
LEMMA BeginJudged ==
    ASSUME JInv, NEW w \in Workers, NEW id \in Ids,
           \/ \E data \in Patch, fields \in SUBSET Fields : BeginEdit(w, id, data, fields)
           \/ BeginApprove(w, id) \/ BeginReject(w, id) \/ BeginCancel(w, id)
    PROVE JInv' /\ requests' = requests
<1>1. Made(id) /\ requests[id] \in LeaveRequest
  BY DEF BeginEdit, BeginApprove, BeginReject, BeginCancel, Made, JInv
<1>2. ASSUME NEW pc, NEW copy \in LeaveRequest, NEW fields \in SUBSET Fields,
             Begin(w, pc, id, copy, fields),
             \/ pc \in {"edit.save", "approve.read", "reject.status"} /\ copy.status = "PENDING"
             \/ pc = "cancel.read" /\ copy.status = "APPROVED"
             \/ pc = "cancel.status" /\ copy.status = "PENDING"
      PROVE JInv' /\ requests' = requests
  <2>1. /\ Proceed(w, pc, id, copy, fields, 0) /\ UNCHANGED <<requests, crashes, lost>>
        /\ used' \in [Balances -> Int]
    BY <1>2 DEF Begin, JInv
  <2>2. QED
    BY <1>1, <1>2, <2>1, ProceedStep
<1>3. ASSUME NEW data \in Patch, NEW fields \in SUBSET Fields, BeginEdit(w, id, data, fields)
      PROVE JInv' /\ requests' = requests
  <2>1. PICK copy : copy = Edited(requests[id], data, fields)
    OBVIOUS
  <2>2. copy \in LeaveRequest /\ copy.status = "PENDING"
    BY <1>1, <1>3, <2>1, EditedTyped DEF BeginEdit, Pending
  <2>3. Begin(w, "edit.save", id, copy, fields)
    BY <1>3, <2>1 DEF BeginEdit
  <2>4. QED
    BY <1>2, <2>2, <2>3
<1>4. ASSUME BeginApprove(w, id) \/ BeginReject(w, id) PROVE JInv' /\ requests' = requests
  BY <1>1, <1>2, <1>4 DEF BeginApprove, BeginReject, Pending
<1>5. ASSUME BeginCancel(w, id) PROVE JInv' /\ requests' = requests
  BY <1>1, <1>2, <1>5 DEF BeginCancel, WasApproved
<1>6. QED
  BY <1>3, <1>4, <1>5

\* The balance is read, or saved, by a worker that goes on.
LEMMA BalanceJudged ==
    ASSUME JInv, NEW w \in Workers, ReadBalance(w) \/ SaveBalance(w)
    PROVE JInv' /\ requests' = requests
<1>1. /\ job[w].pc \in {"approve.read", "cancel.read", "approve.balance", "cancel.balance"}
      /\ job[w].id \in Ids /\ Made(job[w].id) /\ job[w].copy \in LeaveRequest
      /\ job[w].pc \in {"approve.read", "approve.balance"} => job[w].copy.status = "PENDING"
      /\ job[w].pc \in {"cancel.read", "cancel.balance"} => job[w].copy.status = "APPROVED"
      /\ UNCHANGED <<requests, crashes, lost>>
  BY DEF ReadBalance, SaveBalance, JInv, Judged
<1>2. /\ used \in [Balances -> Int] /\ job[w].held \in Int
      /\ BalanceOf(job[w].copy) \in Balances /\ DaysRequested(job[w].copy) \in Int
  BY <1>1, CopyCharged DEF JInv, Job
<1>3. CASE ReadBalance(w)
  <2>1. PICK pc \in {"approve.balance", "cancel.balance"}, held \in Int :
          /\ Proceed(w, pc, job[w].id, job[w].copy, {}, held) /\ used' = used
          /\ pc = IF job[w].pc = "approve.read" THEN "approve.balance" ELSE "cancel.balance"
          /\ job[w].pc \in {"approve.read", "cancel.read"}
    BY <1>2, <1>3 DEF ReadBalance
  <2>2. QED
    BY <1>1, <1>2, <2>1, ProceedStep
<1>4. CASE SaveBalance(w)
  <2>1. PICK pc \in {"approve.status", "cancel.status"}, change \in Int :
          /\ Proceed(w, pc, job[w].id, job[w].copy, {}, 0)
          /\ used' = [used EXCEPT ![BalanceOf(job[w].copy)] = job[w].held + change]
          /\ pc = IF job[w].pc = "approve.balance" THEN "approve.status" ELSE "cancel.status"
          /\ job[w].pc \in {"approve.balance", "cancel.balance"}
    <3>1. PICK change \in Int : change = IF job[w].pc = "approve.balance"
                                         THEN DaysRequested(job[w].copy)
                                         ELSE -DaysRequested(job[w].copy)
      BY <1>2
    <3>2. QED
      BY <1>4, <3>1 DEF SaveBalance
  <2>2. job[w].held + change \in Int
    BY <1>2
  <2>3. used' \in [Balances -> Int]
    BY <1>2, <2>1, <2>2
  <2>4. QED
    BY <1>1, <2>1, <2>3, ProceedStep
<1>5. QED
  BY <1>3, <1>4

\* A new request for leave is added.
LEMMA SubmitJudged ==
    ASSUME JInv, NEW e \in Employees, NEW t \in Types, NEW start \in Days, NEW end \in Days,
           Submit(e, t, start, end)
    PROVE JInv' /\ \A id \in Ids : Made(id) => requests'[id] = requests[id]
<1> DEFINE r == [emp |-> e, type |-> t, start |-> start, end |-> end, status |-> "PENDING"]
<1>1. PICK id \in Ids : ~Made(id) /\ requests' = [requests EXCEPT ![id] = r]
  BY DEF Submit
<1>2. r \in LeaveRequest /\ UNCHANGED <<used, job, crashes, lost>>
  BY DEF Submit, LeaveRequest, Status
<1> HIDE DEF r
<1>3. /\ requests' \in [Ids -> LeaveRequest \cup {NoRequest}]
      /\ \A i \in Ids : Made(i) => Made(i)'
      /\ \A i \in Ids : requests'[i] = IF i = id THEN r ELSE requests[i]
  BY <1>1, <1>2, RowWritten
<1>4. \A w \in Workers : Judged(w)'
  BY <1>2, <1>3 DEF JInv, Judged
<1>5. QED
  BY <1>1, <1>2, <1>3, <1>4 DEF JInv

\* A worker dies.
LEMMA CrashJudged ==
    ASSUME JInv, NEW w \in Workers, Crash(w) PROVE JInv' /\ requests' = requests
<1>1. Answer(w) /\ UNCHANGED <<requests, used>> /\ crashes' \in 0 .. MaxCrashes
  BY LeaveAssumption DEF Crash, JInv
<1>2. ASSUME NEW b \in Balances PROVE lost[b] + (IF Midway(w, b) THEN Change(w) ELSE 0) \in Int
  <2>1. lost[b] \in Int
    BY DEF JInv
  <2>2. Midway(w, b) => Change(w) \in Int
    BY CopyCharged DEF Midway, Change, JInv, Judged
  <2>3. QED
    BY <2>1, <2>2
<1>3. lost' \in [Balances -> Int]
  BY <1>2 DEF Crash
<1>4. QED
  BY <1>1, <1>3, EndStep DEF JInv, Made

\* Nobody works on anything, and there is nothing to work on.
LEMMA InitJudged == Init => JInv
<1> SUFFICES ASSUME Init PROVE JInv
  OBVIOUS
<1>1. \A w \in Workers : job[w] = Idle
  BY DEF Init
<1>2. job \in [Workers -> Job]
  BY IdleTyped DEF Init
<1>3. \A w \in Workers : Judged(w)
  BY <1>1, IdleTyped DEF Judged
<1>4. QED
  BY <1>2, <1>3, LeaveAssumption DEF Init, JInv

\* Every step keeps the types and what workers have judged.
LEMMA StepJudged == JInv /\ [Next]_vars => JInv'
<1> SUFFICES ASSUME JInv, [Next]_vars PROVE JInv'
  OBVIOUS
<1>1. CASE UNCHANGED vars
  BY <1>1 DEF vars, JInv, Judged, Made
<1>2. CASE Step
  BY <1>2, SubmitJudged, BeginJudged, SaveEditRow, BalanceJudged, SaveStatusWrites, CrashJudged
     DEF Step, Handle
<1>3. QED
  BY <1>1, <1>2 DEF Next

\* docs/03-API-SPECIFICATION.md:230, services.py:78: a decided request is changed by
\* nothing but the cancellation of an approved one, and by workers that had loaded it
\* before it was decided.
THEOREM DecidedOnceHolds == Spec => DecidedOnce
<1> DEFINE Frozen(id) ==
             /\ Made(id) /\ requests[id].status # "PENDING"
             /\ requests'[id] # requests[id]
             => \/ /\ requests[id].status = "APPROVED"
                   /\ requests'[id] = [requests[id] EXCEPT !.status = "CANCELLED"]
                \/ SavedFromBefore(id)
           Decided == \A id \in Ids : Frozen(id)
<1>1. JInv /\ [Next]_vars => [Decided]_vars
  <2> SUFFICES ASSUME JInv, [Next]_vars, NEW id \in Ids, Made(id),
                      requests[id].status # "PENDING", requests'[id] # requests[id]
               PROVE \/ /\ requests[id].status = "APPROVED"
                        /\ requests'[id] = [requests[id] EXCEPT !.status = "CANCELLED"]
                     \/ SavedFromBefore(id)
    OBVIOUS
  <2>1. ASSUME NEW w \in Workers, SaveEdit(w) PROVE SavedFromBefore(id)
    <3>1. /\ job[w].pc = "edit.save" /\ job'[w].pc = "idle" /\ job[w].id = id
          /\ job[w].copy.status = "PENDING"
      BY <2>1, SaveEditRow
    <3>2. QED
      BY <3>1 DEF SavedFromBefore
  <2>2. ASSUME NEW w \in Workers, SaveStatus(w)
        PROVE \/ /\ requests[id].status = "APPROVED"
                 /\ requests'[id] = [requests[id] EXCEPT !.status = "CANCELLED"]
              \/ SavedFromBefore(id)
    <3>1. PICK i \in Ids, r \in LeaveRequest, decided \in {"APPROVED", "REJECTED", "CANCELLED"} :
            /\ job'[w].pc = "idle" /\ job[w].pc # "idle" /\ i = job[w].id
            /\ r = [requests[i] EXCEPT !.status = decided]
            /\ \A j \in Ids : requests'[j] = IF j = i THEN r ELSE requests[j]
            /\ \/ decided \in {"APPROVED", "REJECTED"} /\ job[w].copy.status = "PENDING"
               \/ decided = "CANCELLED" /\ job[w].copy.status \in {"PENDING", "APPROVED"}
      BY <2>2, SaveStatusWrites
    <3>2. i = id /\ requests'[id] = [requests[id] EXCEPT !.status = decided]
      BY <3>1
    <3>3. CASE job[w].copy.status # requests[id].status
      BY <3>1, <3>2, <3>3 DEF SavedFromBefore
    <3>4. CASE job[w].copy.status = requests[id].status
      BY <3>1, <3>2, <3>4
    <3>5. QED
      BY <3>3, <3>4
  <2>3. \E w \in Workers : SaveEdit(w) \/ SaveStatus(w)
    BY SubmitJudged, BeginJudged, BalanceJudged, CrashJudged DEF Next, Step, Handle, vars
  <2>4. QED
    BY <2>1, <2>2, <2>3
<1>2. QED
  BY <1>1, InitJudged, StepJudged, PTL DEF Spec, DecidedOnce

-----------------------------------------------------------------------------
(* What a worker knows of the request it works on, while no two meet. *)

\* The tables and jobs without the histories that are conditions.
tables == <<requests, used, job, crashes, lost>>

\* What is typed while no two operations meet.
Orderly ==
    /\ requests \in [Ids -> LeaveRequest \cup {NoRequest}]
    /\ \A id \in Ids : requests[id] # NoRequest => requests[id].end >= requests[id].start
    /\ used \in [Balances -> Int]
    /\ job \in [Workers -> Job]
    /\ \A w \in Workers : job[w].pc # "idle" => job[w].id \in Ids /\ job[w].copy # NoRequest
    /\ crashes \in 0 .. MaxCrashes
    /\ lost \in [Balances -> Int]

\* The request is as the worker judged it.
Held(w) ==
    /\ job[w].pc # "idle" => requests[job[w].id] \in LeaveRequest
    /\ job[w].pc = "edit.save" =>
          /\ requests[job[w].id].status = "PENDING"
          /\ LET r == Edited(requests[job[w].id], job[w].copy, job[w].fields)
             IN  r.end >= r.start
    /\ job[w].pc \notin {"idle", "edit.save"} => requests[job[w].id] = job[w].copy
    /\ job[w].pc \in {"approve.read", "approve.balance", "approve.status", "reject.status"}
          => job[w].copy.status = "PENDING"
    /\ job[w].pc \in {"cancel.read", "cancel.balance"} => job[w].copy.status = "APPROVED"
    /\ job[w].pc = "cancel.status" => job[w].copy.status \in {"PENDING", "APPROVED"}

IInv == Orderly /\ \A w \in Workers : Held(w)

\* A worker takes up, goes on with or ends a request.
LEMMA JobStep ==
    ASSUME Orderly, NEW w \in Workers, NEW q \in Job, job' = [job EXCEPT ![w] = q],
           q.pc # "idle" => q.id \in Ids /\ q.copy # NoRequest
    PROVE /\ job' \in [Workers -> Job]
          /\ \A v \in Workers : job'[v].pc # "idle" => job'[v].id \in Ids /\ job'[v].copy # NoRequest
          /\ job'[w] = q /\ \A v \in Workers : v # w => job'[v] = job[v]
BY DEF Orderly

\* One row of the table changes, and stays a leave request with its dates in order.
LEMMA RowStep ==
    ASSUME Orderly, NEW id \in Ids, NEW r \in LeaveRequest, r.end >= r.start,
           requests' = [requests EXCEPT ![id] = r]
    PROVE /\ requests' \in [Ids -> LeaveRequest \cup {NoRequest}]
          /\ \A i \in Ids : requests'[i] # NoRequest => requests'[i].end >= requests'[i].start
          /\ requests'[id] = r /\ \A i \in Ids : i # id => requests'[i] = requests[i]
BY DEF Orderly

\* What is known of a request stays true while nobody changes the row.
LEMMA StillHeld ==
    ASSUME NEW v \in Workers, Held(v), job'[v] = job[v],
           job[v].pc # "idle" => requests'[job[v].id] = requests[job[v].id]
    PROVE Held(v)'
<1>1. CASE job[v].pc = "idle"
  BY <1>1 DEF Held
<1>2. CASE job[v].pc # "idle"
  <2>1. requests'[job'[v].id] = requests[job[v].id]
    BY <1>2
  <2>2. QED
    BY <2>1 DEF Held
<1>3. QED
  BY <1>1, <1>2

\* A worker that has answered knows nothing.
LEMMA IdleHeld ==
    ASSUME NEW v \in Workers, job'[v].pc = "idle" PROVE Held(v)'
BY DEF Held

\* Nobody works on anything, and there is nothing to work on.
LEMMA InitEstablishes == Init => IInv
<1> SUFFICES ASSUME Init PROVE IInv
  OBVIOUS
<1>1. Idle \in Job /\ Idle.pc = "idle"
  BY IdleTyped
<1>2. \A w \in Workers : job[w] = Idle
  BY DEF Init
<1>3. job \in [Workers -> Job]
  BY <1>1 DEF Init
<1>4. Orderly
  BY <1>1, <1>2, <1>3, LeaveAssumption DEF Init, Orderly
<1>5. \A w \in Workers : Held(w)
  BY <1>1, <1>2 DEF Held
<1>6. QED
  BY <1>4, <1>5 DEF IInv

\* A new request for leave is nobody's work yet.
LEMMA SubmitStep ==
    ASSUME IInv, NEW e \in Employees, NEW t \in Types, NEW start \in Days, NEW end \in Days,
           Submit(e, t, start, end)
    PROVE IInv'
<1> DEFINE r == [emp |-> e, type |-> t, start |-> start, end |-> end, status |-> "PENDING"]
<1>1. PICK id \in Ids : ~Made(id) /\ requests' = [requests EXCEPT ![id] = r]
  BY DEF Submit
<1>2. r \in LeaveRequest /\ r.end >= r.start /\ UNCHANGED <<used, job, crashes, lost>>
  BY DEF Submit, LeaveRequest, Status
<1> HIDE DEF r
<1>3. Orderly /\ \A w \in Workers : Held(w)
  BY DEF IInv
<1>4. /\ requests' \in [Ids -> LeaveRequest \cup {NoRequest}]
      /\ \A i \in Ids : requests'[i] # NoRequest => requests'[i].end >= requests'[i].start
      /\ \A i \in Ids : i # id => requests'[i] = requests[i]
  BY <1>1, <1>2, <1>3, RowStep
<1>5. Orderly'
  BY <1>2, <1>4 DEF IInv, Orderly
<1>6. ASSUME NEW w \in Workers PROVE Held(w)'
  <2>1. job[w].pc # "idle" => job[w].id \in Ids /\ requests[job[w].id] # NoRequest
    BY <1>3, LeaveAssumption DEF Orderly, Held
  <2>2. job[w].pc # "idle" => job[w].id # id
    BY <1>1, <2>1 DEF Made
  <2>3. QED
    BY <1>2, <1>3, <1>4, <2>1, <2>2, StillHeld
<1>7. QED
  BY <1>5, <1>6 DEF IInv

\* A worker moves on, ends or dies, and the table stays as it is.
LEMMA QuietStep ==
    ASSUME IInv, NEW w \in Workers, NEW q \in Job, job' = [job EXCEPT ![w] = q],
           q.pc # "idle" => q.id \in Ids /\ q.copy # NoRequest,
           requests' = requests, Held(w)',
           used' \in [Balances -> Int], crashes' \in 0 .. MaxCrashes, lost' \in [Balances -> Int]
    PROVE IInv'
<1>1. Orderly /\ \A v \in Workers : Held(v)
  BY DEF IInv
<1>2. /\ job' \in [Workers -> Job]
      /\ \A v \in Workers : job'[v].pc # "idle" => job'[v].id \in Ids /\ job'[v].copy # NoRequest
      /\ \A v \in Workers : v # w => job'[v] = job[v]
  BY <1>1, JobStep
<1>3. Orderly'
  BY <1>2 DEF IInv, Orderly
<1>4. \A v \in Workers : Held(v)'
  BY <1>1, <1>2, StillHeld
<1>5. QED
  BY <1>3, <1>4 DEF IInv

\* A worker that ends with an answer, while the table stays as it is.
LEMMA AnswerStep ==
    ASSUME IInv, NEW w \in Workers, Answer(w), requests' = requests, used' = used,
           crashes' \in 0 .. MaxCrashes, lost' \in [Balances -> Int]
    PROVE IInv'
<1>1. Idle \in Job /\ Idle.pc = "idle"
  BY IdleTyped
<1>2. job' = [job EXCEPT ![w] = Idle] /\ job \in [Workers -> Job] /\ used \in [Balances -> Int]
  BY DEF Answer, IInv, Orderly
<1>3. Held(w)'
  BY <1>1, <1>2, IdleHeld
<1>4. QED
  BY <1>1, <1>2, <1>3, QuietStep

\* The service has judged the request that the view loaded.
LEMMA BeginStep ==
    ASSUME IInv, NEW w \in Workers, NEW id \in Ids,
           NEW pc \in {"edit.save", "reject.status", "approve.read", "cancel.read", "cancel.status"},
           NEW copy \in LeaveRequest, NEW fields \in SUBSET Fields,
           Begin(w, pc, id, copy, fields),
           requests[id] \in LeaveRequest,
           pc = "edit.save" => /\ requests[id].status = "PENDING"
                               /\ Edited(requests[id], copy, fields).end
                                    >= Edited(requests[id], copy, fields).start,
           pc # "edit.save" => requests[id] = copy,
           pc \in {"approve.read", "reject.status"} => copy.status = "PENDING",
           pc = "cancel.read" => copy.status = "APPROVED",
           pc = "cancel.status" => copy.status \in {"PENDING", "APPROVED"}
    PROVE IInv'
<1>1. UNCHANGED <<requests, used, crashes, lost>> /\ Proceed(w, pc, id, copy, fields, 0)
  BY DEF Begin
<1>2. /\ used' \in [Balances -> Int] /\ crashes' \in 0 .. MaxCrashes /\ job \in [Workers -> Job]
      /\ lost' \in [Balances -> Int]
  BY <1>1 DEF IInv, Orderly
<1> DEFINE q == [pc |-> pc, id |-> id, copy |-> copy, fields |-> fields, held |-> 0]
<1>3. q \in Job /\ q.pc = pc /\ q.id = id /\ q.copy = copy /\ q.fields = fields
  BY DEF Job
<1>4. job' = [job EXCEPT ![w] = q]
  BY <1>1 DEF Proceed
<1> HIDE DEF q
<1>5. job'[w] = q
  BY <1>2, <1>4
<1>6. copy # NoRequest
  BY LeaveAssumption
<1>7. Held(w)'
  BY <1>1, <1>3, <1>5 DEF Held
<1>8. QED
  BY <1>1, <1>2, <1>3, <1>4, <1>6, <1>7, QuietStep

\* A request that was made is a leave request.
LEMMA MadeIsTyped ==
    ASSUME Orderly, NEW id \in Ids, Made(id)
    PROVE requests[id] \in LeaveRequest /\ requests[id].end >= requests[id].start
BY DEF Orderly, Made

\* An edit is judged by the row with the new values in place.
LEMMA BeginEditStep ==
    ASSUME IInv, NEW w \in Workers, NEW id \in Ids, NEW data \in Patch,
           NEW fields \in SUBSET Fields, BeginEdit(w, id, data, fields)
    PROVE IInv'
<1>1. PICK copy : copy = Edited(requests[id], data, fields)
  OBVIOUS
<1>2. requests[id] \in LeaveRequest
  BY MadeIsTyped DEF BeginEdit, IInv
<1>3. /\ copy \in LeaveRequest /\ copy.status = requests[id].status
      /\ Edited(requests[id], copy, fields) = copy
  BY <1>1, <1>2, EditedTyped
<1>4. copy.status = "PENDING" /\ copy.end >= copy.start
  BY <1>1, <1>3 DEF BeginEdit, Pending, OrderedDates
<1>5. Begin(w, "edit.save", id, copy, fields)
  BY <1>1 DEF BeginEdit
<1>6. QED
  BY <1>2, <1>3, <1>4, <1>5, BeginStep

\* Only a pending request is approved or rejected, and one that is pending or
\* approved cancelled.
LEMMA BeginDecisionStep ==
    ASSUME IInv, NEW w \in Workers, NEW id \in Ids,
           BeginApprove(w, id) \/ BeginReject(w, id) \/ BeginCancel(w, id)
    PROVE IInv'
<1>1. PICK r : r = requests[id]
  OBVIOUS
<1>2. Made(id)
  BY DEF BeginApprove, BeginReject, BeginCancel
<1>3. r \in LeaveRequest /\ {} \in SUBSET Fields
  BY <1>1, <1>2, MadeIsTyped DEF IInv
<1>4. CASE BeginApprove(w, id)
  <2>1. Begin(w, "approve.read", id, r, {}) /\ r.status = "PENDING"
    BY <1>1, <1>4 DEF BeginApprove, Pending
  <2>2. QED
    BY <1>1, <1>3, <2>1, BeginStep
<1>5. CASE BeginReject(w, id)
  <2>1. Begin(w, "reject.status", id, r, {}) /\ r.status = "PENDING"
    BY <1>1, <1>5 DEF BeginReject, Pending
  <2>2. QED
    BY <1>1, <1>3, <2>1, BeginStep
<1>6. CASE BeginCancel(w, id)
  <2>1. PICK pc \in {"cancel.read", "cancel.status"} :
          /\ Begin(w, pc, id, r, {}) /\ r.status \in {"PENDING", "APPROVED"}
          /\ pc = IF WasApproved(r) THEN "cancel.read" ELSE "cancel.status"
    BY <1>1, <1>6 DEF BeginCancel
  <2>2. pc = "cancel.read" => r.status = "APPROVED"
    BY <2>1 DEF WasApproved
  <2>3. QED
    BY <1>1, <1>3, <2>1, <2>2, BeginStep
<1>7. QED
  BY <1>4, <1>5, <1>6

\* A worker that saves the row it works on and ends.
LEMMA SaveRowStep ==
    ASSUME IInv, OneJobEach, NEW w \in Workers, NEW r \in LeaveRequest, r.end >= r.start,
           job[w].pc # "idle", requests' = [requests EXCEPT ![job[w].id] = r],
           Answer(w), UNCHANGED <<used, crashes, lost>>
    PROVE IInv'
<1>1. PICK id \in Ids : id = job[w].id
  BY DEF IInv, Orderly
<1>2. /\ requests' \in [Ids -> LeaveRequest \cup {NoRequest}]
      /\ \A i \in Ids : requests'[i] # NoRequest => requests'[i].end >= requests'[i].start
      /\ \A i \in Ids : i # id => requests'[i] = requests[i]
  BY <1>1, RowStep DEF IInv
<1>3. Idle \in Job /\ Idle.pc = "idle"
  BY IdleTyped
<1>4. /\ job' \in [Workers -> Job]
      /\ \A v \in Workers : job'[v].pc # "idle" => job'[v].id \in Ids /\ job'[v].copy # NoRequest
      /\ job'[w] = Idle /\ \A v \in Workers : v # w => job'[v] = job[v]
  BY <1>3, JobStep DEF IInv, Answer
<1>5. Orderly'
  BY <1>2, <1>4 DEF IInv, Orderly
<1>6. ASSUME NEW v \in Workers PROVE Held(v)'
  <2>1. CASE v = w
    BY <1>3, <1>4, <2>1, IdleHeld
  <2>2. CASE v # w
    <3>1. job[v].pc # "idle" => job[v].id \in Ids /\ job[v].id # id
      BY <1>1, <2>2 DEF OneJobEach, IInv, Orderly
    <3>2. Held(v) /\ job'[v] = job[v]
      BY <1>4, <2>2 DEF IInv
    <3>3. QED
      BY <1>2, <3>1, <3>2, StillHeld
  <2>3. QED
    BY <2>1, <2>2
<1>7. QED
  BY <1>5, <1>6 DEF IInv

\* The row that an edit saves.
LEMMA SaveEditStep ==
    ASSUME IInv, OneJobEach, NEW w \in Workers, SaveEdit(w)
    PROVE IInv' /\ requests[job[w].id].status = "PENDING"
<1>1. PICK r : r = Edited(requests[job[w].id], job[w].copy, job[w].fields)
  OBVIOUS
<1>2. /\ job[w].pc = "edit.save" /\ job[w].id \in Ids /\ job[w].fields \in SUBSET Fields
      /\ job[w].copy \in LeaveRequest /\ requests \in [Ids -> LeaveRequest \cup {NoRequest}]
  BY DEF SaveEdit, IInv, Orderly, Job
<1>3. /\ requests[job[w].id] \in LeaveRequest /\ r.end >= r.start
      /\ requests[job[w].id].status = "PENDING"
  BY <1>1, <1>2 DEF IInv, Held
<1>4. r \in LeaveRequest
  BY <1>1, <1>2, <1>3, EditedTyped
<1>5. requests' = [requests EXCEPT ![job[w].id] = r]
  BY <1>1, <1>2 DEF SaveEdit
<1>6. Answer(w) /\ UNCHANGED <<used, crashes, lost>>
  BY DEF SaveEdit
<1>7. QED
  BY <1>2, <1>3, <1>4, <1>5, <1>6, SaveRowStep

\* What a decision makes of the request.
LEMMA SaveStatusRow ==
    ASSUME IInv, NEW w \in Workers, SaveStatus(w)
    PROVE \E id \in Ids, copy \in LeaveRequest, r \in LeaveRequest :
            /\ id = job[w].id /\ copy = job[w].copy /\ requests[id] = copy
            /\ requests' = [requests EXCEPT ![id] = r]
            /\ r.emp = copy.emp /\ r.type = copy.type
            /\ r.start = copy.start /\ r.end = copy.end /\ r.end >= r.start
            /\ \/ job[w].pc = "approve.status" /\ copy.status = "PENDING" /\ r.status = "APPROVED"
               \/ job[w].pc = "reject.status" /\ copy.status = "PENDING" /\ r.status = "REJECTED"
               \/ /\ job[w].pc = "cancel.status" /\ copy.status \in {"PENDING", "APPROVED"}
                  /\ r.status = "CANCELLED"
<1>1. PICK id \in Ids : id = job[w].id
  BY DEF SaveStatus, IInv, Orderly
<1>2. PICK copy : copy = job[w].copy
  OBVIOUS
<1>3. /\ job[w].pc \in {"approve.status", "reject.status", "cancel.status"}
      /\ requests[id] = copy /\ copy \in LeaveRequest /\ copy.end >= copy.start
      /\ job[w].pc \in {"approve.status", "reject.status"} => copy.status = "PENDING"
      /\ job[w].pc = "cancel.status" => copy.status \in {"PENDING", "APPROVED"}
  <2>1. job[w].pc \in {"approve.status", "reject.status", "cancel.status"}
    BY DEF SaveStatus
  <2>2. Held(w) /\ Orderly
    BY DEF IInv
  <2>3. /\ requests[id] = copy /\ copy \in LeaveRequest
        /\ job[w].pc \in {"approve.status", "reject.status"} => copy.status = "PENDING"
        /\ job[w].pc = "cancel.status" => copy.status \in {"PENDING", "APPROVED"}
    BY <1>1, <1>2, <2>1, <2>2 DEF Held
  <2>4. copy.end >= copy.start
    BY <2>2, <2>3, LeaveAssumption DEF Orderly
  <2>5. QED
    BY <2>1, <2>3, <2>4
<1>4. PICK decided : decided = IF job[w].pc = "approve.status" THEN "APPROVED"
                               ELSE IF job[w].pc = "reject.status" THEN "REJECTED" ELSE "CANCELLED"
  OBVIOUS
<1>5. decided \in Status
  BY <1>4 DEF Status
<1>6. PICK r : r = [copy EXCEPT !.status = decided]
  OBVIOUS
<1>7. /\ r \in LeaveRequest /\ r.emp = copy.emp /\ r.type = copy.type
      /\ r.start = copy.start /\ r.end = copy.end /\ r.status = decided
  BY <1>3, <1>5, <1>6 DEF LeaveRequest
<1>8. requests' = [requests EXCEPT ![id] = r]
  <2>1. requests' = [requests EXCEPT ![id].status = decided]
    BY <1>1, <1>4 DEF SaveStatus
  <2>2. QED
    BY <1>3, <1>6, <2>1
<1>9. QED
  BY <1>1, <1>2, <1>3, <1>4, <1>7, <1>8

\* A decision saves that row and ends.
LEMMA SaveStatusStep ==
    ASSUME IInv, OneJobEach, NEW w \in Workers, SaveStatus(w) PROVE IInv'
<1>1. PICK r \in LeaveRequest : r.end >= r.start /\ requests' = [requests EXCEPT ![job[w].id] = r]
  BY SaveStatusRow
<1>2. job[w].pc # "idle" /\ Answer(w) /\ UNCHANGED <<used, crashes, lost>>
  BY DEF SaveStatus
<1>3. QED
  BY <1>1, <1>2, SaveRowStep

\* What a worker goes on with between its reads and saves of the balance.
LEMMA GoOnStep ==
    ASSUME IInv, NEW w \in Workers, NEW pc, NEW held \in Int,
           \/ job[w].pc = "approve.read" /\ pc = "approve.balance"
           \/ job[w].pc = "approve.balance" /\ pc = "approve.status"
           \/ job[w].pc = "cancel.read" /\ pc = "cancel.balance"
           \/ job[w].pc = "cancel.balance" /\ pc = "cancel.status",
           Proceed(w, pc, job[w].id, job[w].copy, {}, held),
           requests' = requests, crashes' = crashes, lost' = lost, used' \in [Balances -> Int]
    PROVE IInv'
<1> DEFINE q == [pc |-> pc, id |-> job[w].id, copy |-> job[w].copy, fields |-> {},
                 held |-> held]
<1>1. Held(w) /\ job \in [Workers -> Job] /\ job[w].id \in Ids /\ job[w].copy # NoRequest
      /\ crashes \in 0 .. MaxCrashes /\ lost \in [Balances -> Int]
  BY DEF IInv, Orderly
<1>2. /\ q \in Job /\ q.pc = pc /\ q.id = job[w].id /\ q.copy = job[w].copy
  BY <1>1 DEF Job
<1>3. job' = [job EXCEPT ![w] = q]
  BY DEF Proceed
<1> HIDE DEF q
<1>4. job'[w] = q
  BY <1>1, <1>3
<1>5. Held(w)'
  BY <1>1, <1>2, <1>4 DEF Held
<1>6. QED
  BY <1>1, <1>2, <1>3, <1>5, QuietStep

\* The balance is read.
LEMMA ReadBalanceStep ==
    ASSUME IInv, NEW w \in Workers, ReadBalance(w) PROVE IInv'
<1>1. job[w].copy \in LeaveRequest /\ used \in [Balances -> Int]
  BY LeaveAssumption DEF IInv, Orderly, Job, ReadBalance
<1>2. BalanceOf(job[w].copy) \in Balances
  BY <1>1 DEF BalanceOf, Balances, LeaveRequest
<1>3. used[BalanceOf(job[w].copy)] \in Int
  BY <1>1, <1>2
<1>4. PICK pc : pc = IF job[w].pc = "approve.read" THEN "approve.balance" ELSE "cancel.balance"
  OBVIOUS
<1>5. /\ Proceed(w, pc, job[w].id, job[w].copy, {}, used[BalanceOf(job[w].copy)])
      /\ UNCHANGED <<requests, used, crashes, lost>> /\ job[w].pc \in {"approve.read", "cancel.read"}
  BY <1>4 DEF ReadBalance
<1>6. QED
  BY <1>1, <1>3, <1>4, <1>5, GoOnStep

\* The copy a decision goes by belongs to a balance, and takes a few days.
LEMMA CopyTyped ==
    ASSUME IInv, NEW w \in Workers, Deciding(w)
    PROVE /\ job[w].copy \in LeaveRequest /\ requests[job[w].id] = job[w].copy
          /\ job[w].id \in Ids
          /\ BalanceOf(job[w].copy) \in Balances
          /\ DaysRequested(job[w].copy) \in 1 .. LastDay + 1
<1>1. Orderly /\ Held(w)
  BY DEF IInv
<1>2. job[w].id \in Ids /\ job[w].copy # NoRequest /\ requests[job[w].id] = job[w].copy
      /\ requests[job[w].id] \in LeaveRequest
  BY <1>1 DEF Orderly, Held, Deciding
<1>3. job[w].copy \in LeaveRequest /\ job[w].copy.end >= job[w].copy.start
  BY <1>1, <1>2 DEF Orderly
<1>4. BalanceOf(job[w].copy) \in Balances
  BY <1>3 DEF BalanceOf, Balances, LeaveRequest
<1>5. DaysRequested(job[w].copy) \in 1 .. LastDay + 1
  BY <1>3, LeaveAssumption DEF DaysRequested, LeaveRequest, Days
<1>6. QED
  BY <1>2, <1>3, <1>4, <1>5

\* The balance is saved: the number that was read, and the days of the copy.
LEMMA SaveBalanceFacts ==
    ASSUME IInv, NEW w \in Workers, SaveBalance(w)
    PROVE \E pc \in {"approve.status", "cancel.status"}, change \in Int :
            /\ \/ job[w].pc = "approve.balance" /\ pc = "approve.status"
                  /\ change = DaysRequested(job[w].copy)
               \/ job[w].pc = "cancel.balance" /\ pc = "cancel.status"
                  /\ change = -DaysRequested(job[w].copy)
            /\ used' = [used EXCEPT ![BalanceOf(job[w].copy)] = job[w].held + change]
            /\ Proceed(w, pc, job[w].id, job[w].copy, {}, 0)
            /\ used' \in [Balances -> Int] /\ UNCHANGED <<requests, crashes, lost>>
<1>1. Deciding(w) /\ job[w].pc \in {"approve.balance", "cancel.balance"}
  BY DEF SaveBalance, Deciding
<1>2. DaysRequested(job[w].copy) \in Int /\ BalanceOf(job[w].copy) \in Balances
  BY <1>1, CopyTyped, LeaveAssumption
<1>3. job[w].held \in Int /\ used \in [Balances -> Int]
  BY DEF IInv, Orderly, Job
<1>4. CASE job[w].pc = "approve.balance"
  <2>1. PICK change \in Int : change = DaysRequested(job[w].copy)
    BY <1>2
  <2>2. /\ used' = [used EXCEPT ![BalanceOf(job[w].copy)] = job[w].held + change]
        /\ Proceed(w, "approve.status", job[w].id, job[w].copy, {}, 0)
        /\ UNCHANGED <<requests, crashes, lost>>
    BY <1>4, <2>1 DEF SaveBalance
  <2>3. used' \in [Balances -> Int]
    <3>1. job[w].held + change \in Int
      BY <1>3
    <3>2. QED
      BY <1>3, <2>2, <3>1
  <2>4. QED
    BY <1>4, <2>1, <2>2, <2>3
<1>5. CASE job[w].pc = "cancel.balance"
  <2>1. PICK change \in Int : change = -DaysRequested(job[w].copy)
    BY <1>2
  <2>2. /\ used' = [used EXCEPT ![BalanceOf(job[w].copy)] = job[w].held + change]
        /\ Proceed(w, "cancel.status", job[w].id, job[w].copy, {}, 0)
        /\ UNCHANGED <<requests, crashes, lost>>
    BY <1>5, <2>1 DEF SaveBalance
  <2>3. used' \in [Balances -> Int]
    <3>1. job[w].held + change \in Int
      BY <1>3
    <3>2. QED
      BY <1>3, <2>2, <3>1
  <2>4. QED
    BY <1>5, <2>1, <2>2, <2>3
<1>6. QED
  BY <1>1, <1>4, <1>5

\* A saved balance.
LEMMA SaveBalanceStep ==
    ASSUME IInv, NEW w \in Workers, SaveBalance(w) PROVE IInv'
<1>1. PICK pc \in {"approve.status", "cancel.status"}, change \in Int :
        /\ \/ job[w].pc = "approve.balance" /\ pc = "approve.status"
           \/ job[w].pc = "cancel.balance" /\ pc = "cancel.status"
        /\ Proceed(w, pc, job[w].id, job[w].copy, {}, 0)
        /\ used' \in [Balances -> Int] /\ UNCHANGED <<requests, crashes, lost>>
  BY SaveBalanceFacts
<1>2. QED
  BY <1>1, GoOnStep

\* What a worker has added to a balance is at most the days of one request.
LEMMA ChangeTyped ==
    ASSUME IInv, NEW w \in Workers, NEW b, Midway(w, b)
    PROVE /\ Deciding(w) /\ BalanceOf(job[w].copy) = b
          /\ Change(w) \in -(LastDay + 1) .. LastDay + 1
<1>1. Deciding(w) /\ BalanceOf(job[w].copy) = b
  BY DEF Midway, Deciding
<1>2. DaysRequested(job[w].copy) \in 1 .. LastDay + 1
  BY <1>1, CopyTyped
<1>3. QED
  BY <1>1, <1>2, LeaveAssumption DEF Change

\* A worker dies and is free again.
LEMMA CrashStep ==
    ASSUME IInv, NEW w \in Workers, Crash(w) PROVE IInv'
<1>1. crashes' \in 0 .. MaxCrashes
  BY LeaveAssumption DEF Crash, IInv, Orderly
<1>2. Answer(w) /\ UNCHANGED <<requests, used>>
  BY DEF Crash
<1>3. ASSUME NEW b \in Balances, Midway(w, b) PROVE Change(w) \in Int
  BY <1>3, ChangeTyped, LeaveAssumption
<1>4. lost' \in [Balances -> Int]
  BY <1>3 DEF Crash, IInv, Orderly
<1>5. QED
  BY <1>1, <1>2, <1>4, AnswerStep

\* Every step keeps the invariant, as long as no two workers work on one request.
LEMMA NextPreserves == OneJobEach /\ IInv /\ [Step]_tables => IInv'
<1> SUFFICES ASSUME OneJobEach, IInv, [Step]_tables PROVE IInv'
  OBVIOUS
<1>1. ASSUME UNCHANGED tables PROVE IInv'
  BY <1>1 DEF tables, IInv, Orderly, Held
<1>2. (\E w \in Workers, id \in Ids, data \in Patch, fields \in SUBSET Fields :
          BeginEdit(w, id, data, fields)) => IInv'
  BY BeginEditStep
<1>3. (\E w \in Workers, id \in Ids :
          BeginApprove(w, id) \/ BeginReject(w, id) \/ BeginCancel(w, id)) => IInv'
  BY BeginDecisionStep
<1>4. (\E e \in Employees, t \in Types, start, end \in Days : Submit(e, t, start, end)) => IInv'
  BY SubmitStep
<1>5. (\E w \in Workers : Handle(w) \/ Crash(w)) => IInv'
  BY SaveEditStep, ReadBalanceStep, SaveBalanceStep, SaveStatusStep, CrashStep DEF Handle
<1>6. QED
  BY <1>1, <1>2, <1>3, <1>4, <1>5 DEF Step

-----------------------------------------------------------------------------
(* Decisions about one balance. *)

\* What a balance has more than its approved requests and what died workers left.
Drift(b) == used[b] - ApprovedDays(b) - lost[b]

\* That is what the one decision under way has put into it.
Balanced(b) ==
    /\ (\A w \in Workers : ~Midway(w, b)) => Drift(b) = 0
    /\ \A w \in Workers : Midway(w, b) => Drift(b) = Change(w)

\* A number that was read is still the balance.
Read(w) ==
    job[w].pc \in {"approve.balance", "cancel.balance"}
        => job[w].held = used[BalanceOf(job[w].copy)]

FewMade == IsFiniteSet({id \in Ids : Made(id)})

BInv ==
    /\ IInv /\ FewMade
    /\ \A w \in Workers : Read(w)
    /\ \A b \in Balances : Balanced(b)

\* The requests of a table that count for balance b.
Counted(table, b) ==
    {id \in Ids : table[id] # NoRequest /\ table[id].status = "APPROVED" /\ BalanceOf(table[id]) = b}

\* The approved requests of a balance are finitely many, and have whole days.
LEMMA CountedTyped ==
    ASSUME NEW table \in [Ids -> LeaveRequest \cup {NoRequest}],
           IsFiniteSet({id \in Ids : table[id] # NoRequest}), NEW b
    PROVE /\ IsFiniteSet(Counted(table, b))
          /\ [id \in Counted(table, b) |-> DaysRequested(table[id])] \in [Counted(table, b) -> Int]
          /\ SumFunction([id \in Counted(table, b) |-> DaysRequested(table[id])]) \in Int
<1>1. IsFiniteSet(Counted(table, b))
  BY FS_Subset DEF Counted
<1>2. \A id \in Counted(table, b) : table[id] \in LeaveRequest
  BY DEF Counted
<1>3. \A id \in Counted(table, b) : DaysRequested(table[id]) \in Int
  BY <1>2, LeaveAssumption DEF DaysRequested, LeaveRequest, Days
<1>4. PICK f : f = [id \in Counted(table, b) |-> DaysRequested(table[id])]
  OBVIOUS
<1>5. f \in [Counted(table, b) -> Int]
  BY <1>3, <1>4
<1>6. SumFunctionOnSet(f, Counted(table, b)) \in Int
  BY <1>1, <1>5, SumTakeOut
<1>7. DOMAIN f = Counted(table, b)
  BY <1>4
<1>8. QED
  BY <1>1, <1>4, <1>5, <1>6, <1>7 DEF SumFunction

\* Of the table as it is.
LEMMA ApprovedTyped ==
    ASSUME Orderly, FewMade, NEW b
    PROVE /\ IsFiniteSet(ApprovedOf(b))
          /\ [id \in ApprovedOf(b) |-> DaysRequested(requests[id])] \in [ApprovedOf(b) -> Int]
          /\ ApprovedDays(b) \in Int
<1>1. ApprovedOf(b) = Counted(requests, b)
  BY DEF ApprovedOf, Counted, Made
<1>2. QED
  BY <1>1, CountedTyped DEF ApprovedDays, Orderly, FewMade, Made

\* Of the table as it is after a step.
LEMMA ApprovedTypedNext ==
    ASSUME Orderly', FewMade', NEW b
    PROVE /\ IsFiniteSet(ApprovedOf(b)')
          /\ [id \in ApprovedOf(b) |-> DaysRequested(requests[id])]' \in [ApprovedOf(b)' -> Int]
          /\ ApprovedDays(b)' \in Int
<1>1. ApprovedOf(b)' = Counted(requests', b)
  BY DEF ApprovedOf, Counted, Made
<1>2. QED
  BY <1>1, CountedTyped DEF ApprovedDays, Orderly, FewMade, Made

\* The sum stays while the same requests are approved, for the same days.
LEMMA SameApproved ==
    ASSUME NEW b, ApprovedOf(b)' = ApprovedOf(b),
           \A id \in ApprovedOf(b) : DaysRequested(requests[id])' = DaysRequested(requests[id])
    PROVE ApprovedDays(b)' = ApprovedDays(b)
<1>1. [id \in ApprovedOf(b) |-> DaysRequested(requests[id])]'
      = [id \in ApprovedOf(b) |-> DaysRequested(requests[id])]
  OBVIOUS
<1>2. QED
  BY <1>1 DEF ApprovedDays

\* An approval adds the days of the request to the sum.
LEMMA OneMoreApproved ==
    ASSUME Orderly, Orderly', FewMade, FewMade', NEW b, NEW id \in Ids, id \notin ApprovedOf(b),
           ApprovedOf(b)' = ApprovedOf(b) \cup {id},
           \A i \in ApprovedOf(b) : requests'[i] = requests[i]
    PROVE ApprovedDays(b)' = ApprovedDays(b) + DaysRequested(requests[id])'
<1>1. PICK S : S = ApprovedOf(b)
  OBVIOUS
<1>2. PICK g : g = [i \in ApprovedOf(b) |-> DaysRequested(requests[i])]
  OBVIOUS
<1>3. PICK f : f = [i \in ApprovedOf(b) |-> DaysRequested(requests[i])]'
  OBVIOUS
<1>4. IsFiniteSet(S) /\ g \in [S -> Int]
  BY <1>1, <1>2, ApprovedTyped
<1>5. f \in [S \cup {id} -> Int]
  BY <1>1, <1>3, ApprovedTypedNext
<1>6. \A i \in S : g[i] = f[i]
  BY <1>1, <1>2, <1>3 DEF DaysRequested
<1>7. SumFunction(f) = f[id] + SumFunction(g) /\ SumFunction(g) \in Int
  BY <1>1, <1>4, <1>5, <1>6, SumOneMore
<1>8. f[id] = DaysRequested(requests[id])'
  BY <1>3
<1>9. f[id] \in Int
  BY <1>5
<1>10. ApprovedDays(b) = SumFunction(g) /\ ApprovedDays(b)' = SumFunction(f)
  BY <1>2, <1>3 DEF ApprovedDays
<1>11. QED
  BY <1>7, <1>8, <1>9, <1>10

\* A cancellation takes them out again.
LEMMA OneLessApproved ==
    ASSUME Orderly, Orderly', FewMade, FewMade', NEW b, NEW id \in Ids, id \in ApprovedOf(b),
           ApprovedOf(b)' = ApprovedOf(b) \ {id},
           \A i \in ApprovedOf(b)' : requests'[i] = requests[i]
    PROVE ApprovedDays(b)' = ApprovedDays(b) - DaysRequested(requests[id])
<1>1. PICK S : S = ApprovedOf(b)'
  OBVIOUS
<1>2. PICK f : f = [i \in ApprovedOf(b) |-> DaysRequested(requests[i])]
  OBVIOUS
<1>3. PICK g : g = [i \in ApprovedOf(b) |-> DaysRequested(requests[i])]'
  OBVIOUS
<1>4. S \cup {id} = ApprovedOf(b) /\ id \notin S
  BY <1>1
<1>5. f \in [S \cup {id} -> Int]
  BY <1>2, <1>4, ApprovedTyped
<1>6. IsFiniteSet(S) /\ g \in [S -> Int]
  BY <1>1, <1>3, ApprovedTypedNext
<1>7. \A i \in S : g[i] = f[i]
  BY <1>1, <1>2, <1>3, <1>4 DEF DaysRequested
<1>8. SumFunction(f) = f[id] + SumFunction(g) /\ SumFunction(g) \in Int
  BY <1>4, <1>5, <1>6, <1>7, SumOneMore
<1>9. f[id] = DaysRequested(requests[id]) /\ f[id] \in Int
  BY <1>2, <1>4, <1>5
<1>10. ApprovedDays(b) = SumFunction(f) /\ ApprovedDays(b)' = SumFunction(g)
  BY <1>2, <1>3 DEF ApprovedDays
<1>11. QED
  BY <1>8, <1>9, <1>10

\* Nothing happens to a sum while the table stays as it is.
LEMMA SameTable ==
    ASSUME requests' = requests, NEW b PROVE ApprovedDays(b)' = ApprovedDays(b)
<1>1. ApprovedOf(b)' = ApprovedOf(b)
  BY DEF ApprovedOf, Made
<1>2. \A id \in ApprovedOf(b) : DaysRequested(requests[id])' = DaysRequested(requests[id])
  BY DEF DaysRequested
<1>3. QED
  BY <1>1, <1>2, SameApproved

\* At most one request more is in the table after a step.
LEMMA FewMadeStep ==
    ASSUME FewMade, NEW id \in Ids, \A i \in Ids : i # id => requests'[i] = requests[i]
    PROVE FewMade'
<1> DEFINE M == {i \in Ids : Made(i)}
<1>1. IsFiniteSet(M \cup {id})
  BY FS_AddElement DEF FewMade
<1>2. {i \in Ids : Made(i)'} \subseteq M \cup {id}
  BY DEF Made
<1>3. QED
  BY <1>1, <1>2, FS_Subset DEF FewMade

\* A row that counts for no balance, before or after it changes, changes no sum.
LEMMA UncountedRow ==
    ASSUME Orderly, NEW id \in Ids, NEW r \in LeaveRequest, r.status # "APPROVED",
           requests[id] # NoRequest => requests[id].status # "APPROVED",
           requests' = [requests EXCEPT ![id] = r], NEW b
    PROVE ApprovedDays(b)' = ApprovedDays(b)
<1>1. requests'[id] = r /\ \A i \in Ids : i # id => requests'[i] = requests[i]
  BY DEF Orderly
<1>2. ApprovedOf(b)' = ApprovedOf(b)
  BY <1>1 DEF ApprovedOf, Made
<1>3. \A i \in ApprovedOf(b) : DaysRequested(requests[i])' = DaysRequested(requests[i])
  BY <1>1 DEF ApprovedOf, Made, DaysRequested
<1>4. QED
  BY <1>2, <1>3, SameApproved

\* A decision about a row changes the sum of that row's balance alone, by its days.
LEMMA DecidedRow ==
    ASSUME Orderly, Orderly', FewMade, FewMade',
           NEW id \in Ids, NEW copy \in LeaveRequest, NEW r \in LeaveRequest,
           requests[id] = copy, requests' = [requests EXCEPT ![id] = r],
           r.emp = copy.emp, r.type = copy.type, r.start = copy.start, r.end = copy.end, NEW b
    PROVE /\ BalanceOf(copy) # b => ApprovedDays(b)' = ApprovedDays(b)
          /\ BalanceOf(copy) = b /\ copy.status # "APPROVED" /\ r.status = "APPROVED"
               => ApprovedDays(b)' = ApprovedDays(b) + DaysRequested(copy)
          /\ BalanceOf(copy) = b /\ copy.status = "APPROVED" /\ r.status # "APPROVED"
               => ApprovedDays(b)' = ApprovedDays(b) - DaysRequested(copy)
<1>1. requests'[id] = r /\ \A i \in Ids : i # id => requests'[i] = requests[i]
  BY DEF Orderly
<1>2. BalanceOf(r) = BalanceOf(copy) /\ DaysRequested(r) = DaysRequested(copy)
  BY DEF BalanceOf, DaysRequested
<1>3. copy # NoRequest /\ r # NoRequest
  BY LeaveAssumption
<1>4. ASSUME BalanceOf(copy) # b PROVE ApprovedDays(b)' = ApprovedDays(b)
  <2>1. ApprovedOf(b)' = ApprovedOf(b)
    BY <1>1, <1>2, <1>4 DEF ApprovedOf, Made
  <2>2. \A i \in ApprovedOf(b) : i # id
    BY <1>4 DEF ApprovedOf
  <2>3. \A i \in ApprovedOf(b) : DaysRequested(requests[i])' = DaysRequested(requests[i])
    BY <1>1, <2>2 DEF ApprovedOf, DaysRequested
  <2>4. QED
    BY <2>1, <2>3, SameApproved
<1>5. ASSUME BalanceOf(copy) = b, copy.status # "APPROVED", r.status = "APPROVED"
      PROVE ApprovedDays(b)' = ApprovedDays(b) + DaysRequested(copy)
  <2>1. id \notin ApprovedOf(b)
    BY <1>5 DEF ApprovedOf
  <2>2. ApprovedOf(b)' = ApprovedOf(b) \cup {id}
    BY <1>1, <1>2, <1>3, <1>5 DEF ApprovedOf, Made
  <2>3. \A i \in ApprovedOf(b) : requests'[i] = requests[i]
    BY <1>1, <2>1 DEF ApprovedOf
  <2>4. DaysRequested(requests[id])' = DaysRequested(copy)
    BY <1>1, <1>2 DEF DaysRequested
  <2>5. QED
    BY <2>1, <2>2, <2>3, <2>4, OneMoreApproved
<1>6. ASSUME BalanceOf(copy) = b, copy.status = "APPROVED", r.status # "APPROVED"
      PROVE ApprovedDays(b)' = ApprovedDays(b) - DaysRequested(copy)
  <2>1. id \in ApprovedOf(b)
    BY <1>3, <1>6 DEF ApprovedOf, Made
  <2>2. ApprovedOf(b)' = ApprovedOf(b) \ {id}
    BY <1>1, <1>2, <1>3, <1>6 DEF ApprovedOf, Made
  <2>3. \A i \in ApprovedOf(b)' : requests'[i] = requests[i]
    BY <1>1, <2>2 DEF ApprovedOf
  <2>4. QED
    BY <2>1, <2>2, <2>3, OneLessApproved
<1>7. QED
  BY <1>4, <1>5, <1>6

\* What a worker has under way in a balance.
Under(w, b) == IF Midway(w, b) THEN Change(w) ELSE 0

\* A step of a worker keeps a balance right if it adds to it what it then has under
\* way more than before, and only deciding about the balance changes that.
LEMMA BalancedStep ==
    ASSUME OneDecisionEach, NEW w \in Workers, NEW b, Balanced(b),
           \A v \in Workers : v # w => job'[v] = job[v],
           Drift(b) = Under(w, b) => Drift(b)' = Under(w, b)',
           \/ Deciding(w) /\ BalanceOf(job[w].copy) = b
           \/ Drift(b)' = Drift(b) /\ ~Midway(w, b)'
    PROVE Balanced(b)'
<1>1. \A v \in Workers : v # w => (Midway(v, b)' <=> Midway(v, b)) /\ Change(v)' = Change(v)
  BY DEF Midway, Change
<1>2. CASE \E v \in Workers : v # w /\ Midway(v, b)
  <2>1. PICK v \in Workers : v # w /\ Midway(v, b)
    BY <1>2
  <2>2. Deciding(v) /\ BalanceOf(job[v].copy) = b
    BY <2>1 DEF Midway, Deciding
  <2>3. Drift(b)' = Drift(b) /\ ~Midway(w, b)'
    BY <2>1, <2>2 DEF OneDecisionEach
  <2>4. ASSUME NEW u \in Workers, Midway(u, b)' PROVE Drift(b)' = Change(u)'
    <3>1. u # w /\ Midway(u, b) /\ Change(u)' = Change(u)
      BY <1>1, <2>3, <2>4
    <3>2. Drift(b) = Change(u)
      BY <3>1 DEF Balanced
    <3>3. QED
      BY <2>3, <3>1, <3>2
  <2>5. Midway(v, b)'
    BY <1>1, <2>1
  <2>6. QED
    BY <2>4, <2>5 DEF Balanced
<1>3. CASE \A v \in Workers : v # w => ~Midway(v, b)
  <2>1. Drift(b) = Under(w, b)
    BY <1>3 DEF Balanced, Under
  <2>2. Drift(b)' = Under(w, b)'
    BY <2>1
  <2>3. \A v \in Workers : v # w => ~Midway(v, b)'
    BY <1>1, <1>3
  <2>4. CASE Midway(w, b)'
    BY <2>2, <2>3, <2>4 DEF Balanced, Under
  <2>5. CASE ~Midway(w, b)'
    BY <2>2, <2>3, <2>5 DEF Balanced, Under
  <2>6. QED
    BY <2>4, <2>5
<1>4. QED
  BY <1>2, <1>3

\* Balances and sums are whole numbers.
LEMMA DriftTyped ==
    ASSUME IInv, IInv', FewMade, FewMade', NEW b \in Balances
    PROVE /\ used[b] \in Int /\ used'[b] \in Int /\ lost[b] \in Int /\ lost'[b] \in Int
          /\ ApprovedDays(b) \in Int /\ ApprovedDays(b)' \in Int
          /\ Drift(b) \in Int /\ Drift(b)' \in Int
<1>1. used[b] \in Int /\ used'[b] \in Int /\ lost[b] \in Int /\ lost'[b] \in Int
  BY DEF IInv, Orderly
<1>2. ApprovedDays(b) \in Int /\ ApprovedDays(b)' \in Int
  BY ApprovedTyped, ApprovedTypedNext DEF IInv
<1>3. QED
  BY <1>1, <1>2 DEF Drift

\* A step that leaves the balances, the sums and what is under way alone.
LEMMA StillBalanced ==
    ASSUME OneDecisionEach, NEW w \in Workers, NEW b \in Balances, Balanced(b),
           \A v \in Workers : v # w => job'[v] = job[v],
           used' = used, lost' = lost, ApprovedDays(b)' = ApprovedDays(b),
           ~Midway(w, b), ~Midway(w, b)'
    PROVE Balanced(b)'
<1>1. Drift(b)' = Drift(b) /\ Under(w, b) = 0 /\ Under(w, b)' = 0
  BY DEF Drift, Under
<1>2. QED
  BY <1>1, BalancedStep

\* A number that was read is still right after another worker's step, unless that
\* worker saved the balance.
LEMMA StillRead ==
    ASSUME NEW v \in Workers, Read(v), job'[v] = job[v],
           Deciding(v) => used'[BalanceOf(job[v].copy)] = used[BalanceOf(job[v].copy)]
    PROVE Read(v)'
BY DEF Read, Deciding

\* Nothing of a worker is under way before it has saved a balance.
LEMMA NothingUnder ==
    ASSUME NEW w \in Workers, NEW b,
           job[w].pc \in {"idle", "edit.save", "reject.status", "approve.read", "cancel.read",
                          "approve.balance", "cancel.balance"}
             \/ (job[w].pc = "cancel.status" /\ job[w].copy.status # "APPROVED")
    PROVE ~Midway(w, b)
BY DEF Midway

\* The same after a step.
LEMMA NothingUnderNext ==
    ASSUME NEW w \in Workers, NEW b,
           job'[w].pc \in {"idle", "edit.save", "reject.status", "approve.read", "cancel.read",
                           "approve.balance", "cancel.balance"}
             \/ (job'[w].pc = "cancel.status" /\ job'[w].copy.status # "APPROVED")
    PROVE ~Midway(w, b)'
BY DEF Midway

\* A step of one worker that saves no balance, and with which it holds none, keeps
\* every number that was read.
LEMMA NoBalanceSaved ==
    ASSUME NEW w \in Workers, \A v \in Workers : Read(v), used' = used,
           \A v \in Workers : v # w => job'[v] = job[v],
           job'[w].pc \notin {"approve.balance", "cancel.balance"}
    PROVE \A v \in Workers : Read(v)'
<1>1. ASSUME NEW v \in Workers, v # w PROVE Read(v)'
  BY <1>1, StillRead
<1>2. Read(w)'
  BY DEF Read
<1>3. QED
  BY <1>1, <1>2

\* A request that is submitted is pending.
LEMMA SubmitBalanced ==
    ASSUME BInv, IInv', NEW e \in Employees, NEW t \in Types, NEW start \in Days, NEW end \in Days,
           Submit(e, t, start, end)
    PROVE BInv'
<1> DEFINE r == [emp |-> e, type |-> t, start |-> start, end |-> end, status |-> "PENDING"]
<1>1. PICK id \in Ids : ~Made(id) /\ requests' = [requests EXCEPT ![id] = r]
  BY DEF Submit
<1>2. r \in LeaveRequest /\ r.status = "PENDING" /\ UNCHANGED <<used, job, crashes, lost>>
  BY DEF Submit, LeaveRequest, Status
<1> HIDE DEF r
<1>3. Orderly /\ FewMade /\ \A i \in Ids : i # id => requests'[i] = requests[i]
  BY <1>1 DEF BInv, IInv, Orderly
<1>4. FewMade'
  BY <1>3, FewMadeStep
<1>5. \A w \in Workers : Read(w)'
  BY <1>2 DEF BInv, Read
<1>6. ASSUME NEW b \in Balances PROVE Balanced(b)'
  <2>1. requests[id] = NoRequest
    BY <1>1 DEF Made
  <2>2. ApprovedDays(b)' = ApprovedDays(b)
    BY <1>1, <1>2, <1>3, <2>1, UncountedRow
  <2>3. \A w \in Workers : (Midway(w, b)' <=> Midway(w, b)) /\ Change(w)' = Change(w)
    BY <1>2 DEF Midway, Change
  <2>4. Drift(b)' = Drift(b)
    BY <1>2, <2>2 DEF Drift
  <2>5. Balanced(b)
    BY DEF BInv
  <2>6. QED
    BY <1>2, <2>3, <2>4, <2>5 DEF Balanced
<1>7. QED
  BY <1>4, <1>5, <1>6 DEF BInv

\* What a worker is doing after it has looked at a request.
LEMMA BeginFacts ==
    ASSUME IInv, NEW w \in Workers, NEW id \in Ids, NEW pc, NEW copy, NEW fields,
           Begin(w, pc, id, copy, fields)
    PROVE /\ job[w].pc = "idle" /\ UNCHANGED <<requests, used, crashes, lost>>
          /\ \A v \in Workers : v # w => job'[v] = job[v]
          /\ job'[w].pc = pc /\ job'[w].copy = copy
BY DEF IInv, Orderly, Proceed, Begin

\* A decision or an edit that begins changes no balance and no sum.
LEMMA BeginBalanced ==
    ASSUME BInv, IInv', OneDecisionEach, NEW w \in Workers, NEW id \in Ids,
           NEW pc, NEW copy, NEW fields, Begin(w, pc, id, copy, fields),
           \/ pc \in {"edit.save", "reject.status", "approve.read", "cancel.read"}
           \/ pc = "cancel.status" /\ copy.status # "APPROVED"
    PROVE BInv'
<1>1. /\ job[w].pc = "idle" /\ UNCHANGED <<requests, used, crashes, lost>>
      /\ \A v \in Workers : v # w => job'[v] = job[v]
      /\ job'[w].pc = pc /\ job'[w].copy = copy
  BY BeginFacts DEF BInv
<1>2. FewMade'
  BY <1>1 DEF BInv, FewMade, Made
<1>3. \A v \in Workers : Read(v)'
  BY <1>1, NoBalanceSaved DEF BInv
<1>4. ASSUME NEW b \in Balances PROVE Balanced(b)'
  <2>1. ~Midway(w, b) /\ ~Midway(w, b)'
    BY <1>1, NothingUnder, NothingUnderNext
  <2>2. ApprovedDays(b)' = ApprovedDays(b)
    BY <1>1, SameTable
  <2>3. QED
    BY <1>1, <1>2, <2>1, <2>2, StillBalanced DEF BInv
<1>5. QED
  BY <1>2, <1>3, <1>4 DEF BInv

\* Everything that begins: a cancellation that will not touch the balance is of a
\* request that was not approved.
LEMMA BeginsBalanced ==
    ASSUME BInv, IInv', OneDecisionEach, NEW w \in Workers, NEW id \in Ids,
           \/ \E data \in Patch, fields \in SUBSET Fields : BeginEdit(w, id, data, fields)
           \/ BeginApprove(w, id) \/ BeginReject(w, id) \/ BeginCancel(w, id)
    PROVE BInv'
<1>1. ASSUME NEW data \in Patch, NEW fields \in SUBSET Fields, BeginEdit(w, id, data, fields)
      PROVE BInv'
  <2>1. PICK copy : Begin(w, "edit.save", id, copy, fields)
    BY <1>1 DEF BeginEdit
  <2>2. QED
    BY <2>1, BeginBalanced
<1>2. ASSUME BeginApprove(w, id) \/ BeginReject(w, id) PROVE BInv'
  <2>1. PICK pc, copy : /\ Begin(w, pc, id, copy, {})
                        /\ pc \in {"approve.read", "reject.status"}
    BY <1>2 DEF BeginApprove, BeginReject
  <2>2. QED
    BY <2>1, BeginBalanced
<1>3. ASSUME BeginCancel(w, id) PROVE BInv'
  <2>1. PICK r : r = requests[id]
    OBVIOUS
  <2>2. PICK pc : /\ Begin(w, pc, id, r, {})
                  /\ pc = IF WasApproved(r) THEN "cancel.read" ELSE "cancel.status"
    BY <1>3, <2>1 DEF BeginCancel
  <2>3. pc = "cancel.read" \/ (pc = "cancel.status" /\ r.status # "APPROVED")
    BY <2>2 DEF WasApproved
  <2>4. QED
    BY <2>2, <2>3, BeginBalanced
<1>4. QED
  BY <1>1, <1>2, <1>3

\* A step that leaves the table as it is, of a worker that goes on.
LEMMA GoOnFacts ==
    ASSUME IInv, NEW w \in Workers, NEW pc, NEW id, NEW copy, NEW held,
           Proceed(w, pc, id, copy, {}, held)
    PROVE /\ job'[w].pc = pc /\ job'[w].copy = copy /\ job'[w].held = held
          /\ \A v \in Workers : v # w => job'[v] = job[v]
BY DEF IInv, Orderly, Proceed

\* A worker that answers is idle.
LEMMA AnswerFacts ==
    ASSUME IInv, NEW w \in Workers, Answer(w)
    PROVE job'[w].pc = "idle" /\ \A v \in Workers : v # w => job'[v] = job[v]
BY DEF IInv, Orderly, Answer, Idle

\* An edit is of a pending request, which no balance counts.
LEMMA SaveEditBalanced ==
    ASSUME BInv, IInv', OneJobEach, OneDecisionEach, NEW w \in Workers, SaveEdit(w)
    PROVE BInv'
<1>0. IInv /\ Orderly /\ FewMade
  BY DEF BInv, IInv
<1>1. PICK id \in Ids : id = job[w].id
  BY <1>0 DEF SaveEdit, IInv, Orderly
<1>2. /\ job[w].pc = "edit.save" /\ job[w].fields \in SUBSET Fields /\ job[w].copy \in LeaveRequest
  BY <1>0 DEF SaveEdit, Orderly, Job
<1>3. requests[id] \in LeaveRequest /\ requests[id].status = "PENDING"
  BY <1>0, <1>1, <1>2 DEF IInv, Held
<1>4. PICK r : r = Edited(requests[id], job[w].copy, job[w].fields)
  OBVIOUS
<1>5. r \in LeaveRequest /\ r.status = "PENDING"
  BY <1>2, <1>3, <1>4, EditedTyped
<1>6. requests' = [requests EXCEPT ![id] = r] /\ Answer(w) /\ UNCHANGED <<used, crashes, lost>>
  BY <1>1, <1>4 DEF SaveEdit
<1>7. job'[w].pc = "idle" /\ \A v \in Workers : v # w => job'[v] = job[v]
  BY <1>0, <1>6, AnswerFacts
<1>8. FewMade'
  BY <1>0, <1>6, FewMadeStep DEF Orderly
<1>9. \A v \in Workers : Read(v)'
  BY <1>6, <1>7, NoBalanceSaved DEF BInv
<1>10. ASSUME NEW b \in Balances PROVE Balanced(b)'
  <2>1. ~Midway(w, b) /\ ~Midway(w, b)'
    BY <1>2, <1>7, NothingUnder, NothingUnderNext
  <2>2. ApprovedDays(b)' = ApprovedDays(b)
    BY <1>0, <1>3, <1>5, <1>6, UncountedRow
  <2>3. QED
    BY <1>0, <1>6, <1>7, <1>8, <2>1, <2>2, StillBalanced DEF BInv
<1>11. QED
  BY <1>8, <1>9, <1>10 DEF BInv

\* The number that is read is the balance.
LEMMA ReadBalanceBalanced ==
    ASSUME BInv, IInv', OneDecisionEach, NEW w \in Workers, ReadBalance(w)
    PROVE BInv'
<1>0. IInv /\ FewMade
  BY DEF BInv
<1>1. PICK pc : /\ Proceed(w, pc, job[w].id, job[w].copy, {}, used[BalanceOf(job[w].copy)])
                /\ pc \in {"approve.balance", "cancel.balance"}
  BY DEF ReadBalance
<1>2. job[w].pc \in {"approve.read", "cancel.read"} /\ UNCHANGED <<requests, used, crashes, lost>>
  BY DEF ReadBalance
<1>3. /\ job'[w].pc = pc /\ job'[w].copy = job[w].copy
      /\ job'[w].held = used[BalanceOf(job[w].copy)]
      /\ \A v \in Workers : v # w => job'[v] = job[v]
  BY <1>0, <1>1, GoOnFacts
<1>4. FewMade'
  BY <1>0, <1>2 DEF FewMade, Made
<1>5. ASSUME NEW v \in Workers PROVE Read(v)'
  <2>1. CASE v = w
    BY <1>2, <1>3, <2>1 DEF Read
  <2>2. CASE v # w
    <3>1. Read(v) /\ job'[v] = job[v]
      BY <1>3, <2>2 DEF BInv
    <3>2. QED
      BY <1>2, <3>1, StillRead
  <2>3. QED
    BY <2>1, <2>2
<1>6. ASSUME NEW b \in Balances PROVE Balanced(b)'
  <2>1. ~Midway(w, b) /\ ~Midway(w, b)'
    BY <1>1, <1>2, <1>3, NothingUnder, NothingUnderNext
  <2>2. ApprovedDays(b)' = ApprovedDays(b)
    BY <1>2, SameTable
  <2>3. QED
    BY <1>0, <1>2, <1>3, <1>4, <2>1, <2>2, StillBalanced DEF BInv
<1>7. QED
  BY <1>4, <1>5, <1>6 DEF BInv

\* What is saved is under way from then on.
LEMMA SaveBalanceBalanced ==
    ASSUME BInv, IInv', OneDecisionEach, NEW w \in Workers, SaveBalance(w)
    PROVE BInv'
<1>0. IInv /\ FewMade /\ Held(w)
  BY DEF BInv, IInv
<1>1. PICK pc \in {"approve.status", "cancel.status"}, change \in Int :
        /\ \/ job[w].pc = "approve.balance" /\ pc = "approve.status"
              /\ change = DaysRequested(job[w].copy)
           \/ job[w].pc = "cancel.balance" /\ pc = "cancel.status"
              /\ change = -DaysRequested(job[w].copy)
        /\ used' = [used EXCEPT ![BalanceOf(job[w].copy)] = job[w].held + change]
        /\ Proceed(w, pc, job[w].id, job[w].copy, {}, 0)
        /\ UNCHANGED <<requests, crashes, lost>>
  BY <1>0, SaveBalanceFacts
<1>2. PICK c : c = BalanceOf(job[w].copy)
  OBVIOUS
<1>3. Deciding(w)
  BY <1>1 DEF Deciding
<1>4. c \in Balances /\ job[w].held = used[c] /\ used \in [Balances -> Int]
  BY <1>0, <1>1, <1>2, <1>3, CopyTyped DEF BInv, Read, IInv, Orderly
<1>5. used'[c] = used[c] + change /\ \A b \in Balances : b # c => used'[b] = used[b]
  BY <1>1, <1>2, <1>4
<1>6. /\ job'[w].pc = pc /\ job'[w].copy = job[w].copy
      /\ \A v \in Workers : v # w => job'[v] = job[v]
  BY <1>0, <1>1, GoOnFacts
<1>7. FewMade'
  BY <1>0, <1>1 DEF FewMade, Made
<1>8. ASSUME NEW v \in Workers PROVE Read(v)'
  <2>1. CASE v = w
    BY <1>6, <2>1 DEF Read
  <2>2. CASE v # w
    <3>1. Read(v) /\ job'[v] = job[v]
      BY <1>6, <2>2 DEF BInv
    <3>2. ASSUME Deciding(v) PROVE used'[BalanceOf(job[v].copy)] = used[BalanceOf(job[v].copy)]
      <4>1. BalanceOf(job[v].copy) # c
        BY <1>2, <1>3, <2>2, <3>2 DEF OneDecisionEach
      <4>2. BalanceOf(job[v].copy) \in Balances
        BY <1>0, <3>2, CopyTyped
      <4>3. QED
        BY <1>5, <4>1, <4>2
    <3>3. QED
      BY <3>1, <3>2, StillRead
  <2>3. QED
    BY <2>1, <2>2
<1>9. ASSUME NEW b \in Balances PROVE Balanced(b)'
  <2>1. ~Midway(w, b)
    BY <1>1, NothingUnder
  <2>2. ApprovedDays(b)' = ApprovedDays(b)
    BY <1>1, SameTable
  <2>3. CASE b # c
    <3>1. ~Midway(w, b)'
      BY <1>2, <1>6, <2>3 DEF Midway, BalanceOf
    <3>2. Drift(b)' = Drift(b) /\ Under(w, b) = 0 /\ Under(w, b)' = 0
      BY <1>1, <1>5, <2>1, <2>2, <2>3, <3>1 DEF Drift, Under
    <3>3. QED
      BY <1>6, <3>1, <3>2, BalancedStep DEF BInv
  <2>4. CASE b = c
    <3>1. job[w].pc = "cancel.balance" => job[w].copy.status = "APPROVED"
      BY <1>0 DEF Held
    <3>2. Midway(w, b)' /\ Change(w)' = change
      <4>1. BalanceOf(job'[w].copy) = b
        BY <1>2, <1>6, <2>4
      <4>2. DaysRequested(job'[w].copy) = DaysRequested(job[w].copy)
        BY <1>6
      <4>3. QED
        BY <1>1, <1>6, <3>1, <4>1, <4>2 DEF Midway, Change, BalanceOf, DaysRequested
    <3>3. Under(w, b) = 0 /\ Under(w, b)' = change
      BY <2>1, <3>2 DEF Under
    <3>4. used[b] \in Int /\ ApprovedDays(b) \in Int /\ lost[b] \in Int
      BY <1>0, <1>7, DriftTyped
    <3>5. Drift(b)' = Drift(b) + change
      BY <1>1, <1>5, <2>2, <2>4, <3>4 DEF Drift
    <3>6. Drift(b) = Under(w, b) => Drift(b)' = Under(w, b)'
      BY <3>3, <3>5
    <3>7. QED
      BY <1>2, <1>3, <1>6, <2>4, <3>6, BalancedStep DEF BInv
  <2>5. QED
    BY <2>3, <2>4
<1>10. QED
  BY <1>7, <1>8, <1>9 DEF BInv

\* What was under way is counted with the status that is saved.
LEMMA SaveStatusBalanced ==
    ASSUME BInv, IInv', OneJobEach, OneDecisionEach, NEW w \in Workers, SaveStatus(w)
    PROVE BInv'
<1>0. IInv /\ Orderly /\ Orderly' /\ FewMade
  BY DEF BInv, IInv
<1>1. PICK id \in Ids, copy \in LeaveRequest, r \in LeaveRequest :
        /\ id = job[w].id /\ copy = job[w].copy /\ requests[id] = copy
        /\ requests' = [requests EXCEPT ![id] = r]
        /\ r.emp = copy.emp /\ r.type = copy.type
        /\ r.start = copy.start /\ r.end = copy.end /\ r.end >= r.start
        /\ \/ job[w].pc = "approve.status" /\ copy.status = "PENDING" /\ r.status = "APPROVED"
           \/ job[w].pc = "reject.status" /\ copy.status = "PENDING" /\ r.status = "REJECTED"
           \/ /\ job[w].pc = "cancel.status" /\ copy.status \in {"PENDING", "APPROVED"}
              /\ r.status = "CANCELLED"
  BY <1>0, SaveStatusRow
<1>2. Answer(w) /\ UNCHANGED <<used, crashes, lost>>
  BY DEF SaveStatus
<1>3. job'[w].pc = "idle" /\ \A v \in Workers : v # w => job'[v] = job[v]
  BY <1>0, <1>2, AnswerFacts
<1>4. FewMade'
  BY <1>0, <1>1, FewMadeStep DEF Orderly
<1>5. \A v \in Workers : Read(v)'
  BY <1>2, <1>3, NoBalanceSaved DEF BInv
<1>6. ASSUME NEW b \in Balances PROVE Balanced(b)'
  <2>1. ~Midway(w, b)'
    BY <1>3, NothingUnderNext
  <2>2. /\ BalanceOf(copy) # b => ApprovedDays(b)' = ApprovedDays(b)
        /\ BalanceOf(copy) = b /\ copy.status # "APPROVED" /\ r.status = "APPROVED"
             => ApprovedDays(b)' = ApprovedDays(b) + DaysRequested(copy)
        /\ BalanceOf(copy) = b /\ copy.status = "APPROVED" /\ r.status # "APPROVED"
             => ApprovedDays(b)' = ApprovedDays(b) - DaysRequested(copy)
    BY <1>0, <1>1, <1>4, DecidedRow
  <2>3. CASE ~Midway(w, b)
    <3>1. ApprovedDays(b)' = ApprovedDays(b)
      <4>1. CASE BalanceOf(copy) # b
        BY <2>2, <4>1
      <4>2. CASE BalanceOf(copy) = b
        <5>1. copy.status # "APPROVED" /\ r.status # "APPROVED"
          BY <1>1, <2>3, <4>2 DEF Midway
        <5>2. QED
          BY <1>0, <1>1, <5>1, UncountedRow
      <4>3. QED
        BY <4>1, <4>2
    <3>2. QED
      BY <1>0, <1>2, <1>3, <1>4, <2>1, <2>3, <3>1, StillBalanced DEF BInv
  <2>4. CASE Midway(w, b)
    <3>1. /\ BalanceOf(copy) = b /\ Deciding(w) /\ BalanceOf(job[w].copy) = b
          /\ \/ job[w].pc = "approve.status" /\ copy.status # "APPROVED" /\ r.status = "APPROVED"
             \/ job[w].pc = "cancel.status" /\ copy.status = "APPROVED" /\ r.status # "APPROVED"
      BY <1>1, <2>4 DEF Midway, Deciding
    <3>2. Under(w, b)' = 0
      BY <2>1 DEF Under
    <3>3. Under(w, b) = IF job[w].pc = "approve.status" THEN DaysRequested(copy)
                        ELSE -DaysRequested(copy)
      BY <1>1, <2>4 DEF Under, Change
    <3>4. DaysRequested(copy) \in Int
      BY <1>0, <1>1, <3>1, CopyTyped, LeaveAssumption
    <3>5. used[b] \in Int /\ ApprovedDays(b) \in Int /\ lost[b] \in Int
      BY <1>0, <1>4, DriftTyped DEF BInv
    <3>6. ApprovedDays(b)' = ApprovedDays(b) + Under(w, b) /\ Under(w, b) \in Int
      BY <2>2, <3>1, <3>3, <3>4, <3>5
    <3>7. Drift(b)' = Drift(b) - Under(w, b)
      BY <1>2, <3>5, <3>6 DEF Drift
    <3>8. Drift(b) = Under(w, b) => Drift(b)' = Under(w, b)'
      BY <3>2, <3>6, <3>7
    <3>9. QED
      BY <1>3, <3>1, <3>8, BalancedStep DEF BInv
  <2>5. QED
    BY <2>3, <2>4
<1>7. QED
  BY <1>4, <1>5, <1>6 DEF BInv

\* A worker that dies leaves what it had under way for good.
LEMMA CrashBalanced ==
    ASSUME BInv, IInv', OneDecisionEach, NEW w \in Workers, Crash(w) PROVE BInv'
<1>0. IInv /\ FewMade
  BY DEF BInv
<1>1. Answer(w) /\ UNCHANGED <<requests, used>>
  BY DEF Crash
<1>2. job'[w].pc = "idle" /\ \A v \in Workers : v # w => job'[v] = job[v]
  BY <1>0, <1>1, AnswerFacts
<1>3. FewMade'
  BY <1>0, <1>1 DEF FewMade, Made
<1>4. \A v \in Workers : Read(v)'
  BY <1>1, <1>2, NoBalanceSaved DEF BInv
<1>5. ASSUME NEW b \in Balances PROVE Balanced(b)'
  <2>1. ~Midway(w, b)' /\ ApprovedDays(b)' = ApprovedDays(b)
    BY <1>1, <1>2, NothingUnderNext, SameTable
  <2>2. Under(w, b)' = 0
    BY <2>1 DEF Under
  <2>3. lost'[b] = lost[b] + Under(w, b)
    BY DEF Crash, Under
  <2>4. Under(w, b) \in Int
    BY <1>0, ChangeTyped, LeaveAssumption DEF Under
  <2>5. used[b] \in Int /\ ApprovedDays(b) \in Int /\ lost[b] \in Int
    BY <1>0, <1>3, DriftTyped
  <2>6. Drift(b)' = Drift(b) - Under(w, b)
    BY <1>1, <2>1, <2>3, <2>4, <2>5 DEF Drift
  <2>7. Drift(b) = Under(w, b) => Drift(b)' = Under(w, b)'
    BY <2>2, <2>4, <2>6
  <2>8. CASE Midway(w, b)
    <3>1. Deciding(w) /\ BalanceOf(job[w].copy) = b
      BY <2>8 DEF Midway, Deciding
    <3>2. QED
      BY <1>2, <2>7, <3>1, BalancedStep DEF BInv
  <2>9. CASE ~Midway(w, b)
    <3>1. Drift(b)' = Drift(b)
      BY <1>1, <2>1, <2>3, <2>5, <2>9 DEF Drift, Under
    <3>2. QED
      BY <1>2, <2>1, <2>7, <3>1, BalancedStep DEF BInv
  <2>10. QED
    BY <2>8, <2>9
<1>6. QED
  BY <1>3, <1>4, <1>5 DEF BInv

\* No leave is approved at the beginning, and no day used.
LEMMA InitBalanced == Init => BInv
<1> SUFFICES ASSUME Init PROVE BInv
  OBVIOUS
<1>1. IInv /\ Orderly
  BY InitEstablishes DEF IInv
<1>2. /\ requests = [id \in Ids |-> NoRequest] /\ used = [b \in Balances |-> 0]
      /\ lost = [b \in Balances |-> 0]
  BY DEF Init
<1>3. \A w \in Workers : job[w].pc = "idle"
  BY IdleTyped DEF Init
<1>4. {id \in Ids : Made(id)} = {}
  BY <1>2 DEF Made
<1>5. FewMade
  BY <1>4, FS_EmptySet DEF FewMade
<1>6. \A w \in Workers : Read(w)
  BY <1>3 DEF Read
<1>7. ASSUME NEW b \in Balances PROVE Balanced(b)
  <2>1. ApprovedOf(b) = {}
    BY <1>4 DEF ApprovedOf
  <2>2. ApprovedDays(b) = 0
    <3>1. PICK f : f = [id \in ApprovedOf(b) |-> DaysRequested(requests[id])]
      OBVIOUS
    <3>2. PICK S : S = ApprovedOf(b)
      OBVIOUS
    <3>3. f \in [S -> Int] /\ IsFiniteSet(S) /\ DOMAIN f = S /\ S = {}
      BY <1>1, <1>5, <2>1, <3>1, <3>2, ApprovedTyped
    <3>4. SumFunctionOnSet(f, S) = 0
      BY <3>3, SumRec
    <3>5. QED
      BY <3>1, <3>3, <3>4 DEF ApprovedDays, SumFunction
  <2>3. Drift(b) = 0
    BY <1>2, <2>2 DEF Drift
  <2>4. \A w \in Workers : ~Midway(w, b)
    BY <1>3, NothingUnder
  <2>5. QED
    BY <2>3, <2>4 DEF Balanced
<1>8. QED
  BY <1>1, <1>5, <1>6, <1>7 DEF BInv

\* Every step keeps the balances accounted for, as long as no two operations on one
\* request and no two decisions about one balance overlap.
LEMMA NextBalanced == OneJobEach /\ OneDecisionEach /\ BInv /\ [Step]_tables => BInv'
<1> SUFFICES ASSUME OneJobEach, OneDecisionEach, BInv, [Step]_tables PROVE BInv'
  OBVIOUS
<1>1. IInv'
  BY NextPreserves DEF BInv
<1>2. ASSUME UNCHANGED tables PROVE BInv'
  <2>1. FewMade'
    BY <1>2 DEF tables, BInv, FewMade, Made
  <2>2. \A w \in Workers : Read(w)'
    BY <1>2 DEF tables, BInv, Read
  <2>3. ASSUME NEW b \in Balances PROVE Balanced(b)'
    <3>1. Drift(b)' = Drift(b)
      BY <1>2, SameTable DEF tables, Drift
    <3>2. \A w \in Workers : (Midway(w, b)' <=> Midway(w, b)) /\ Change(w)' = Change(w)
      BY <1>2 DEF tables, Midway, Change
    <3>3. Balanced(b) 
      BY <1>2 DEF tables, BInv
    <3>4. QED
      BY <3>1, <3>2, <3>3 DEF Balanced
  <2>4. QED
    BY <1>1, <2>1, <2>2, <2>3 DEF BInv
<1>3. (\E w \in Workers, id \in Ids, data \in Patch, fields \in SUBSET Fields :
          BeginEdit(w, id, data, fields)) => BInv'
  BY <1>1, BeginsBalanced
<1>4. (\E w \in Workers, id \in Ids :
          BeginApprove(w, id) \/ BeginReject(w, id) \/ BeginCancel(w, id)) => BInv'
  BY <1>1, BeginsBalanced
<1>5. (\E e \in Employees, t \in Types, start, end \in Days : Submit(e, t, start, end)) => BInv'
  BY <1>1, SubmitBalanced
<1>6. (\E w \in Workers : Handle(w) \/ Crash(w)) => BInv'
  BY <1>1, SaveEditBalanced, ReadBalanceBalanced, SaveBalanceBalanced, SaveStatusBalanced,
     CrashBalanced DEF Handle
<1>7. QED
  BY <1>2, <1>3, <1>4, <1>5, <1>6 DEF Step

-----------------------------------------------------------------------------
(* The histories. *)

\* While no operations have met, none meet, and every balance is accounted for.
SInv == JInv /\ serial \in BOOLEAN /\ (serial => OneJobEach /\ OneDecisionEach /\ BInv)

\* At first there is nobody to meet.
LEMMA InitSerial == Init => SInv
<1> SUFFICES ASSUME Init PROVE SInv
  OBVIOUS
<1>1. \A w \in Workers : job[w].pc = "idle"
  BY IdleTyped DEF Init
<1>2. OneJobEach /\ OneDecisionEach
  BY <1>1 DEF OneJobEach, OneDecisionEach, Deciding
<1>3. QED
  BY <1>2, InitJudged, InitBalanced DEF SInv, Init

\* Operations that meet are remembered, and until then every step keeps the balances.
LEMMA NextSerial == SInv /\ [Next]_vars => SInv'
<1> SUFFICES ASSUME SInv, [Next]_vars PROVE SInv'
  OBVIOUS
<1>1. JInv'
  BY StepJudged DEF SInv
<1>2. [Step]_tables
  BY DEF Next, vars, tables
<1>3. CASE UNCHANGED vars
  <2>1. serial' = serial /\ UNCHANGED tables
    BY <1>3 DEF vars, tables
  <2>2. serial => OneJobEach' /\ OneDecisionEach'
    BY <1>3 DEF SInv, vars, OneJobEach, OneDecisionEach, Deciding
  <2>3. serial => BInv'
    BY <1>2, NextBalanced DEF SInv
  <2>4. QED
    BY <1>1, <2>1, <2>2, <2>3 DEF SInv
<1>4. CASE Next
  <2>1. serial' = (serial /\ OneJobEach' /\ OneDecisionEach')
    BY <1>4 DEF Next
  <2>2. serial => BInv'
    BY <1>2, NextBalanced DEF SInv
  <2>3. serial' \in BOOLEAN /\ (serial' => OneJobEach' /\ OneDecisionEach' /\ BInv')
    BY <2>1, <2>2 DEF SInv
  <2>4. QED
    BY <1>1, <2>3 DEF SInv
<1>5. QED
  BY <1>3, <1>4

\* The invariant of the specification.
THEOREM Invariance == Spec => []SInv
BY InitSerial, NextSerial, PTL DEF Spec

\* Variables keep their types however operations overlap, and the dates of a request
\* their order until operations have met.
THEOREM TypeCorrect == Spec => []TypeOK
<1>1. SInv => TypeOK
  <2>1. JInv => \A w \in Workers : job[w].pc # "idle" =>
                    job[w].id \in Ids /\ Made(job[w].id) /\ job[w].copy # NoRequest
    BY LeaveAssumption DEF JInv, Judged
  <2>2. BInv => \A id \in Ids : Made(id) => requests[id].end >= requests[id].start
    BY DEF BInv, IInv, Orderly, Made
  <2>3. QED
    BY <2>1, <2>2 DEF SInv, JInv, TypeOK
<1>2. QED
  BY <1>1, Invariance, PTL

\* services.py:4-7: while no two operations have met on one request or balance, each
\* balance sums its approved requests, and is off by exactly what died workers left.
THEOREM UsedIsApprovedHolds == Spec => []UsedIsApproved
<1>1. SInv => UsedIsApproved
  <2> SUFFICES ASSUME BInv, Quiet, NEW b \in Balances PROVE used[b] = ApprovedDays(b) + lost[b]
    BY DEF UsedIsApproved, SInv
  <2>1. Drift(b) = 0
    BY NothingUnder DEF Quiet, BInv, Balanced
  <2>2. used[b] \in Int /\ ApprovedDays(b) \in Int /\ lost[b] \in Int
    BY ApprovedTyped DEF BInv, IInv, Orderly
  <2>3. QED
    BY <2>1, <2>2 DEF Drift
<1>2. QED
  BY <1>1, Invariance, PTL

=============================================================================
