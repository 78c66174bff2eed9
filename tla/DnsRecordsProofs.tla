-------------------------- MODULE DnsRecordsProofs ---------------------------
(* DNS records and domains, for any names, services, requests and rows.     *)
EXTENDS DnsRecords, TLAPS

Present(i) == row[i].state # "absent"

AllTargets == (Names \X Types) \cup (Services \X {"route"})

(* Rows are what AddCustomDomain and AddDnsRecord insert.                   *)
RowShape(i) ==
  /\ row[i].name \in Names
  /\ row[i].managed => row[i].type = "A" /\ row[i].service \in Services
  /\ row[i].service \in Services => row[i].managed

RowsOK == \A i \in Ids : Present(i) => RowShape(i)

(* A request works on a row that is, or was, in the table.                  *)
ReqShape(q) ==
  /\ AtWork(q) => req[q].id \in Ids /\ Present(req[q].id)
  /\ req[q].pc \in {"attach", "detach"} => row[req[q].id].managed
  /\ req[q].pc \in {"upsert", "deleteRrset"} => ~row[req[q].id].managed
  /\ req[q].pc \in {"insertDomain", "insertRecord"} => req[q].name \in Names
  /\ req[q].pc = "insertDomain" => req[q].type = "A" /\ req[q].service \in Services
  /\ req[q].pc = "insertRecord" => req[q].service = NoService

ReqsOK == \A q \in Requests : ReqShape(q)

ActivitiesOf == [attach |-> {"UpsertRecord", "EnsureRedirectMiddleware", "ApplySubdomainIngress"},
                 detach |-> {"DeleteIngress", "DeleteRecord"}]

WfShape(k, i) ==
  /\ Running(k, i) => Present(i) /\ row[i].managed /\ wf[k][i] \in ActivitiesOf[k]
  /\ <<k, i>> \in performed => Running(k, i)

WfsOK == \A k \in Kinds, i \in Ids : WfShape(k, i)

Shapes == TypeOK /\ RowsOK /\ ReqsOK /\ WfsOK

-----------------------------------------------------------------------------
(* Types.                                                                   *)

LEMMA RowTypes ==
  ASSUME TypeOK, NEW i \in Ids
  PROVE  /\ row[i] \in RowType /\ row[i].type \in Types /\ row[i].managed \in BOOLEAN
         /\ row[i].content \in Contents \cup {NoContent}
         /\ row[i].state \in {"absent", "live", "removed"}
         /\ row[i].name \in Names \cup {NoName}
         /\ row[i].service \in Services \cup {NoService}
  BY DEF TypeOK, RowType

LEMMA ReqTypes ==
  ASSUME TypeOK, NEW q \in Requests
  PROVE  /\ req[q] \in ReqType /\ req[q].pc \in Pcs /\ req[q].id \in Ids \cup {0}
         /\ req[q].name \in Names \cup {NoName} /\ req[q].type \in Types
         /\ req[q].content \in Contents \cup {NoContent}
         /\ req[q].service \in Services \cup {NoService}
         /\ Idle \in ReqType /\ Idle.pc = "idle"
  BY TypesOK DEF TypeOK, ReqType, Idle, Pcs

(* One request changes.                                                     *)
Only(q) == req' \in [Requests -> ReqType] /\ \A p \in Requests \ {q} : req'[p] = req[p]

LEMMA Becomes ==
  ASSUME TypeOK, NEW q \in Requests, NEW r \in ReqType, req' = [req EXCEPT ![q] = r]
  PROVE  Only(q) /\ req'[q] = r
  BY DEF TypeOK, Only

LEMMA GotoMoves ==
  ASSUME TypeOK, NEW q \in Requests, NEW pc \in Pcs, Goto(q, pc)
  PROVE  /\ Only(q) /\ req'[q].pc = pc /\ req'[q].id = req[q].id
<1> DEFINE r == [req[q] EXCEPT !.pc = pc]
<1>1. r \in ReqType /\ r.pc = pc /\ r.id = req[q].id
  BY ReqTypes DEF ReqType
<1>2. req' = [req EXCEPT ![q] = r]
  BY DEF Goto
<1> HIDE DEF r
<1> QED BY <1>1, <1>2, Becomes

LEMMA DoneMoves ==
  ASSUME TypeOK, NEW q \in Requests, Done(q)
  PROVE  Only(q) /\ req'[q] = Idle /\ req'[q].pc = "idle"
  BY ReqTypes, Becomes DEF Done

-----------------------------------------------------------------------------
(* Rows and workflows as time goes by.                                      *)

SameRow(i) ==
  /\ Present(i)' /\ row'[i].name = row[i].name /\ row'[i].type = row[i].type
  /\ row'[i].content = row[i].content /\ row'[i].managed = row[i].managed
  /\ row'[i].service = row[i].service

(* Rows may go, and keep what they say.                                     *)
KeptRows ==
  /\ row' \in [Ids -> RowType]
  /\ \A i \in Ids : (Present(i)' => Present(i)) /\ (Present(i) => SameRow(i))

LEMMA SameRowsKept == ASSUME TypeOK, UNCHANGED row PROVE KeptRows
  BY DEF KeptRows, SameRow, Present, TypeOK

LEMMA RowsOKKept == ASSUME RowsOK, KeptRows PROVE RowsOK'
  BY DEF RowsOK, RowShape, KeptRows, SameRow

LEMMA ReqsOKKept ==
  ASSUME ReqsOK, KeptRows, NEW q \in Requests, Only(q), ReqShape(q)'
  PROVE  ReqsOK'
<1> SUFFICES ASSUME NEW p \in Requests \ {q} PROVE ReqShape(p)'
  BY DEF ReqsOK
<1>1. req'[p] = req[p] /\ ReqShape(p)
  BY DEF Only, ReqsOK
<1>2. CASE AtWork(p)
  BY <1>1, <1>2 DEF ReqShape, AtWork, KeptRows, SameRow
<1>3. CASE ~AtWork(p)
  BY <1>1, <1>3 DEF ReqShape, AtWork
<1> QED BY <1>2, <1>3

LEMMA WfsOKKept == ASSUME WfsOK, KeptRows, UNCHANGED wfVars PROVE WfsOK'
  BY DEF WfsOK, WfShape, KeptRows, SameRow, wfVars, Running

(* A step of a request that inserts nothing.                                *)
LEMMA ShapesKept ==
  ASSUME Shapes, TypeOK', KeptRows, NEW q \in Requests, Only(q), ReqShape(q)', WfsOK'
  PROVE  Shapes'
<1>1. RowsOK'
  BY RowsOKKept DEF Shapes
<1>2. ReqsOK'
  BY ReqsOKKept DEF Shapes
<1> QED BY <1>1, <1>2 DEF Shapes

(* A step of no request.                                                    *)
LEMMA ShapesLeft ==
  ASSUME Shapes, TypeOK', KeptRows, UNCHANGED req, WfsOK'
  PROVE  Shapes'
<1>1. RowsOK'
  BY RowsOKKept DEF Shapes
<1>2. ReqsOK'
  <2> SUFFICES ASSUME NEW p \in Requests PROVE ReqShape(p)'
    BY DEF ReqsOK
  <2>1. ReqShape(p)
    BY DEF Shapes, ReqsOK
  <2>2. CASE AtWork(p)
    BY <2>1, <2>2 DEF ReqShape, AtWork, KeptRows, SameRow
  <2>3. CASE ~AtWork(p)
    BY <2>1, <2>3 DEF ReqShape, AtWork
  <2> QED BY <2>2, <2>3
<1> QED BY <1>1, <1>2 DEF Shapes

-----------------------------------------------------------------------------
(* Who is at work on a record set or a route, and what it holds.            *)

OnRow(i, t)   == Live(i) /\ t \in Targets(i)
Works(q, t)   == AtWork(q) /\ t \in Targets(req[q].id)
Runs(k, i, t) == Running(k, i) /\ t \in Targets(i)

Held(t)    == IF t[2] = "route" THEN ingress[t[1]] ELSE rrset[t[1]][t[2]]
Nothing(t) == IF t[2] = "route" THEN NoName ELSE NoContent
Want(i, t) == IF t[2] = "route" THEN row[i].name ELSE row[i].content

(* The workflow has done what it does to t.                                 *)
Written(k, i, t) ==
  IF k = "attach" <=> t[2] # "route"
    THEN wf[k][i] # First[k] \/ <<k, i>> \in performed
    ELSE wf[k][i] \in {"ApplySubdomainIngress", "DeleteRecord"} /\ <<k, i>> \in performed

WritersOK(t) ==
  /\ \A i, j \in Ids : OnRow(i, t) /\ OnRow(j, t) => i = j
  /\ \A p, q \in Requests : Works(p, t) /\ Works(q, t) => p = q
  /\ \A k, l \in Kinds, i, j \in Ids : Runs(k, i, t) /\ Runs(l, j, t) => k = l /\ i = j
  /\ \A q \in Requests, k \in Kinds, i \in Ids : Works(q, t) /\ Runs(k, i, t) =>
       req[q].pc = "deleteRow" /\ k = "detach" /\ req[q].id = i
  /\ \A q \in Requests : Works(q, t) => Live(req[q].id)
  /\ \A i \in Ids : Runs("attach", i, t) => Live(i)
  /\ \A i, j \in Ids : Runs("detach", i, t) /\ OnRow(j, t) => \E q \in Requests : Works(q, t)

Quiet(t) == ~\E k \in Kinds, i \in Ids : Runs(k, i, t)

(* What the workflow k leaves of row i, and what there is until then: an    *)
(* attach comes to a target that nobody has written to.                     *)
Good(k, i, t) == IF k = "attach" THEN Want(i, t) ELSE Nothing(t)

Right(k, i, t) ==
  IF Written(k, i, t) THEN Held(t) = Good(k, i, t) ELSE k = "attach" => Held(t) = Nothing(t)

(* A row that could not be written may have left nothing.                   *)
Shown(i, t) == Held(t) = Want(i, t) \/ (i \in undone /\ Held(t) = Nothing(t))

ContentOK(t) ==
  /\ \A i \in Ids : OnRow(i, t) /\ ~Busy(t) => Shown(i, t)
  /\ (\A i \in Ids : ~OnRow(i, t)) /\ ~Busy(t) => Held(t) = Nothing(t)
  /\ \A k \in Kinds, i \in Ids : Runs(k, i, t) => Right(k, i, t)
  /\ \A q \in Requests : Works(q, t) /\ req[q].pc \in {"attach", "upsert"} =>
       Held(t) = Nothing(t)
  /\ \A q \in Requests : Works(q, t) /\ req[q].pc = "deleteRow" /\ Quiet(t) =>
       Held(t) = Nothing(t)

(* Records count while the zone is served, routes while it has its row.     *)
Counts(t) == zoneServed \/ t[2] = "route"

OnTarget(t) == WritersOK(t) /\ (Counts(t) => ContentOK(t))

TargetsOK == zoneRow => \A t \in AllTargets \ contested : OnTarget(t)

IInv == Shapes /\ TargetsOK

LEMMA BusyIs ==
  ASSUME NEW t
  PROVE  Busy(t) <=> (\E q \in Requests : Works(q, t)) \/ ~Quiet(t)
  BY DEF Busy, Works, Quiet, Runs

(* Nothing happens to t.                                                    *)
Untouched(t) ==
  /\ \A i \in Ids : /\ OnRow(i, t)' <=> OnRow(i, t)
                    /\ OnRow(i, t) => Want(i, t)' = Want(i, t)
  /\ \A q \in Requests : /\ Works(q, t)' <=> Works(q, t)
                         /\ Works(q, t) => req'[q] = req[q]
  /\ \A k \in Kinds, i \in Ids :
       /\ Runs(k, i, t)' <=> Runs(k, i, t)
       /\ Runs(k, i, t) => /\ Want(i, t)' = Want(i, t) /\ (Live(i)' <=> Live(i))
                           /\ wf'[k][i] = wf[k][i]
                           /\ <<k, i>> \in performed' <=> <<k, i>> \in performed
  /\ \A q \in Requests : Works(q, t) => (Live(req[q].id)' <=> Live(req[q].id))
  /\ Counts(t)' => Held(t)' = Held(t)

LEMMA UntouchedKept ==
  ASSUME NEW t, OnTarget(t), Untouched(t), Counts(t)' => Counts(t), undone \subseteq undone'
  PROVE  OnTarget(t)'
<1>1. \A i \in Ids : OnRow(i, t)' <=> OnRow(i, t)
  BY DEF Untouched
<1>2. \A q \in Requests : Works(q, t)' <=> Works(q, t)
  BY DEF Untouched
<1>3. \A k \in Kinds, i \in Ids : Runs(k, i, t)' <=> Runs(k, i, t)
  BY DEF Untouched
<1>4. "attach" \in Kinds /\ "detach" \in Kinds
  BY DEF Kinds
<1>5. WritersOK(t)'
  <2>1. /\ \A i, j \in Ids : OnRow(i, t)' /\ OnRow(j, t)' => i = j
        /\ \A p, q \in Requests : Works(p, t)' /\ Works(q, t)' => p = q
        /\ \A k, l \in Kinds, i, j \in Ids : Runs(k, i, t)' /\ Runs(l, j, t)' => k = l /\ i = j
    BY <1>1, <1>2, <1>3 DEF OnTarget, WritersOK
  <2>2. \A q \in Requests, k \in Kinds, i \in Ids : Works(q, t)' /\ Runs(k, i, t)' =>
          req'[q].pc = "deleteRow" /\ k = "detach" /\ req'[q].id = i
    BY <1>2, <1>3 DEF OnTarget, WritersOK, Untouched
  <2>3. \A q \in Requests : Works(q, t)' => Live(req[q].id)'
    <3> SUFFICES ASSUME NEW q \in Requests, Works(q, t)' PROVE Live(req[q].id)'
      OBVIOUS
    <3>1. Works(q, t) /\ Live(req[q].id)
      BY <1>2 DEF OnTarget, WritersOK
    <3> QED BY <3>1 DEF Untouched
  <2>4. \A i \in Ids : Runs("attach", i, t)' => Live(i)'
    BY <1>3, <1>4 DEF OnTarget, WritersOK, Untouched
  <2>5. \A i, j \in Ids : Runs("detach", i, t)' /\ OnRow(j, t)' =>
          \E q \in Requests : Works(q, t)'
    BY <1>1, <1>2, <1>3, <1>4 DEF OnTarget, WritersOK
  <2> QED BY <2>1, <2>2, <2>3, <2>4, <2>5 DEF WritersOK
<1>6. ASSUME Counts(t)' PROVE ContentOK(t)'
  <2>0. ContentOK(t) /\ Held(t)' = Held(t) /\ Nothing(t)' = Nothing(t)
    BY <1>6 DEF OnTarget, Untouched, Nothing
  <2>1. (Quiet(t)' <=> Quiet(t)) /\ (Busy(t)' <=> Busy(t))
    <3>1. Quiet(t)' <=> Quiet(t)
      BY <1>3 DEF Quiet
    <3>2. Busy(t) <=> (\E q \in Requests : Works(q, t)) \/ ~Quiet(t)
      BY BusyIs
    <3>3. Busy(t)' <=> (\E q \in Requests : Works(q, t)') \/ ~Quiet(t)'
      BY DEF Busy, Works, Quiet, Runs
    <3> QED BY <1>2, <3>1, <3>2, <3>3
  <2>2. \A k \in Kinds, i \in Ids : Runs(k, i, t) => (Written(k, i, t)' <=> Written(k, i, t))
    BY DEF Untouched, Written
  <2>3. /\ \A i \in Ids : OnRow(i, t)' /\ ~Busy(t)' => Shown(i, t)'
        /\ (\A i \in Ids : ~OnRow(i, t)') /\ ~Busy(t)' => Held(t)' = Nothing(t)'
    <3>1. \A i \in Ids : OnRow(i, t) /\ Shown(i, t) => Shown(i, t)'
      BY <2>0 DEF Untouched, Shown
    <3> QED BY <1>1, <2>0, <2>1, <3>1 DEF ContentOK
  <2>4. ASSUME NEW k \in Kinds, NEW i \in Ids, Runs(k, i, t)' PROVE Right(k, i, t)'
    <3>1. Runs(k, i, t) /\ Right(k, i, t) /\ Want(i, t)' = Want(i, t)
      BY <1>3, <2>0, <2>4 DEF ContentOK, Untouched
    <3> QED BY <2>0, <2>2, <3>1 DEF Right, Good
  <2>5. \A q \in Requests : Works(q, t)' /\ req'[q].pc = "deleteRow" /\ Quiet(t)' =>
          Held(t)' = Nothing(t)'
    BY <1>2, <2>0, <2>1 DEF ContentOK, Untouched
  <2>6. \A q \in Requests : Works(q, t)' /\ req'[q].pc \in {"attach", "upsert"} =>
          Held(t)' = Nothing(t)'
    BY <1>2, <2>0 DEF ContentOK, Untouched
  <2> QED BY <2>3, <2>4, <2>5, <2>6 DEF ContentOK
<1> QED BY <1>5, <1>6 DEF OnTarget

LEMMA TargetsSame == ASSUME NEW i \in Ids, SameRow(i) PROVE Targets(i)' = Targets(i)
  BY DEF SameRow, Targets

LEMMA RouteIsNoType ==
  ASSUME TypeOK, NEW i \in Ids
  PROVE  \A t \in Targets(i) : t[2] # "route" =>
           t = <<row[i].name, row[i].type>>
  BY DEF Targets

(* What a step changes is of row i.                                         *)
Frame(i) ==
  /\ \A j \in Ids \ {i} : row'[j] = row[j]
  /\ \A k \in Kinds, j \in Ids \ {i} :
       wf'[k][j] = wf[k][j] /\ (<<k, j>> \in performed' <=> <<k, j>> \in performed)
  /\ \A p \in Requests :
       \/ req'[p] = req[p]
       \/ (AtWork(p) => req[p].id = i) /\ (AtWork(p)' => req'[p].id = i)
  /\ Present(i) => Targets(i)' = Targets(i)

LEMMA FrameWorks ==
  ASSUME Shapes, NEW i \in Ids, NEW t, Frame(i), NEW p \in Requests, req'[p] = req[p]
  PROVE  Works(p, t)' <=> Works(p, t)
<1>1. CASE ~AtWork(p)
  BY <1>1 DEF Works, AtWork
<1>2. CASE AtWork(p)
  <2>1. req[p].id \in Ids /\ Present(req[p].id)
    BY <1>2 DEF Shapes, ReqsOK, ReqShape
  <2>2. Targets(req[p].id)' = Targets(req[p].id)
    <3>1. CASE req[p].id = i
      BY <2>1, <3>1 DEF Frame, Targets
    <3>2. CASE req[p].id # i
      BY <2>1, <3>2 DEF Frame, Targets
    <3> QED BY <3>1, <3>2
  <2> QED BY <2>2 DEF Works, AtWork
<1> QED BY <1>1, <1>2

LEMMA FrameRows ==
  ASSUME NEW i \in Ids, NEW t, Frame(i), NEW j \in Ids \ {i}
  PROVE  /\ OnRow(j, t)' <=> OnRow(j, t)
         /\ Want(j, t)' = Want(j, t)
         /\ Live(j)' <=> Live(j)
         /\ Targets(j)' = Targets(j)
         /\ \A k \in Kinds : /\ Runs(k, j, t)' <=> Runs(k, j, t)
                             /\ Written(k, j, t)' <=> Written(k, j, t)
<1>1. row'[j] = row[j]
  BY DEF Frame
<1>2. Targets(j)' = Targets(j)
  BY <1>1 DEF Targets
<1>3. \A k \in Kinds : wf'[k][j] = wf[k][j] /\ (<<k, j>> \in performed' <=> <<k, j>> \in performed)
  BY DEF Frame
<1> QED BY <1>1, <1>2, <1>3 DEF OnRow, Want, Live, Runs, Running, Written

LEMMA Elsewhere ==
  ASSUME Shapes, NEW i \in Ids, NEW t, Frame(i), OnTarget(t), t \notin Targets(i)',
         Counts(t)' => Counts(t), Counts(t)' => Held(t)' = Held(t), undone \subseteq undone'
  PROVE  OnTarget(t)'
<1>0. Present(i) => t \notin Targets(i)
  BY DEF Frame
<1>1. \A j \in Ids : /\ OnRow(j, t)' <=> OnRow(j, t)
                     /\ OnRow(j, t) => Want(j, t)' = Want(j, t)
  <2>1. ~OnRow(i, t) /\ ~OnRow(i, t)'
    BY <1>0 DEF OnRow, Live, Present
  <2> QED BY <2>1, FrameRows
<1>2. \A k \in Kinds, j \in Ids :
        /\ Runs(k, j, t)' <=> Runs(k, j, t)
        /\ Runs(k, j, t) => /\ Want(j, t)' = Want(j, t) /\ (Live(j)' <=> Live(j))
                            /\ wf'[k][j] = wf[k][j]
                            /\ <<k, j>> \in performed' <=> <<k, j>> \in performed
  <2>1. \A k \in Kinds : ~Runs(k, i, t) /\ ~Runs(k, i, t)'
    BY <1>0 DEF Runs, Shapes, WfsOK, WfShape
  <2>2. \A k \in Kinds, j \in Ids \ {i} :
          wf'[k][j] = wf[k][j] /\ (<<k, j>> \in performed' <=> <<k, j>> \in performed)
    BY DEF Frame
  <2> QED BY <2>1, <2>2, FrameRows
<1>3. \A q \in Requests : /\ Works(q, t)' <=> Works(q, t)
                          /\ Works(q, t) => /\ req'[q] = req[q]
                                            /\ Live(req[q].id)' <=> Live(req[q].id)
  <2> SUFFICES ASSUME NEW q \in Requests
               PROVE  /\ Works(q, t)' <=> Works(q, t)
                      /\ Works(q, t) => /\ req'[q] = req[q]
                                        /\ Live(req[q].id)' <=> Live(req[q].id)
    OBVIOUS
  <2>0. AtWork(q) => req[q].id \in Ids /\ Present(req[q].id)
    BY DEF Shapes, ReqsOK, ReqShape
  <2>1. CASE req'[q] = req[q]
    <3>1. Works(q, t)' <=> Works(q, t)
      BY <2>1, FrameWorks
    <3>2. Works(q, t) => req[q].id \in Ids \ {i}
      BY <1>0, <2>0 DEF Works
    <3> QED BY <2>1, <3>1, <3>2 DEF Live, Frame
  <2>2. CASE req'[q] # req[q]
    <3>1. (AtWork(q) => req[q].id = i) /\ (AtWork(q)' => req'[q].id = i)
      BY <2>2 DEF Frame
    <3>2. ~Works(q, t)
      BY <1>0, <2>0, <3>1 DEF Works
    <3>3. ~Works(q, t)'
      BY <3>1 DEF Works, Targets
    <3> QED BY <3>2, <3>3
  <2> QED BY <2>1, <2>2
<1>4. Untouched(t)
  BY <1>1, <1>2, <1>3 DEF Untouched
<1> QED BY <1>4, UntouchedKept

(* A step on row i is right when it is right for the targets of i.          *)
LEMMA OneRow ==
  ASSUME IInv, NEW i \in Ids, Frame(i), UNCHANGED zoneVars, contested \subseteq contested',
         undone \subseteq undone',
         \A t \in AllTargets : t \notin Targets(i)' => Held(t)' = Held(t),
         zoneRow => \A t \in AllTargets \ contested' : t \in Targets(i)' => OnTarget(t)'
  PROVE  TargetsOK'
<1> SUFFICES ASSUME zoneRow, NEW t \in AllTargets \ contested', t \notin Targets(i)'
             PROVE  OnTarget(t)'
  BY DEF TargetsOK, zoneVars
<1>1. Shapes /\ OnTarget(t)
  BY DEF IInv, TargetsOK
<1>2. Counts(t)' => Counts(t)
  BY DEF Counts, zoneVars
<1> QED BY <1>1, <1>2, Elsewhere

(* A step of requests that are not, and do not get, at work.                *)
LEMMA NoWork ==
  ASSUME IInv, UNCHANGED <<row, zoneVars, wfVars, outsideVars, historyVars>>,
         \A p \in Requests : req'[p] = req[p] \/ (~AtWork(p) /\ ~AtWork(p)')
  PROVE  TargetsOK'
<1>0. UNCHANGED <<row, zoneRow, zoneServed, wf, performed, rrset, ingress, contested, undone>>
  BY DEF zoneVars, wfVars, outsideVars, historyVars
<1> SUFFICES ASSUME zoneRow, NEW t \in AllTargets \ contested PROVE OnTarget(t)'
  BY <1>0 DEF TargetsOK
<1>1. OnTarget(t) /\ (Counts(t)' <=> Counts(t)) /\ Held(t)' = Held(t)
  BY <1>0 DEF IInv, TargetsOK, Counts, Held
<1>2. \A q \in Requests : /\ Works(q, t)' <=> Works(q, t)
                          /\ Works(q, t) => /\ req'[q] = req[q]
                                            /\ Live(req[q].id)' <=> Live(req[q].id)
  BY <1>0 DEF Works, AtWork, Targets, Live
<1>3. \A i \in Ids : /\ OnRow(i, t)' <=> OnRow(i, t)
                     /\ OnRow(i, t) => Want(i, t)' = Want(i, t)
  BY <1>0 DEF OnRow, Live, Targets, Want
<1>4. \A k \in Kinds, i \in Ids :
       /\ Runs(k, i, t)' <=> Runs(k, i, t)
       /\ Runs(k, i, t) => /\ Want(i, t)' = Want(i, t) /\ (Live(i)' <=> Live(i))
                           /\ wf'[k][i] = wf[k][i]
                           /\ <<k, i>> \in performed' <=> <<k, i>> \in performed
  BY <1>0 DEF Runs, Running, Live, Targets, Want
<1>5. Untouched(t)
  BY <1>1, <1>2, <1>3, <1>4 DEF Untouched
<1> QED BY <1>0, <1>1, <1>5, UntouchedKept

-----------------------------------------------------------------------------
(* Requests that look.                                                      *)

(* A step of q that is at no work before and after.                         *)
LEMMA LookInv ==
  ASSUME IInv, NEW q \in Requests, Only(q), ~AtWork(q), ~AtWork(q)', ReqShape(q)',
         UNCHANGED <<row, zoneVars, serviceVars, wfVars, outsideVars, historyVars>>
  PROVE  IInv'
<1>1. TargetsOK'
  BY NoWork DEF Only
<1>2. TypeOK' /\ KeptRows /\ WfsOK'
  BY SameRowsKept, WfsOKKept
     DEF IInv, Shapes, TypeOK, zoneVars, serviceVars, wfVars, outsideVars, historyVars, Only
<1>3. Shapes'
  BY <1>2, ShapesKept DEF IInv
<1> QED BY <1>1, <1>3 DEF IInv

LEMMA AddCustomDomainInv ==
  ASSUME IInv, NEW q \in Requests, NEW s \in Services, NEW n \in Names, AddCustomDomain(q, s, n)
  PROVE  IInv'
<1> DEFINE r1 == [Idle EXCEPT !.pc = "insertDomain"]
           r2 == [r1 EXCEPT !.name = n]
           r3 == [r2 EXCEPT !.content = Ip[s]]
           r4 == [r3 EXCEPT !.service = s]
<1>1. req' = [req EXCEPT ![q] = r4]
  BY DEF AddCustomDomain
<1>2. r1 \in ReqType /\ r1.pc = "insertDomain" /\ r1.type = "A"
  BY TypesOK DEF Idle, ReqType, Pcs
<1> HIDE DEF r1
<1>3. r2 \in ReqType /\ r2.pc = "insertDomain" /\ r2.type = "A" /\ r2.name = n
  BY <1>2 DEF ReqType
<1> HIDE DEF r2
<1>4. r3 \in ReqType /\ r3.pc = "insertDomain" /\ r3.type = "A" /\ r3.name = n
  BY <1>3, IpOK DEF ReqType
<1> HIDE DEF r3
<1>5. r4 \in ReqType /\ r4.pc = "insertDomain" /\ r4.type = "A" /\ r4.name = n /\ r4.service = s
  BY <1>4 DEF ReqType
<1> HIDE DEF r4
<1>6. Only(q) /\ req'[q] = r4
  BY <1>1, <1>5, Becomes DEF IInv, Shapes
<1> QED BY <1>5, <1>6, LookInv DEF AddCustomDomain, AtWork, ReqShape

LEMMA AddDnsRecordInv ==
  ASSUME IInv, NEW q \in Requests, NEW n \in Names, NEW t \in Types, NEW c \in Contents,
         AddDnsRecord(q, n, t, c)
  PROVE  IInv'
<1> DEFINE r1 == [Idle EXCEPT !.pc = "insertRecord"]
           r2 == [r1 EXCEPT !.name = n]
           r3 == [r2 EXCEPT !.type = t]
           r4 == [r3 EXCEPT !.content = c]
<1>1. req' = [req EXCEPT ![q] = r4]
  BY DEF AddDnsRecord
<1>2. r1 \in ReqType /\ r1.pc = "insertRecord" /\ r1.service = NoService
  BY TypesOK DEF Idle, ReqType, Pcs
<1> HIDE DEF r1
<1>3. r2 \in ReqType /\ r2.pc = "insertRecord" /\ r2.service = NoService /\ r2.name = n
  BY <1>2 DEF ReqType
<1> HIDE DEF r2
<1>4. r3 \in ReqType /\ r3.pc = "insertRecord" /\ r3.service = NoService /\ r3.name = n
  BY <1>3 DEF ReqType
<1> HIDE DEF r3
<1>5. r4 \in ReqType /\ r4.pc = "insertRecord" /\ r4.service = NoService /\ r4.name = n
  BY <1>4 DEF ReqType
<1> HIDE DEF r4
<1>6. Only(q) /\ req'[q] = r4
  BY <1>1, <1>5, Becomes DEF IInv, Shapes
<1> QED BY <1>5, <1>6, LookInv DEF AddDnsRecord, AtWork, ReqShape

LEMMA IdleShape ==
  ASSUME NEW q, req'[q] = Idle
  PROVE  ReqShape(q)' /\ ~AtWork(q)'
  BY DEF ReqShape, AtWork, Idle

LEMMA InsertFailsInv ==
  ASSUME IInv, NEW q \in Requests, InsertFails(q)
  PROVE  IInv'
<1>1. Only(q) /\ req'[q] = Idle
  BY DoneMoves DEF InsertFails, IInv, Shapes
<1> QED BY <1>1, IdleShape, LookInv DEF InsertFails, AtWork

-----------------------------------------------------------------------------
(* Requests that insert.                                                    *)

(* The row of q becomes that of a free id.                                  *)
LEMMA InsertInv ==
  ASSUME IInv, NEW q \in Requests, NEW i \in Ids, NEW managed \in BOOLEAN,
         NEW pc \in {"attach", "upsert"},
         i \in NextId, CreateDnsRecord(q, i, managed),
         req' = [req EXCEPT ![q].pc = pc, ![q].id = i],
         req[q].pc = IF managed THEN "insertDomain" ELSE "insertRecord",
         pc = IF managed THEN "attach" ELSE "upsert",
         InsertMeets(Targets(i)'), UNCHANGED <<zoneVars, serviceVars, wfVars, outsideVars>>
  PROVE  IInv'
<1> DEFINE new == [state |-> "live", name |-> req[q].name, type |-> req[q].type,
                   content |-> req[q].content, managed |-> managed,
                   service |-> req[q].service]
           r == [req[q] EXCEPT !.pc = pc]
<1>0. /\ UNCHANGED <<zoneRow, zoneServed, live, namespaced, wf, performed, rrset, ingress,
                     undone>>
      /\ UNCHANGED zoneVars /\ UNCHANGED wfVars
      /\ ReqShape(q) /\ TypeOK /\ ~AtWork(q) /\ ~Present(i) /\ row' = [row EXCEPT ![i] = new]
  BY DEF zoneVars, serviceVars, wfVars, outsideVars, IInv, Shapes, ReqsOK, AtWork, NextId,
         Present, CreateDnsRecord, InsertMeets, Contest
<1>1. /\ new \in RowType /\ new.state = "live" /\ new.name \in Names /\ new.managed = managed
      /\ managed => new.type = "A" /\ new.service \in Services
      /\ ~managed => new.service = NoService
  BY <1>0, ReqTypes DEF RowType, ReqShape, IInv, Shapes
<1> HIDE DEF new
<1>2. /\ row' \in [Ids -> RowType] /\ row'[i] = new
      /\ \A j \in Ids \ {i} : row'[j] = row[j]
  BY <1>0, <1>1 DEF TypeOK
<1>3. /\ Only(q) /\ req'[q].pc = pc /\ req'[q].id = i
  <2>1. r \in ReqType /\ r.pc = pc
    BY <1>0, ReqTypes DEF ReqType, Pcs
  <2>2. [req[q] EXCEPT !.pc = pc, !.id = i] = [r EXCEPT !.id = i]
    BY <1>0, ReqTypes DEF ReqType
  <2> HIDE DEF r
  <2>3. [r EXCEPT !.id = i] \in ReqType /\ [r EXCEPT !.id = i].pc = pc
        /\ [r EXCEPT !.id = i].id = i
    BY <2>1 DEF ReqType
  <2>4. req' = [req EXCEPT ![q] = [r EXCEPT !.id = i]]
    BY <2>2
  <2> DEFINE r2 == [r EXCEPT !.id = i]
  <2> HIDE DEF r2
  <2>5. r2 \in ReqType /\ r2.pc = pc /\ r2.id = i /\ req' = [req EXCEPT ![q] = r2]
    BY <2>3, <2>4 DEF r2
  <2> QED BY <1>0, <2>5, Becomes
<1>4. /\ AtWork(q)' /\ Present(i)' /\ Live(i)' /\ row'[i].managed = managed
  BY <1>1, <1>2, <1>3 DEF AtWork, Present, Live
<1>5. \A j \in Ids : Present(j) => SameRow(j)
  BY <1>0, <1>2 DEF SameRow, Present
<1>6. Shapes'
  <2>1. contested' \subseteq (Names \X Types) \cup (Services \X {"route"})
    <3>1. Targets(i)' \subseteq (Names \X Types) \cup (Services \X {"route"})
      BY <1>1, <1>2 DEF Targets, RowType
    <3> QED BY <1>0, <3>1 DEF InsertMeets, Contest, TypeOK
  <2>2. TypeOK'
    BY <1>0, <1>2, <1>3, <2>1 DEF TypeOK, Only
  <2>3. RowsOK'
    <3> SUFFICES ASSUME NEW j \in Ids, Present(j)' PROVE RowShape(j)'
      BY DEF RowsOK
    <3>1. CASE j = i
      BY <1>1, <1>2, <3>1, NoneIsNothing DEF RowShape
    <3>2. CASE j # i
      BY <1>2, <3>2 DEF RowShape, IInv, Shapes, RowsOK, Present
    <3> QED BY <3>1, <3>2
  <2>4. ReqsOK'
    <3> SUFFICES ASSUME NEW p \in Requests PROVE ReqShape(p)'
      BY DEF ReqsOK
    <3>1. CASE p = q
      BY <1>3, <1>4, <3>1 DEF ReqShape, AtWork
    <3>2. CASE p # q
      <4>1. req'[p] = req[p] /\ ReqShape(p)
        BY <1>3, <3>2 DEF Only, IInv, Shapes, ReqsOK
      <4>2. CASE AtWork(p)
        BY <1>5, <4>1, <4>2 DEF ReqShape, AtWork, SameRow
      <4>3. CASE ~AtWork(p)
        BY <4>1, <4>3 DEF ReqShape, AtWork
      <4> QED BY <4>2, <4>3
    <3> QED BY <3>1, <3>2
  <2>5. WfsOK'
    BY <1>0, <1>5 DEF IInv, Shapes, WfsOK, WfShape, Running, SameRow
  <2> QED BY <2>2, <2>3, <2>4, <2>5 DEF Shapes
<1>7. Frame(i)
  BY <1>0, <1>2, <1>3 DEF Frame, Only
<1>8. ASSUME zoneRow, NEW t \in AllTargets \ contested', t \in Targets(i)' PROVE OnTarget(t)'
  <2>0. Shapes /\ OnTarget(t)
    BY <1>8 DEF IInv, TargetsOK, InsertMeets, Contest
  <2>1. ~Busy(t) /\ \A j \in Ids : ~OnRow(j, t)
    BY <1>8 DEF InsertMeets, Contest, OnRow
  <2>2. (\A p \in Requests : ~Works(p, t)) /\ Quiet(t)
    BY <2>1, BusyIs
  <2>3. \A p \in Requests : Works(p, t)' => p = q
    BY <1>3, <1>7, <2>0, <2>2, FrameWorks DEF Only
  <2>4. \A k \in Kinds, j \in Ids : ~Runs(k, j, t)'
    <3>1. \A k \in Kinds : ~Runs(k, i, t)'
      BY <1>0, <2>0 DEF Runs, Running, Shapes, WfsOK, WfShape
    <3>2. \A k \in Kinds, j \in Ids \ {i} : ~Runs(k, j, t)'
      BY <1>7, <2>2, FrameRows DEF Quiet
    <3> QED BY <3>1, <3>2
  <2>5. \A j \in Ids : OnRow(j, t)' => j = i
    BY <1>7, <2>1, FrameRows
  <2>6. Works(q, t)' /\ Busy(t)' /\ req'[q].pc # "deleteRow" /\ Live(req[q].id)'
    <3>1. Works(q, t)'
      BY <1>3, <1>4, <1>8 DEF Works
    <3> QED BY <1>3, <1>4, <3>1 DEF Busy, Works, Live
  <2>7. "attach" \in Kinds /\ "detach" \in Kinds
    BY DEF Kinds
  <2>8. WritersOK(t)'
    BY <2>3, <2>4, <2>5, <2>6, <2>7 DEF WritersOK
  <2>9. ASSUME Counts(t)' PROVE ContentOK(t)'
    <3>1. Held(t)' = Nothing(t)'
      BY <1>0, <2>0, <2>1, <2>9 DEF OnTarget, ContentOK, Counts, Held, Nothing
    <3> QED BY <2>3, <2>4, <2>6, <3>1 DEF ContentOK
  <2> QED BY <2>8, <2>9 DEF OnTarget
<1>9. \A t \in AllTargets : Held(t)' = Held(t)
  BY <1>0 DEF Held
<1>10. contested \subseteq contested' /\ undone \subseteq undone'
  BY <1>0 DEF InsertMeets, Contest
<1>11. TargetsOK'
  BY <1>0, <1>7, <1>8, <1>9, <1>10, OneRow
<1> QED BY <1>6, <1>11 DEF IInv

LEMMA InsertDomainInv ==
  ASSUME IInv, NEW q \in Requests, NEW i \in Ids, InsertDomain(q, i)
  PROVE  IInv'
<1>0. /\ req[q].pc = "insertDomain" /\ i \in NextId /\ CreateDnsRecord(q, i, TRUE)
      /\ req' = [req EXCEPT ![q].pc = "attach", ![q].id = i]
      /\ InsertMeets({<<req[q].name, "A">>, <<req[q].service, "route">>})
      /\ UNCHANGED <<zoneVars, serviceVars, wfVars, outsideVars>>
      /\ req[q].type = "A" /\ row \in [Ids -> RowType]
  BY DEF InsertDomain, IInv, Shapes, ReqsOK, ReqShape, TypeOK
<1>1. Targets(i)' = {<<req[q].name, "A">>, <<req[q].service, "route">>}
  BY <1>0 DEF Targets, CreateDnsRecord
<1> QED BY <1>0, <1>1, InsertInv

LEMMA InsertRecordInv ==
  ASSUME IInv, NEW q \in Requests, NEW i \in Ids, InsertRecord(q, i)
  PROVE  IInv'
<1>0. /\ req[q].pc = "insertRecord" /\ i \in NextId /\ CreateDnsRecord(q, i, FALSE)
      /\ req' = [req EXCEPT ![q].pc = "upsert", ![q].id = i]
      /\ InsertMeets({<<req[q].name, req[q].type>>})
      /\ UNCHANGED <<zoneVars, serviceVars, wfVars, outsideVars>>
      /\ row \in [Ids -> RowType]
  BY DEF InsertRecord, IInv, Shapes, TypeOK
<1>1. Targets(i)' = {<<req[q].name, req[q].type>>}
  BY <1>0 DEF Targets, CreateDnsRecord
<1> QED BY <1>0, <1>1, InsertInv

-----------------------------------------------------------------------------
(* Requests at work on a row.                                               *)

LEMMA TargetTypes ==
  ASSUME IInv, NEW i \in Ids, Present(i)
  PROVE  Targets(i) \subseteq AllTargets
  BY RowTypes DEF IInv, Shapes, RowsOK, RowShape, Targets, AllTargets

(* A request begins to work on a live row.                                  *)
LEMMA TakeInv ==
  ASSUME IInv, NEW q \in Requests, NEW i \in Ids, Live(i),
         NEW pc \in {"detach", "deleteRrset"}, pc = "detach" <=> row[i].managed,
         req[q].pc = "idle", req' = [req EXCEPT ![q] = [Idle EXCEPT !.pc = pc, !.id = i]],
         Meets(Targets(i)), UNCHANGED <<row, zoneVars, serviceVars, wfVars, outsideVars>>
  PROVE  IInv'
<1>0. /\ UNCHANGED <<row, zoneRow, zoneServed, live, namespaced, wf, performed, rrset, ingress,
                     undone>>
      /\ UNCHANGED zoneVars /\ UNCHANGED wfVars /\ TypeOK /\ Shapes /\ Present(i)
  BY DEF zoneVars, serviceVars, wfVars, outsideVars, IInv, Shapes, Live, Present, Meets, Contest
<1>1. Only(q) /\ req'[q].pc = pc /\ req'[q].id = i
  <2> DEFINE r1 == [Idle EXCEPT !.pc = pc]
             r  == [r1 EXCEPT !.id = i]
  <2>0. req' = [req EXCEPT ![q] = r]
    OBVIOUS
  <2>1. r1 \in ReqType /\ r1.pc = pc
    BY <1>0, ReqTypes DEF ReqType, Pcs
  <2> HIDE DEF r1
  <2>2. r \in ReqType /\ r.pc = pc /\ r.id = i
    BY <2>1 DEF ReqType
  <2> HIDE DEF r
  <2> QED BY <1>0, <2>0, <2>2, Becomes
<1>2. contested' \subseteq (Names \X Types) \cup (Services \X {"route"})
  BY <1>0, TargetTypes DEF Meets, Contest, TypeOK, AllTargets
<1>3. TypeOK' /\ KeptRows /\ WfsOK'
  <2>1. TypeOK'
    BY <1>0, <1>1, <1>2 DEF TypeOK, Only
  <2> QED BY <1>0, <2>1, SameRowsKept, WfsOKKept DEF Shapes
<1>4. ReqShape(q)'
  BY <1>0, <1>1 DEF ReqShape, Present, AtWork
<1>5. Shapes'
  BY <1>1, <1>3, <1>4, ShapesKept, <1>0
<1>6. Frame(i)
  BY <1>0, <1>1 DEF Frame, Only, AtWork, Targets
<1>7. ASSUME zoneRow, NEW t \in AllTargets \ contested', t \in Targets(i)' PROVE OnTarget(t)'
  <2>0. t \in Targets(i) /\ contested \subseteq contested'
    BY <1>0, <1>7 DEF Targets, Meets, Contest
  <2>1. ~Busy(t) /\ OnTarget(t)
    BY <1>7, <2>0 DEF Meets, Contest, IInv, TargetsOK
  <2>2. (\A p \in Requests : ~Works(p, t)) /\ Quiet(t)
    BY <2>1, BusyIs
  <2>3. \A p \in Requests : Works(p, t)' => p = q
    BY <1>0, <1>1, <1>6, <2>2, FrameWorks DEF Only
  <2>4. \A k \in Kinds, j \in Ids : ~Runs(k, j, t)'
    BY <1>0, <2>2 DEF Quiet, Runs, Running, Targets
  <2>5. \A j \in Ids : OnRow(j, t)' <=> OnRow(j, t)
    BY <1>0 DEF OnRow, Live, Targets
  <2>6. Works(q, t)' /\ Busy(t)' /\ req'[q].pc # "deleteRow" /\ Live(req[q].id)'
    <3>1. Works(q, t)'
      BY <1>1, <1>7 DEF Works, AtWork
    <3> QED BY <1>0, <1>1, <3>1 DEF Busy, Works, Live
  <2>7. "attach" \in Kinds /\ "detach" \in Kinds
    BY DEF Kinds
  <2>8. WritersOK(t)'
    BY <2>1, <2>3, <2>4, <2>5, <2>6, <2>7 DEF OnTarget, WritersOK
  <2>9. ContentOK(t)'
    BY <2>3, <2>4, <2>6, <2>7 DEF ContentOK
  <2> QED BY <2>8, <2>9 DEF OnTarget
<1>8. \A t \in AllTargets : Held(t)' = Held(t)
  BY <1>0 DEF Held
<1>9. contested \subseteq contested' /\ undone \subseteq undone'
  BY <1>0 DEF Meets, Contest
<1>10. TargetsOK'
  BY <1>0, <1>6, <1>7, <1>8, <1>9, OneRow
<1> QED BY <1>5, <1>10 DEF IInv

LEMMA RemoveCustomDomainInv ==
  ASSUME IInv, NEW q \in Requests, NEW s \in Services, RemoveCustomDomain(q, s)
  PROVE  IInv'
<1>1. PICK i \in ListDnsRecordsByServiceID(s) :
        /\ req' = [req EXCEPT ![q] = [Idle EXCEPT !.pc = "detach", !.id = i]]
        /\ Meets(Targets(i))
  BY DEF RemoveCustomDomain
<1>2. /\ i \in Ids /\ Live(i) /\ row[i].service = s
  BY DEF ListDnsRecordsByServiceID
<1>3. row[i].managed
  BY <1>2 DEF IInv, Shapes, RowsOK, RowShape, Live, Present
<1> QED BY <1>1, <1>2, <1>3, TakeInv DEF RemoveCustomDomain

LEMMA DeleteUserRecordInv ==
  ASSUME IInv, NEW q \in Requests, NEW i \in Ids, DeleteUserRecord(q, i)
  PROVE  IInv'
  BY TakeInv DEF DeleteUserRecord

(* A workflow of row i starts when there is none.                           *)
LEMMA StartTypes ==
  ASSUME TypeOK, NEW k \in Kinds, NEW i \in Ids, ExecuteWorkflow(k, i)
  PROVE  /\ performed' = performed /\ wf' \in [Kinds -> [Ids -> Activities \cup {"none"}]]
         /\ wf'[k][i] = IF Running(k, i) THEN wf[k][i] ELSE First[k]
         /\ Running(k, i)' /\ First[k] \in Activities
         /\ \A l \in Kinds, j \in Ids : l # k \/ j # i => wf'[l][j] = wf[l][j]
<1> DEFINE a == IF Running(k, i) THEN wf[k][i] ELSE First[k]
<1>1. First[k] \in Activities
  BY DEF First, Kinds, Activities
<1>2. a \in Activities
  BY <1>1 DEF Running
<1>3. wf' = [wf EXCEPT ![k][i] = a] /\ performed' = performed
  BY DEF ExecuteWorkflow
<1> HIDE DEF a
<1>4. /\ wf' \in [Kinds -> [Ids -> Activities \cup {"none"}]] /\ wf'[k][i] = a
      /\ \A l \in Kinds, j \in Ids : l # k \/ j # i => wf'[l][j] = wf[l][j]
  BY <1>2, <1>3 DEF TypeOK
<1> QED BY <1>1, <1>2, <1>3, <1>4 DEF Running, a

(* What is at work on a target of the row that q works on.                  *)
LEMMA AtTarget ==
  ASSUME IInv, NEW q \in Requests, AtWork(q), zoneRow,
         NEW t \in AllTargets \ contested, t \in Targets(req[q].id)
  PROVE  /\ OnTarget(t) /\ Works(q, t) /\ Live(req[q].id) /\ OnRow(req[q].id, t)
         /\ \A p \in Requests : Works(p, t) => p = q
         /\ \A j \in Ids : OnRow(j, t) => j = req[q].id
         /\ req[q].pc # "deleteRow" => Quiet(t)
         /\ \A k \in Kinds, j \in Ids : Runs(k, j, t) => k = "detach" /\ j = req[q].id
<1>1. OnTarget(t) /\ Works(q, t) /\ req[q].id \in Ids
  BY DEF IInv, TargetsOK, Works, Shapes, ReqsOK, ReqShape
<1>2. Live(req[q].id) /\ OnRow(req[q].id, t)
  BY <1>1 DEF OnTarget, WritersOK, OnRow, Works
<1>3. /\ \A p \in Requests : Works(p, t) => p = q
      /\ \A j \in Ids : OnRow(j, t) => j = req[q].id
  BY <1>1, <1>2 DEF OnTarget, WritersOK
<1>4. /\ req[q].pc # "deleteRow" => Quiet(t)
      /\ \A k \in Kinds, j \in Ids : Runs(k, j, t) => k = "detach" /\ j = req[q].id
  BY <1>1 DEF OnTarget, WritersOK, Quiet
<1> QED BY <1>1, <1>2, <1>3, <1>4

(* The workflow of row i that a request starts.                             *)
LEMMA StartShapes ==
  ASSUME IInv, NEW k \in Kinds, NEW i \in Ids, Present(i), row[i].managed,
         ExecuteWorkflow(k, i), UNCHANGED row
  PROVE  WfsOK'
<1> SUFFICES ASSUME NEW l \in Kinds, NEW j \in Ids PROVE WfShape(l, j)'
  BY DEF WfsOK
<1>0. TypeOK /\ WfShape(l, j) /\ WfShape(k, i)
  BY DEF IInv, Shapes, WfsOK
<1>1. CASE l = k /\ j = i
  <2>1. First[k] \in ActivitiesOf[k]
    BY DEF First, ActivitiesOf, Kinds
  <2> QED BY <1>0, <1>1, <2>1, StartTypes DEF WfShape, Present
<1>2. CASE l # k \/ j # i
  BY <1>0, <1>2, StartTypes DEF WfShape, Present, Running
<1> QED BY <1>1, <1>2

LEMMA StartAttachInv ==
  ASSUME IInv, NEW q \in Requests, StartAttach(q)
  PROVE  IInv'
<1>00. PICK i \in {req[q].id} : TRUE
  OBVIOUS
<1>0. /\ req[q].pc = "attach" /\ AtWork(q) /\ i = req[q].id /\ ExecuteWorkflow("attach", i)
      /\ UNCHANGED <<row, zoneVars, zoneRow, zoneServed, live, namespaced, rrset, ingress,
                     contested, undone>>
      /\ i \in Ids /\ Present(i) /\ row[i].managed /\ TypeOK /\ Shapes /\ "attach" \in Kinds
  BY DEF StartAttach, zoneVars, serviceVars, outsideVars, historyVars, IInv, Shapes, ReqsOK, ReqShape,
         AtWork, Kinds
<1>1. Only(q) /\ req'[q] = Idle /\ req'[q].pc = "idle"
  BY <1>0, DoneMoves DEF StartAttach
<1>2. ReqShape(q)' /\ ~AtWork(q)'
  BY <1>1, IdleShape
<1>3. /\ performed' = performed /\ wf' \in [Kinds -> [Ids -> Activities \cup {"none"}]]
      /\ wf'["attach"][i] = IF Running("attach", i) THEN wf["attach"][i] ELSE "UpsertRecord"
      /\ Running("attach", i)'
      /\ \A l \in Kinds, j \in Ids : l # "attach" \/ j # i => wf'[l][j] = wf[l][j]
  BY <1>0, StartTypes DEF First
<1>4. Shapes'
  <2>1. TypeOK'
    BY <1>0, <1>1, <1>3 DEF TypeOK, Only
  <2>2. WfsOK'
    BY <1>0, StartShapes
  <2> QED BY <1>0, <1>1, <1>2, <2>1, <2>2, SameRowsKept, ShapesKept
<1>5. Frame(i)
  BY <1>0, <1>1, <1>2, <1>3 DEF Frame, Only, Targets
<1>6. ASSUME zoneRow, NEW t \in AllTargets \ contested', t \in Targets(i)' PROVE OnTarget(t)'
  <2>0. t \in Targets(i) /\ t \in AllTargets \ contested
    BY <1>0, <1>6 DEF Targets
  <2>1. /\ OnTarget(t) /\ Live(i) /\ OnRow(i, t) /\ Quiet(t)
        /\ \A p \in Requests : Works(p, t) => p = q
        /\ \A j \in Ids : OnRow(j, t) => j = i
    BY <1>0, <1>6, <2>0, AtTarget
  <2>2. \A p \in Requests : ~Works(p, t)'
    BY <1>1, <1>2, <1>5, <1>0, <2>1, FrameWorks DEF Only, Works
  <2>3. ~Running("attach", i)
    BY <1>0, <2>0, <2>1 DEF Quiet, Runs
  <2>4. /\ Runs("attach", i, t)' /\ wf'["attach"][i] = "UpsertRecord"
        /\ <<"attach", i>> \notin performed'
    BY <1>0, <1>3, <1>6, <2>3 DEF Runs, Shapes, WfsOK, WfShape
  <2>5. \A k \in Kinds, j \in Ids : Runs(k, j, t)' => k = "attach" /\ j = i
    BY <1>0, <1>3, <2>1 DEF Quiet, Runs, Running, Targets
  <2>6. \A j \in Ids : OnRow(j, t)' <=> OnRow(j, t)
    BY <1>0 DEF OnRow, Live, Targets
  <2>7. Live(i)' /\ Busy(t)' /\ "detach" \in Kinds
    BY <1>0, <2>1, <2>4 DEF Live, Busy, Runs, Kinds
  <2>8. WritersOK(t)'
    BY <1>0, <2>1, <2>2, <2>5, <2>6, <2>7 DEF WritersOK
  <2>9. ~Written("attach", i, t)'
    BY <2>4 DEF Written, First
  <2>10. ASSUME Counts(t)' PROVE ContentOK(t)'
    <3>1. Held(t)' = Nothing(t)'
      <4>1. Works(q, t) /\ Held(t)' = Held(t) /\ Nothing(t)' = Nothing(t) /\ Counts(t)
        BY <1>0, <2>0, <2>10 DEF Works, Held, Nothing, Counts
      <4> QED BY <1>0, <2>1, <4>1 DEF OnTarget, ContentOK
    <3> QED BY <1>0, <2>2, <2>5, <2>7, <2>9, <3>1 DEF ContentOK, Right
  <2> QED BY <2>8, <2>10 DEF OnTarget
<1>7. \A t \in AllTargets : Held(t)' = Held(t)
  BY <1>0 DEF Held
<1>8. TargetsOK'
  BY <1>0, <1>5, <1>6, <1>7, OneRow
<1> QED BY <1>4, <1>8 DEF IInv

LEMMA StartDetachInv ==
  ASSUME IInv, NEW q \in Requests, StartDetach(q)
  PROVE  IInv'
<1>00. PICK i \in {req[q].id} : TRUE
  OBVIOUS
<1>0. /\ req[q].pc = "detach" /\ AtWork(q) /\ i = req[q].id /\ ExecuteWorkflow("detach", i)
      /\ UNCHANGED <<row, zoneVars, zoneRow, zoneServed, live, namespaced, rrset, ingress,
                     contested, undone>>
      /\ i \in Ids /\ Present(i) /\ row[i].managed /\ TypeOK /\ Shapes /\ "detach" \in Kinds
  BY DEF StartDetach, zoneVars, serviceVars, outsideVars, historyVars, IInv, Shapes, ReqsOK, ReqShape,
         AtWork, Kinds
<1>1. Only(q) /\ req'[q].pc = "deleteRow" /\ req'[q].id = i
  BY <1>0, GotoMoves DEF StartDetach, Pcs
<1>2. ReqShape(q)' /\ AtWork(q)'
  BY <1>0, <1>1 DEF ReqShape, AtWork, Present
<1>3. /\ performed' = performed /\ wf' \in [Kinds -> [Ids -> Activities \cup {"none"}]]
      /\ wf'["detach"][i] = IF Running("detach", i) THEN wf["detach"][i] ELSE "DeleteIngress"
      /\ Running("detach", i)'
      /\ \A l \in Kinds, j \in Ids : l # "detach" \/ j # i => wf'[l][j] = wf[l][j]
  BY <1>0, StartTypes DEF First
<1>4. Shapes'
  <2>1. TypeOK'
    BY <1>0, <1>1, <1>3 DEF TypeOK, Only
  <2>2. WfsOK'
    BY <1>0, StartShapes
  <2> QED BY <1>0, <1>1, <1>2, <2>1, <2>2, SameRowsKept, ShapesKept
<1>5. Frame(i)
  BY <1>0, <1>1, <1>2, <1>3 DEF Frame, Only, Targets
<1>6. ASSUME zoneRow, NEW t \in AllTargets \ contested', t \in Targets(i)' PROVE OnTarget(t)'
  <2>0. t \in Targets(i) /\ t \in AllTargets \ contested
    BY <1>0, <1>6 DEF Targets
  <2>1. /\ OnTarget(t) /\ Live(i) /\ OnRow(i, t) /\ Quiet(t)
        /\ \A p \in Requests : Works(p, t) => p = q
        /\ \A j \in Ids : OnRow(j, t) => j = i
    BY <1>0, <1>6, <2>0, AtTarget
  <2>2. Works(q, t)' /\ \A p \in Requests : Works(p, t)' => p = q
    BY <1>0, <1>1, <1>2, <1>5, <1>6, <2>1, FrameWorks DEF Only, Works
  <2>3. ~Running("detach", i)
    BY <1>0, <2>0, <2>1 DEF Quiet, Runs
  <2>4. /\ Runs("detach", i, t)' /\ wf'["detach"][i] = "DeleteIngress"
        /\ <<"detach", i>> \notin performed'
    BY <1>0, <1>3, <1>6, <2>3 DEF Runs, Shapes, WfsOK, WfShape
  <2>5. \A k \in Kinds, j \in Ids : Runs(k, j, t)' => k = "detach" /\ j = i
    BY <1>0, <1>3, <2>1 DEF Quiet, Runs, Running, Targets
  <2>6. \A j \in Ids : OnRow(j, t)' <=> OnRow(j, t)
    BY <1>0 DEF OnRow, Live, Targets
  <2>7. Live(req[q].id)' /\ Busy(t)' /\ "attach" \in Kinds /\ ~Quiet(t)'
    BY <1>0, <1>1, <2>1, <2>4 DEF Live, Busy, Runs, Kinds, Quiet
  <2>8. WritersOK(t)'
    BY <1>0, <1>1, <2>1, <2>2, <2>5, <2>6, <2>7 DEF WritersOK
  <2>9. ~Written("detach", i, t)'
    BY <2>4 DEF Written, First
  <2>10. ContentOK(t)'
    BY <1>0, <1>1, <2>2, <2>5, <2>7, <2>9 DEF ContentOK, Right
  <2> QED BY <2>8, <2>10 DEF OnTarget
<1>7. \A t \in AllTargets : Held(t)' = Held(t)
  BY <1>0 DEF Held
<1>8. TargetsOK'
  BY <1>0, <1>5, <1>6, <1>7, OneRow
<1> QED BY <1>4, <1>8 DEF IInv

LEMMA DeleteDnsRecordInv ==
  ASSUME IInv, NEW q \in Requests, DeleteDnsRecord(q)
  PROVE  IInv'
<1>00. PICK i \in {req[q].id} : TRUE
  OBVIOUS
<1>0. /\ req[q].pc = "deleteRow" /\ AtWork(q) /\ i = req[q].id
      /\ row' = [row EXCEPT ![i].state = IF Live(i) THEN "removed" ELSE @]
      /\ UNCHANGED <<zoneVars, zoneRow, zoneServed, live, namespaced, wfVars, wf,
                     performed, rrset, ingress, contested, undone>>
      /\ i \in Ids /\ Present(i) /\ TypeOK /\ Shapes
  BY DEF DeleteDnsRecord, zoneVars, serviceVars, wfVars, outsideVars, historyVars, IInv, Shapes,
         ReqsOK, ReqShape, AtWork
<1>1. Only(q) /\ req'[q] = Idle /\ req'[q].pc = "idle"
  BY <1>0, DoneMoves DEF DeleteDnsRecord
<1>2. ReqShape(q)' /\ ~AtWork(q)'
  BY <1>1, IdleShape
<1>3. /\ row' \in [Ids -> RowType] /\ SameRow(i) /\ ~Live(i)'
      /\ \A j \in Ids \ {i} : row'[j] = row[j]
  <2> DEFINE st == IF Live(i) THEN "removed" ELSE row[i].state
             r  == [row[i] EXCEPT !.state = st]
  <2>1. row[i] \in RowType /\ st \in {"live", "removed"} /\ st # "live"
    BY <1>0, RowTypes DEF Live, Present
  <2>2. row' = [row EXCEPT ![i] = r]
    BY <1>0
  <2> HIDE DEF st
  <2>3. /\ r \in RowType /\ r.state # "absent" /\ r.state # "live"
        /\ r.name = row[i].name /\ r.type = row[i].type /\ r.content = row[i].content
        /\ r.managed = row[i].managed /\ r.service = row[i].service
    BY <2>1 DEF RowType
  <2> HIDE DEF r
  <2>4. row' \in [Ids -> RowType] /\ row'[i] = r /\ \A j \in Ids \ {i} : row'[j] = row[j]
    BY <1>0, <2>2, <2>3 DEF TypeOK
  <2> QED BY <2>3, <2>4 DEF SameRow, Present, Live
<1>4. Shapes'
  <2>1. KeptRows
    BY <1>0, <1>3 DEF KeptRows, SameRow, Present
  <2>2. TypeOK'
    BY <1>0, <1>1, <1>3 DEF TypeOK, Only
  <2>3. WfsOK'
    BY <1>0, <2>1, WfsOKKept DEF Shapes
  <2> QED BY <1>0, <1>1, <1>2, <2>1, <2>2, <2>3, ShapesKept
<1>5. Frame(i) /\ Targets(i)' = Targets(i)
  BY <1>0, <1>1, <1>2, <1>3, TargetsSame DEF Frame, Only
<1>6. ASSUME zoneRow, NEW t \in AllTargets \ contested', t \in Targets(i)' PROVE OnTarget(t)'
  <2>0. t \in Targets(i) /\ t \in AllTargets \ contested
    BY <1>0, <1>5, <1>6
  <2>1. /\ OnTarget(t) /\ Works(q, t)
        /\ \A p \in Requests : Works(p, t) => p = q
        /\ \A j \in Ids : OnRow(j, t) => j = i
        /\ \A k \in Kinds, j \in Ids : Runs(k, j, t) => k = "detach" /\ j = i
    BY <1>0, <1>6, <2>0, AtTarget
  <2>2. \A p \in Requests : ~Works(p, t)'
    BY <1>0, <1>1, <1>2, <1>5, <2>1, FrameWorks DEF Only, Works
  <2>3. \A j \in Ids : ~OnRow(j, t)'
    BY <1>0, <1>3, <1>5, <2>1, FrameRows DEF OnRow
  <2>4. \A k \in Kinds, j \in Ids :
          (Runs(k, j, t)' <=> Runs(k, j, t)) /\ (Written(k, j, t)' <=> Written(k, j, t))
    <3>1. \A k \in Kinds : (Runs(k, i, t)' <=> Runs(k, i, t))
                           /\ (Written(k, i, t)' <=> Written(k, i, t))
      BY <1>0, <1>5 DEF Runs, Running, Written
    <3> QED BY <1>0, <1>5, <3>1, FrameRows
  <2>5. "attach" \in Kinds /\ "detach" \in Kinds /\ "attach" # "detach"
    BY DEF Kinds
  <2>6. WritersOK(t)'
    <3>1. \A k, l \in Kinds, j, m \in Ids : Runs(k, j, t)' /\ Runs(l, m, t)' => k = l /\ j = m
      BY <2>1, <2>4
    <3>2. \A j \in Ids : ~Runs("attach", j, t)'
      BY <2>1, <2>4, <2>5
    <3> QED BY <2>2, <2>3, <3>1, <3>2 DEF WritersOK
  <2>7. ASSUME Counts(t)' PROVE ContentOK(t)'
    <3>1. ContentOK(t) /\ Held(t)' = Held(t) /\ Nothing(t)' = Nothing(t)
      BY <1>0, <2>1, <2>7 DEF OnTarget, Counts, Held, Nothing
    <3>2. Quiet(t)' <=> Quiet(t)
      BY <2>4 DEF Quiet
    <3>3. ~Busy(t)' => Held(t)' = Nothing(t)'
      <4>1. ~Busy(t)' => Quiet(t)'
        BY DEF Busy, Quiet, Runs
      <4> QED BY <1>0, <2>1, <3>1, <3>2, <4>1 DEF ContentOK
    <3>4. ASSUME NEW k \in Kinds, NEW j \in Ids, Runs(k, j, t)' PROVE Right(k, j, t)'
      <4>1. k = "detach" /\ Right(k, j, t)
        BY <2>1, <2>4, <3>1, <3>4 DEF ContentOK
      <4> QED BY <2>4, <2>5, <3>1, <4>1 DEF Right, Good
    <3> QED BY <2>2, <2>3, <3>3, <3>4 DEF ContentOK
  <2> QED BY <2>6, <2>7 DEF OnTarget
<1>7. \A t \in AllTargets : Held(t)' = Held(t)
  BY <1>0 DEF Held
<1>8. TargetsOK'
  BY <1>0, <1>5, <1>6, <1>7, OneRow
<1> QED BY <1>4, <1>8 DEF IInv

(* One record set is written.                                               *)
LEMMA ReplaceHeld ==
  ASSUME TypeOK, NEW i \in Ids, row[i].name \in Names, NEW c \in Contents \cup {NoContent},
         Replace(i, c), UNCHANGED <<ingress, row>>
  PROVE  /\ rrset' \in [Names -> [Types -> Contents \cup {NoContent}]]
         /\ \A t \in AllTargets : t # <<row[i].name, row[i].type>> => Held(t)' = Held(t)
         /\ \A t \in Targets(i) \cap AllTargets :
              IF t[2] = "route" THEN Held(t)' = Held(t) ELSE Held(t)' = c
<1> DEFINE n == row[i].name
           y == row[i].type
<1>1. y \in Types /\ y # "route"
  BY RowTypes, TypesOK
<1>2. rrset' = [rrset EXCEPT ![n][y] = c]
  BY DEF Replace
<1>3. \A t \in Targets(i) : t = <<n, y>> \/ t[2] = "route"
  BY DEF Targets
<1>4. n \in Names
  OBVIOUS
<1> HIDE DEF n, y
<1>5. /\ rrset' \in [Names -> [Types -> Contents \cup {NoContent}]]
      /\ rrset'[n][y] = c
      /\ \A m \in Names, z \in Types : m # n \/ z # y => rrset'[m][z] = rrset[m][z]
  BY <1>1, <1>2, <1>4 DEF TypeOK
<1>6. ASSUME NEW t \in AllTargets, t # <<n, y>> PROVE Held(t)' = Held(t)
  <2>1. CASE t[2] = "route"
    BY <2>1 DEF Held
  <2>2. CASE t[2] # "route"
    <3>1. t \in Names \X Types
      BY <2>2 DEF AllTargets
    <3>2. t[1] # n \/ t[2] # y
      BY <1>6, <3>1
    <3> QED BY <1>5, <2>2, <3>1, <3>2 DEF Held
  <2> QED BY <2>1, <2>2
<1>7. ASSUME NEW t \in Targets(i) \cap AllTargets
      PROVE  IF t[2] = "route" THEN Held(t)' = Held(t) ELSE Held(t)' = c
  <2>1. CASE t[2] = "route"
    BY <2>1 DEF Held
  <2>2. CASE t[2] # "route"
    BY <1>3, <1>5, <1>7, <2>2 DEF Held
  <2> QED BY <2>1, <2>2
<1> QED BY <1>2, <1>5, <1>6, <1>7 DEF n, y

LEMMA SyncRecordInv ==
  ASSUME IInv, NEW q \in Requests, SyncRecord(q)
  PROVE  IInv'
<1>00. PICK i \in {req[q].id} : TRUE
  OBVIOUS
<1>0. /\ req[q].pc = "upsert" /\ AtWork(q) /\ i = req[q].id /\ Replace(i, row[i].content)
      /\ UNCHANGED <<row, zoneVars, zoneRow, zoneServed, live, namespaced, wfVars, wf,
                     performed, ingress, contested, undone>>
      /\ i \in Ids /\ Present(i) /\ ~row[i].managed /\ row[i].name \in Names /\ TypeOK /\ Shapes
      /\ row[i].content \in Contents \cup {NoContent}
  BY RowTypes DEF SyncRecord, zoneVars, serviceVars, historyVars, wfVars, IInv, Shapes, ReqsOK, ReqShape, AtWork,
                  RowsOK, RowShape
<1>1. Only(q) /\ req'[q] = Idle /\ req'[q].pc = "idle"
  BY <1>0, DoneMoves DEF SyncRecord
<1>2. ReqShape(q)' /\ ~AtWork(q)'
  BY <1>1, IdleShape
<1>3. /\ rrset' \in [Names -> [Types -> Contents \cup {NoContent}]]
      /\ \A t \in AllTargets : t # <<row[i].name, row[i].type>> => Held(t)' = Held(t)
      /\ \A t \in Targets(i) \cap AllTargets :
           IF t[2] = "route" THEN Held(t)' = Held(t) ELSE Held(t)' = row[i].content
  BY <1>0, ReplaceHeld
<1>4. Shapes'
  <2>1. TypeOK'
    BY <1>0, <1>1, <1>3 DEF TypeOK, Only
  <2>2. WfsOK'
    BY <1>0, SameRowsKept, WfsOKKept DEF Shapes
  <2> QED BY <1>0, <1>1, <1>2, <2>1, <2>2, SameRowsKept, ShapesKept
<1>5. Frame(i) /\ Targets(i)' = Targets(i)
  BY <1>0, <1>1, <1>2 DEF Frame, Only, Targets
<1>6. ASSUME zoneRow, NEW t \in AllTargets \ contested', t \in Targets(i)' PROVE OnTarget(t)'
  <2>0. t \in Targets(i) /\ t \in AllTargets \ contested
    BY <1>0, <1>5, <1>6
  <2>1. /\ OnTarget(t) /\ Live(i) /\ OnRow(i, t) /\ Quiet(t)
        /\ \A p \in Requests : Works(p, t) => p = q
        /\ \A j \in Ids : OnRow(j, t) => j = i
    BY <1>0, <1>6, <2>0, AtTarget
  <2>2. \A p \in Requests : ~Works(p, t)'
    BY <1>0, <1>1, <1>2, <1>5, <2>1, FrameWorks DEF Only, Works
  <2>3. \A k \in Kinds, j \in Ids : ~Runs(k, j, t)'
    BY <1>0, <2>1 DEF Quiet, Runs, Running, Targets
  <2>4. \A j \in Ids : OnRow(j, t)' <=> OnRow(j, t)
    BY <1>0 DEF OnRow, Live, Targets
  <2>5. "attach" \in Kinds /\ "detach" \in Kinds
    BY DEF Kinds
  <2>6. WritersOK(t)'
    BY <2>1, <2>2, <2>3, <2>4, <2>5 DEF WritersOK
  <2>7. Held(t)' = Want(i, t)'
    <3>1. t = <<row[i].name, row[i].type>> /\ row[i].type # "route"
      BY <1>0, <2>0, RowTypes, TypesOK DEF Targets
    <3>2. Held(t)' = row[i].content
      BY <1>3, <2>0, <3>1
    <3> QED BY <1>0, <3>1, <3>2 DEF Want
  <2>8. ContentOK(t)'
    <3>1. \A j \in Ids : OnRow(j, t)' => Shown(j, t)'
      BY <2>1, <2>4, <2>7 DEF Shown
    <3>2. ~\A j \in Ids : ~OnRow(j, t)'
      BY <1>0, <2>1, <2>4
    <3> QED BY <2>2, <2>3, <2>5, <3>1, <3>2 DEF ContentOK
  <2> QED BY <2>6, <2>8 DEF OnTarget
<1>7. \A t \in AllTargets : t \notin Targets(i)' => Held(t)' = Held(t)
  BY <1>3, <1>5 DEF Targets
<1>8. TargetsOK'
  BY <1>0, <1>5, <1>6, <1>7, OneRow
<1> QED BY <1>4, <1>8 DEF IInv

LEMMA DeleteRrsetInv ==
  ASSUME IInv, NEW q \in Requests, DeleteRrset(q)
  PROVE  IInv'
<1>00. PICK i \in {req[q].id} : TRUE
  OBVIOUS
<1>0. /\ req[q].pc = "deleteRrset" /\ AtWork(q) /\ i = req[q].id /\ Replace(i, NoContent)
      /\ UNCHANGED <<row, zoneVars, zoneRow, zoneServed, live, namespaced, wfVars, wf,
                     performed, ingress, contested, undone>>
      /\ i \in Ids /\ Present(i) /\ ~row[i].managed /\ row[i].name \in Names /\ TypeOK /\ Shapes
  BY DEF DeleteRrset, zoneVars, serviceVars, historyVars, wfVars, IInv, Shapes, ReqsOK, ReqShape,
         AtWork, RowsOK, RowShape
<1>1. Only(q) /\ req'[q].pc = "deleteRow" /\ req'[q].id = i
  BY <1>0, GotoMoves DEF DeleteRrset, Pcs
<1>2. ReqShape(q)' /\ AtWork(q)'
  BY <1>0, <1>1 DEF ReqShape, AtWork, Present
<1>3. /\ rrset' \in [Names -> [Types -> Contents \cup {NoContent}]]
      /\ \A t \in AllTargets : t # <<row[i].name, row[i].type>> => Held(t)' = Held(t)
      /\ \A t \in Targets(i) \cap AllTargets :
           IF t[2] = "route" THEN Held(t)' = Held(t) ELSE Held(t)' = NoContent
  BY <1>0, ReplaceHeld
<1>4. Shapes'
  <2>1. TypeOK'
    BY <1>0, <1>1, <1>3 DEF TypeOK, Only
  <2>2. WfsOK'
    BY <1>0, SameRowsKept, WfsOKKept DEF Shapes
  <2> QED BY <1>0, <1>1, <1>2, <2>1, <2>2, SameRowsKept, ShapesKept
<1>5. Frame(i) /\ Targets(i)' = Targets(i)
  BY <1>0, <1>1, <1>2 DEF Frame, Only, Targets
<1>6. ASSUME zoneRow, NEW t \in AllTargets \ contested', t \in Targets(i)' PROVE OnTarget(t)'
  <2>0. t \in Targets(i) /\ t \in AllTargets \ contested
    BY <1>0, <1>5, <1>6
  <2>1. /\ OnTarget(t) /\ Live(i) /\ OnRow(i, t) /\ Quiet(t)
        /\ \A p \in Requests : Works(p, t) => p = q
        /\ \A j \in Ids : OnRow(j, t) => j = i
    BY <1>0, <1>6, <2>0, AtTarget
  <2>2. Works(q, t)' /\ \A p \in Requests : Works(p, t)' => p = q
    BY <1>0, <1>1, <1>2, <1>5, <1>6, <2>1, FrameWorks DEF Only, Works
  <2>3. \A k \in Kinds, j \in Ids : ~Runs(k, j, t)'
    BY <1>0, <2>1 DEF Quiet, Runs, Running, Targets
  <2>4. \A j \in Ids : OnRow(j, t)' <=> OnRow(j, t)
    BY <1>0 DEF OnRow, Live, Targets
  <2>5. Live(req[q].id)' /\ Busy(t)' /\ "attach" \in Kinds /\ "detach" \in Kinds
    BY <1>0, <1>1, <2>1, <2>2 DEF Live, Busy, Works, Kinds
  <2>6. WritersOK(t)'
    BY <1>0, <1>1, <2>1, <2>2, <2>3, <2>4, <2>5 DEF WritersOK
  <2>7. Held(t)' = Nothing(t)'
    <3>1. t = <<row[i].name, row[i].type>> /\ row[i].type # "route"
      BY <1>0, <2>0, RowTypes, TypesOK DEF Targets
    <3>2. Held(t)' = NoContent
      BY <1>3, <2>0, <3>1
    <3> QED BY <3>1, <3>2 DEF Nothing
  <2>8. ContentOK(t)'
    BY <1>1, <2>2, <2>3, <2>5, <2>7 DEF ContentOK
  <2> QED BY <2>6, <2>8 DEF OnTarget
<1>7. \A t \in AllTargets : t \notin Targets(i)' => Held(t)' = Held(t)
  BY <1>3, <1>5 DEF Targets
<1>8. TargetsOK'
  BY <1>0, <1>5, <1>6, <1>7, OneRow
<1> QED BY <1>4, <1>8 DEF IInv

-----------------------------------------------------------------------------
(* Faults.                                                                  *)

(* What a fault touched is contested, and nothing else is concerned.        *)
LEMMA SpoilsInv ==
  ASSUME IInv, NEW i \in Ids, Present(i), Frame(i), Spoils(i), Shapes',
         UNCHANGED <<zoneVars, outsideVars>>
  PROVE  IInv'
<1>1. /\ contested' = contested \cup Targets(i)' /\ undone' = undone
      /\ \A t \in AllTargets : Held(t)' = Held(t)
  BY DEF Spoils, Contest, Frame, outsideVars, Held
<1>2. TargetsOK'
  BY <1>1, OneRow
<1> QED BY <1>2 DEF IInv

LEMMA SpoilsTypes ==
  ASSUME IInv, NEW i \in Ids, Present(i), Spoils(i)
  PROVE  /\ contested' \subseteq (Names \X Types) \cup (Services \X {"route"})
         /\ undone' \subseteq Ids
  BY TargetTypes DEF Spoils, Contest, AllTargets, IInv, Shapes, TypeOK

LEMMA SyncFailsInv ==
  ASSUME IInv, NEW q \in Requests, SyncFails(q)
  PROVE  IInv'
<1>00. PICK i \in {req[q].id} : TRUE
  OBVIOUS
<1>0. /\ req[q].pc \in {"upsert", "deleteRrset"} /\ AtWork(q) /\ i = req[q].id
      /\ \/ Spoils(i)
         \/ /\ IF req[q].pc = "upsert" THEN ~Writable(i) ELSE ~zoneServed
            /\ GivesUp(i, req[q].pc = "upsert")
      /\ UNCHANGED <<row, zoneVars, zoneRow, zoneServed, live, namespaced, wfVars, wf, performed,
                     outsideVars, rrset, ingress>>
      /\ i \in Ids /\ Present(i) /\ TypeOK /\ Shapes /\ ~row[i].managed
  BY DEF SyncFails, zoneVars, serviceVars, wfVars, outsideVars, IInv, Shapes, ReqsOK, ReqShape,
         AtWork
<1>1. /\ Only(q) /\ ReqShape(q)' /\ (AtWork(q)' => req'[q].id = i)
      /\ IF req[q].pc = "upsert" THEN ~AtWork(q)' ELSE AtWork(q)' /\ req'[q].pc = "deleteRow"
  <2>1. CASE req[q].pc = "upsert"
    <3>1. Only(q) /\ req'[q] = Idle
      BY <1>0, <2>1, DoneMoves DEF SyncFails
    <3> QED BY <2>1, <3>1, IdleShape
  <2>2. CASE req[q].pc # "upsert"
    <3>1. Only(q) /\ req'[q].pc = "deleteRow" /\ req'[q].id = i
      BY <1>0, <2>2, GotoMoves DEF SyncFails, Pcs
    <3> QED BY <1>0, <2>2, <3>1 DEF ReqShape, AtWork, Present
  <2> QED BY <2>1, <2>2
<1>2. Shapes'
  <2>1. /\ contested' \subseteq (Names \X Types) \cup (Services \X {"route"})
        /\ undone' \subseteq Ids
    BY <1>0, SpoilsTypes DEF GivesUp, TypeOK
  <2>2. TypeOK'
    BY <1>0, <1>1, <2>1 DEF TypeOK, Only
  <2>3. WfsOK'
    BY <1>0, SameRowsKept, WfsOKKept DEF Shapes
  <2> QED BY <1>0, <1>1, <2>2, <2>3, SameRowsKept, ShapesKept
<1>3. Frame(i) /\ Targets(i)' = Targets(i)
  BY <1>0, <1>1 DEF Frame, Only, Targets
<1>4. CASE Spoils(i)
  BY <1>0, <1>2, <1>3, <1>4, SpoilsInv
<1>5. CASE ~Spoils(i)
  <2>0. /\ IF req[q].pc = "upsert" THEN ~Writable(i) ELSE ~zoneServed
        /\ contested' = contested /\ undone \subseteq undone'
        /\ req[q].pc = "upsert" => i \in undone'
    BY <1>0, <1>5 DEF GivesUp
  <2>1. ASSUME zoneRow, NEW t \in AllTargets \ contested', t \in Targets(i)' PROVE OnTarget(t)'
    <3>0. t \in Targets(i) /\ t \in AllTargets \ contested
      BY <1>3, <2>0, <2>1
    <3>1. /\ OnTarget(t) /\ Live(i) /\ OnRow(i, t) /\ Quiet(t) /\ Works(q, t)
          /\ \A p \in Requests : Works(p, t) => p = q
          /\ \A j \in Ids : OnRow(j, t) => j = i
      BY <1>0, <2>1, <3>0, AtTarget
    <3>2. \A p \in Requests : Works(p, t)' => p = q /\ req[q].pc # "upsert"
      BY <1>0, <1>1, <1>3, <3>1, FrameWorks DEF Only, Works
    <3>3. \A k \in Kinds, j \in Ids : ~Runs(k, j, t)'
      BY <1>0, <3>1 DEF Quiet, Runs, Running, Targets
    <3>4. \A j \in Ids : OnRow(j, t)' <=> OnRow(j, t)
      BY <1>0 DEF OnRow, Live, Targets
    <3>5. "attach" \in Kinds /\ "detach" \in Kinds
      BY DEF Kinds
    <3>6. WritersOK(t)'
      <4>1. \A p \in Requests : Works(p, t)' => Live(req[p].id)'
        BY <1>0, <1>1, <3>1, <3>2 DEF Works, Live
      <4>2. \A p, u \in Requests : Works(p, t)' /\ Works(u, t)' => p = u
        BY <3>2
      <4>3. \A j, m \in Ids : OnRow(j, t)' /\ OnRow(m, t)' => j = m
        BY <3>1, <3>4
      <4> QED BY <3>3, <3>5, <4>1, <4>2, <4>3 DEF WritersOK
    <3>7. ASSUME Counts(t)' PROVE ContentOK(t)'
      <4>1. t[2] # "route"
        BY <1>0, <3>0, RowTypes, TypesOK DEF Targets
      <4>2. zoneServed /\ Counts(t)
        BY <1>0, <3>7, <4>1 DEF Counts
      <4>3. req[q].pc = "upsert" /\ i \in undone'
        BY <1>0, <2>0, <4>2
      <4>4. Held(t)' = Nothing(t)'
        BY <1>0, <3>1, <4>2, <4>3 DEF OnTarget, ContentOK, Held, Nothing
      <4>5. \A j \in Ids : OnRow(j, t)' => Shown(j, t)'
        BY <3>1, <3>4, <4>3, <4>4 DEF Shown
      <4> QED BY <3>2, <3>3, <4>3, <4>4, <4>5 DEF ContentOK
    <3> QED BY <3>6, <3>7 DEF OnTarget
  <2>2. \A t \in AllTargets : Held(t)' = Held(t)
    BY <1>0 DEF Held
  <2>3. TargetsOK'
    BY <1>0, <1>3, <2>0, <2>1, <2>2, OneRow
  <2> QED BY <1>2, <2>3 DEF IInv
<1> QED BY <1>4, <1>5

LEMMA RequestAbortsInv ==
  ASSUME IInv, NEW q \in Requests, RequestAborts(q)
  PROVE  IInv'
<1>1. Only(q) /\ req'[q] = Idle
  BY DoneMoves DEF RequestAborts, IInv, Shapes
<1>2. ReqShape(q)' /\ ~AtWork(q)'
  BY <1>1, IdleShape
<1>3. CASE ~AtWork(q)
  BY <1>1, <1>2, <1>3, LookInv DEF RequestAborts
<1>4. CASE AtWork(q)
  <2>00. PICK i \in {req[q].id} : TRUE
    OBVIOUS
  <2>0. /\ i = req[q].id /\ Spoils(i)
        /\ UNCHANGED <<row, zoneVars, zoneRow, zoneServed, live, namespaced, wfVars, wf,
                       performed, outsideVars, rrset, ingress>>
        /\ i \in Ids /\ Present(i) /\ TypeOK /\ Shapes
    BY <1>4 DEF RequestAborts, zoneVars, serviceVars, wfVars, outsideVars, IInv, Shapes, ReqsOK, ReqShape
  <2>1. Shapes'
    <3>1. TypeOK'
      BY <1>1, <2>0, SpoilsTypes DEF TypeOK, Only
    <3>2. WfsOK'
      BY <2>0, SameRowsKept, WfsOKKept DEF Shapes
    <3> QED BY <1>1, <1>2, <2>0, <3>1, <3>2, SameRowsKept, ShapesKept
  <2>2. Frame(i)
    BY <1>1, <1>2, <2>0 DEF Frame, Only, Targets
  <2> QED BY <2>0, <2>1, <2>2, SpoilsInv
<1> QED BY <1>3, <1>4

(* The workflow k of row i goes on to another activity, or closes.          *)
LEMMA ReportShapes ==
  ASSUME Shapes, NEW k \in Kinds, NEW i \in Ids, NEW a \in ActivitiesOf[k] \cup {"none"},
         wf' = [wf EXCEPT ![k][i] = a], performed' = performed \ {<<k, i>>},
         Running(k, i), UNCHANGED <<row, req>>
  PROVE  /\ wf' \in [Kinds -> [Ids -> Activities \cup {"none"}]] /\ wf'[k][i] = a
         /\ \A l \in Kinds, j \in Ids : l # k \/ j # i => wf'[l][j] = wf[l][j]
         /\ WfsOK' /\ Frame(i) /\ Present(i)
<1>1. a \in Activities \cup {"none"}
  BY DEF ActivitiesOf, Kinds, Activities
<1>2. /\ wf' \in [Kinds -> [Ids -> Activities \cup {"none"}]] /\ wf'[k][i] = a
      /\ \A l \in Kinds, j \in Ids : l # k \/ j # i => wf'[l][j] = wf[l][j]
  BY <1>1 DEF Shapes, TypeOK
<1>3. Present(i) /\ row[i].managed
  BY DEF Shapes, WfsOK, WfShape
<1>4. WfsOK'
  <2> SUFFICES ASSUME NEW l \in Kinds, NEW j \in Ids PROVE WfShape(l, j)'
    BY DEF WfsOK
  <2>0. WfShape(l, j)
    BY DEF Shapes, WfsOK
  <2>1. CASE l = k /\ j = i
    BY <1>2, <1>3, <2>1 DEF WfShape, Present, Running, Activities
  <2>2. CASE l # k \/ j # i
    BY <1>2, <2>0, <2>2 DEF WfShape, Present, Running
  <2> QED BY <2>1, <2>2
<1>5. Frame(i)
  BY <1>2 DEF Frame, Targets
<1> QED BY <1>2, <1>3, <1>4, <1>5

LEMMA ReportFaultInv ==
  ASSUME IInv, NEW k \in Kinds, NEW i \in Ids, ReportFault(k, i)
  PROVE  IInv'
<1>0. /\ Spoils(i) /\ Running(k, i) /\ Shapes /\ TypeOK
      /\ UNCHANGED <<row, req, zoneVars, zoneRow, zoneServed, live, namespaced, outsideVars,
                     rrset, ingress>>
      /\ wf' = [wf EXCEPT ![k][i] = "none"] /\ performed' = performed \ {<<k, i>>}
  BY DEF ReportFault, zoneVars, serviceVars, outsideVars, IInv, Shapes
<1>1. /\ wf' \in [Kinds -> [Ids -> Activities \cup {"none"}]]
      /\ WfsOK' /\ Frame(i) /\ Present(i)
  BY <1>0, ReportShapes
<1>2. TypeOK'
  BY <1>0, <1>1, SpoilsTypes DEF TypeOK
<1>3. Shapes'
  BY <1>0, <1>1, <1>2, SameRowsKept, ShapesLeft
<1> QED BY <1>0, <1>1, <1>3, SpoilsInv

-----------------------------------------------------------------------------
(* Workflows.                                                               *)

LEMMA AttemptTypes ==
  ASSUME Shapes, NEW k \in Kinds, NEW i \in Ids, NEW a \in Activities, Attempt(k, i, a)
  PROVE  /\ UNCHANGED <<row, zoneVars, live, namespaced, req, wf, contested, undone>>
         /\ performed' \subseteq Kinds \X Ids /\ <<k, i>> \in performed'
         /\ wf[k][i] = a /\ Running(k, i) /\ WfsOK' /\ Frame(i)
         /\ Present(i) /\ row[i].managed /\ row[i].name \in Names /\ row[i].type = "A"
         /\ row[i].service \in Services /\ row[i].content \in Contents \cup {NoContent}
<1>1. /\ UNCHANGED <<row, zoneVars, live, namespaced, req, wf, contested, undone>>
      /\ performed' = performed \cup {<<k, i>>} /\ wf[k][i] = a /\ Running(k, i)
  BY DEF Attempt, Running, serviceVars, historyVars
<1>2. Present(i) /\ row[i].managed /\ RowShape(i)
  BY <1>1 DEF Shapes, WfsOK, WfShape, RowsOK
<1>3. WfsOK'
  BY <1>1 DEF Shapes, WfsOK, WfShape, Running, Present
<1>4. Frame(i)
  BY <1>1 DEF Frame, Targets
<1> QED BY <1>1, <1>2, <1>3, <1>4, RowTypes DEF RowShape, Shapes, TypeOK

(* An activity is right when what it has written is.                        *)
LEMMA AttemptInv ==
  ASSUME IInv, NEW k \in Kinds, NEW i \in Ids, NEW a \in Activities, Attempt(k, i, a), TypeOK',
         \A t \in AllTargets : t \notin Targets(i) => Held(t)' = Held(t),
         \A t \in AllTargets \cap Targets(i) :
           IF Written(k, i, t)' THEN (Written(k, i, t) => Held(t) = Good(k, i, t))
                                        => Held(t)' = Good(k, i, t)
                                ELSE Held(t)' = Held(t)
  PROVE  IInv'
<1>0. /\ Shapes /\ UNCHANGED <<row, zoneVars, live, namespaced, req, wf, contested, undone>>
      /\ performed \subseteq performed'
      /\ zoneRow' = zoneRow /\ zoneServed' = zoneServed
      /\ Running(k, i) /\ WfsOK' /\ Frame(i)
      /\ \A l \in Kinds, j \in Ids :
           l # k \/ j # i => (<<l, j>> \in performed' <=> <<l, j>> \in performed)
  BY AttemptTypes DEF IInv, zoneVars, Attempt
<1>1. Shapes'
  BY <1>0, SameRowsKept, ShapesLeft DEF Shapes
<1>2. ASSUME zoneRow, NEW t \in AllTargets \ contested', t \in Targets(i)' PROVE OnTarget(t)'
  <2>0. t \in AllTargets \ contested /\ t \in Targets(i) /\ OnTarget(t)
    BY <1>0, <1>2 DEF IInv, TargetsOK, Targets
  <2>1. \A l \in Kinds, j \in Ids : Runs(l, j, t)' <=> Runs(l, j, t)
    BY <1>0 DEF Runs, Running, Targets
  <2>2. Runs(k, i, t) /\ \A l \in Kinds, j \in Ids : Runs(l, j, t) => l = k /\ j = i
    BY <1>0, <2>0 DEF OnTarget, WritersOK, Runs
  <2>3. \A p \in Requests : Works(p, t)' <=> Works(p, t)
    BY <1>0 DEF Works, AtWork, Targets
  <2>4. \A j \in Ids : OnRow(j, t)' <=> OnRow(j, t)
    BY <1>0 DEF OnRow, Live, Targets
  <2>5. WritersOK(t)'
    <3>1. /\ \A q \in Requests : Works(q, t)' => Live(req[q].id)'
          /\ \A j \in Ids : Runs("attach", j, t)' => Live(j)'
      BY <1>0, <2>0, <2>1, <2>3 DEF OnTarget, WritersOK, Live, Kinds
    <3>2. \A q \in Requests, l \in Kinds, j \in Ids : Works(q, t)' /\ Runs(l, j, t)' =>
            req'[q].pc = "deleteRow" /\ l = "detach" /\ req'[q].id = j
      BY <1>0, <2>0, <2>1, <2>3 DEF OnTarget, WritersOK
    <3>3. \A j, m \in Ids : Runs("detach", j, t)' /\ OnRow(m, t)' => \E q \in Requests : Works(q, t)'
      BY <2>0, <2>1, <2>3, <2>4 DEF OnTarget, WritersOK, Kinds
    <3> QED BY <2>0, <2>1, <2>3, <2>4, <3>1, <3>2, <3>3 DEF OnTarget, WritersOK
  <2>6. ASSUME Counts(t)' PROVE ContentOK(t)'
    <3>1. ContentOK(t)
      BY <1>0, <2>0, <2>6 DEF OnTarget, Counts
    <3>2. Busy(t)' /\ ~Quiet(t)'
      BY <2>1, <2>2 DEF Busy, Quiet, Runs
    <3>3. Right(k, i, t)
      BY <2>2, <3>1 DEF ContentOK
    <3>4. Good(k, i, t)' = Good(k, i, t) /\ Nothing(t)' = Nothing(t)
      BY <1>0 DEF Good, Want, Nothing
    <3>5. Written(k, i, t) => Written(k, i, t)'
      BY <1>0 DEF Written
    <3>6. Right(k, i, t)'
      BY <2>0, <3>3, <3>4, <3>5 DEF Right
    <3>7. \A q \in Requests : Works(q, t)' => req'[q].pc = "deleteRow"
      BY <1>0, <2>2, <2>5, <2>1 DEF WritersOK
    <3> QED BY <2>1, <2>2, <3>2, <3>6, <3>7 DEF ContentOK
  <2> QED BY <2>5, <2>6 DEF OnTarget
<1>3. \A t \in AllTargets : t \notin Targets(i)' => Held(t)' = Held(t)
  BY <1>0 DEF Targets
<1>4. TargetsOK'
  BY <1>0, <1>2, <1>3, OneRow
<1> QED BY <1>1, <1>4 DEF IInv

LEMMA TargetIs ==
  ASSUME TypeOK, NEW i \in Ids, NEW t \in Targets(i), row[i].managed
  PROVE  \/ t = <<row[i].name, row[i].type>> /\ t[1] = row[i].name /\ t[2] = row[i].type
            /\ t[2] # "route"
         \/ t = <<row[i].service, "route">> /\ t[1] = row[i].service /\ t[2] = "route"
  BY RowTypes, TypesOK DEF Targets

LEMMA UpsertRecordInv ==
  ASSUME IInv, NEW i \in Ids, UpsertRecord(i)
  PROVE  IInv'
<1>0. /\ "attach" \in Kinds /\ "UpsertRecord" \in Activities /\ Shapes /\ TypeOK
      /\ Attempt("attach", i, "UpsertRecord") /\ Replace(i, row[i].content)
      /\ UNCHANGED ingress
  BY DEF UpsertRecord, Kinds, Activities, IInv, Shapes
<1>1. /\ UNCHANGED <<row, zoneVars, zoneRow, zoneServed, live, namespaced, req, wf, contested,
                     undone>>
      /\ performed' \subseteq Kinds \X Ids /\ wf["attach"][i] = "UpsertRecord"
      /\ row[i].managed /\ row[i].name \in Names /\ row[i].content \in Contents \cup {NoContent}
  BY <1>0, AttemptTypes DEF zoneVars
<1>2. /\ rrset' \in [Names -> [Types -> Contents \cup {NoContent}]]
      /\ \A t \in AllTargets : t # <<row[i].name, row[i].type>> => Held(t)' = Held(t)
      /\ \A t \in Targets(i) \cap AllTargets :
           IF t[2] = "route" THEN Held(t)' = Held(t) ELSE Held(t)' = row[i].content
  BY <1>0, <1>1, ReplaceHeld
<1>3. TypeOK'
  BY <1>0, <1>1, <1>2 DEF TypeOK
<1>4. \A t \in AllTargets : t \notin Targets(i) => Held(t)' = Held(t)
  BY <1>2 DEF Targets
<1>5. ASSUME NEW t \in AllTargets \cap Targets(i)
      PROVE  IF Written("attach", i, t)' THEN Held(t)' = Good("attach", i, t)
                                         ELSE Held(t)' = Held(t)
  <2>1. Written("attach", i, t)' <=> t[2] # "route"
    <3>1. <<"attach", i>> \in performed' /\ wf'["attach"][i] = "UpsertRecord"
      BY <1>0, <1>1, AttemptTypes
    <3> QED BY <3>1 DEF Written
  <2> QED BY <1>2, <2>1 DEF Good, Want
<1> QED BY <1>0, <1>3, <1>4, <1>5, AttemptInv

LEMMA EnsureRedirectMiddlewareInv ==
  ASSUME IInv, NEW i \in Ids, EnsureRedirectMiddleware(i)
  PROVE  IInv'
<1>0. /\ "attach" \in Kinds /\ "EnsureRedirectMiddleware" \in Activities /\ Shapes /\ TypeOK
      /\ Attempt("attach", i, "EnsureRedirectMiddleware") /\ UNCHANGED <<rrset, ingress>>
  BY DEF EnsureRedirectMiddleware, Kinds, Activities, IInv, Shapes, outsideVars
<1>1. /\ UNCHANGED <<row, zoneVars, zoneRow, zoneServed, live, namespaced, req, wf, contested,
                     undone>>
      /\ performed' \subseteq Kinds \X Ids /\ wf["attach"][i] = "EnsureRedirectMiddleware"
  BY <1>0, AttemptTypes DEF zoneVars
<1>2. TypeOK' /\ \A t \in AllTargets : Held(t)' = Held(t)
  BY <1>0, <1>1 DEF TypeOK, Held
<1>3. ASSUME NEW t \in AllTargets \cap Targets(i), Written("attach", i, t)'
      PROVE  Written("attach", i, t)
  BY <1>1, <1>3 DEF Written, First
<1> QED BY <1>0, <1>2, <1>3, AttemptInv

LEMMA ApplySubdomainIngressInv ==
  ASSUME IInv, NEW i \in Ids, ApplySubdomainIngress(i)
  PROVE  IInv'
<1>0. /\ "attach" \in Kinds /\ "ApplySubdomainIngress" \in Activities /\ Shapes /\ TypeOK
      /\ Attempt("attach", i, "ApplySubdomainIngress") /\ UNCHANGED rrset
      /\ ingress' = [ingress EXCEPT ![row[i].service] = row[i].name]
  BY DEF ApplySubdomainIngress, Kinds, Activities, IInv, Shapes
<1>1. /\ UNCHANGED <<row, zoneVars, zoneRow, zoneServed, live, namespaced, req, wf, contested,
                     undone>>
      /\ performed' \subseteq Kinds \X Ids /\ wf["attach"][i] = "ApplySubdomainIngress"
      /\ row[i].managed /\ row[i].name \in Names /\ row[i].service \in Services
  BY <1>0, AttemptTypes DEF zoneVars
<1>2. /\ ingress' \in [Services -> Names \cup {NoName}]
      /\ ingress'[row[i].service] = row[i].name
      /\ \A s \in Services \ {row[i].service} : ingress'[s] = ingress[s]
  BY <1>0, <1>1 DEF TypeOK
<1>3. TypeOK'
  BY <1>0, <1>1, <1>2 DEF TypeOK
<1>4. ASSUME NEW t \in AllTargets, t # <<row[i].service, "route">> PROVE Held(t)' = Held(t)
  BY <1>0, <1>2, <1>4, TypesOK DEF Held, AllTargets
<1>5. ASSUME NEW t \in AllTargets \cap Targets(i)
      PROVE  IF Written("attach", i, t)'
               THEN (Written("attach", i, t) => Held(t) = Good("attach", i, t))
                       => Held(t)' = Good("attach", i, t)
               ELSE Held(t)' = Held(t)
  <2>0. <<"attach", i>> \in performed' /\ wf'["attach"][i] = "ApplySubdomainIngress"
    BY <1>0, <1>1, AttemptTypes
  <2>1. CASE t[2] = "route"
    <3>1. Held(t)' = Good("attach", i, t)
      BY <1>0, <1>1, <1>2, <2>1, TargetIs DEF Held, Good, Want
    <3>2. Written("attach", i, t)'
      BY <2>0, <2>1 DEF Written
    <3> QED BY <3>1, <3>2
  <2>2. CASE t[2] # "route"
    <3>1. Held(t)' = Held(t) /\ Written("attach", i, t)
      BY <1>1, <1>4, <2>2 DEF Written, First
    <3> QED BY <3>1
  <2> QED BY <2>1, <2>2
<1>6. \A t \in AllTargets : t \notin Targets(i) => Held(t)' = Held(t)
  BY <1>1, <1>4 DEF Targets
<1> QED BY <1>0, <1>3, <1>5, <1>6, AttemptInv

LEMMA DeleteIngressInv ==
  ASSUME IInv, NEW i \in Ids, DeleteIngress(i)
  PROVE  IInv'
<1>0. /\ "detach" \in Kinds /\ "DeleteIngress" \in Activities /\ Shapes /\ TypeOK
      /\ Attempt("detach", i, "DeleteIngress") /\ UNCHANGED rrset
      /\ ingress' = [ingress EXCEPT ![row[i].service] = NoName]
  BY DEF DeleteIngress, Kinds, Activities, IInv, Shapes
<1>1. /\ UNCHANGED <<row, zoneVars, zoneRow, zoneServed, live, namespaced, req, wf, contested,
                     undone>>
      /\ performed' \subseteq Kinds \X Ids /\ wf["detach"][i] = "DeleteIngress"
      /\ row[i].managed /\ row[i].service \in Services
  BY <1>0, AttemptTypes DEF zoneVars
<1>2. /\ ingress' \in [Services -> Names \cup {NoName}]
      /\ ingress'[row[i].service] = NoName
      /\ \A s \in Services \ {row[i].service} : ingress'[s] = ingress[s]
  BY <1>0, <1>1 DEF TypeOK
<1>3. TypeOK'
  BY <1>0, <1>1, <1>2 DEF TypeOK
<1>4. ASSUME NEW t \in AllTargets, t # <<row[i].service, "route">> PROVE Held(t)' = Held(t)
  BY <1>0, <1>2, <1>4, TypesOK DEF Held, AllTargets
<1>5. ASSUME NEW t \in AllTargets \cap Targets(i)
      PROVE  IF Written("detach", i, t)' THEN Held(t)' = Good("detach", i, t)
                                         ELSE Held(t)' = Held(t)
  <2>0. <<"detach", i>> \in performed' /\ wf'["detach"][i] = "DeleteIngress"
    BY <1>0, <1>1, AttemptTypes
  <2>1. CASE t[2] = "route"
    <3>1. Held(t)' = Good("detach", i, t)
      BY <1>0, <1>1, <1>2, <2>1, TargetIs DEF Held, Good, Nothing
    <3>2. Written("detach", i, t)'
      BY <2>0, <2>1 DEF Written
    <3> QED BY <3>1, <3>2
  <2>2. CASE t[2] # "route"
    <3>1. Held(t)' = Held(t)
      BY <1>4, <2>2
    <3>2. ~Written("detach", i, t)'
      BY <2>0, <2>2 DEF Written
    <3> QED BY <3>1, <3>2
  <2> QED BY <2>1, <2>2
<1>6. \A t \in AllTargets : t \notin Targets(i) => Held(t)' = Held(t)
  BY <1>1, <1>4 DEF Targets
<1> QED BY <1>0, <1>3, <1>5, <1>6, AttemptInv

LEMMA DeleteRecordInv ==
  ASSUME IInv, NEW i \in Ids, DeleteRecord(i)
  PROVE  IInv'
<1>0. /\ "detach" \in Kinds /\ "DeleteRecord" \in Activities /\ Shapes /\ TypeOK
      /\ Attempt("detach", i, "DeleteRecord") /\ Replace(i, NoContent)
      /\ UNCHANGED ingress
  BY DEF DeleteRecord, Kinds, Activities, IInv, Shapes
<1>1. /\ UNCHANGED <<row, zoneVars, zoneRow, zoneServed, live, namespaced, req, wf, contested,
                     undone>>
      /\ performed' \subseteq Kinds \X Ids /\ wf["detach"][i] = "DeleteRecord"
      /\ row[i].managed /\ row[i].name \in Names
  BY <1>0, AttemptTypes DEF zoneVars
<1>2. /\ rrset' \in [Names -> [Types -> Contents \cup {NoContent}]]
      /\ \A t \in AllTargets : t # <<row[i].name, row[i].type>> => Held(t)' = Held(t)
      /\ \A t \in Targets(i) \cap AllTargets :
           IF t[2] = "route" THEN Held(t)' = Held(t) ELSE Held(t)' = NoContent
  BY <1>0, <1>1, ReplaceHeld
<1>3. TypeOK'
  BY <1>0, <1>1, <1>2 DEF TypeOK
<1>4. \A t \in AllTargets : t \notin Targets(i) => Held(t)' = Held(t)
  BY <1>2 DEF Targets
<1>5. ASSUME NEW t \in AllTargets \cap Targets(i)
      PROVE  IF Written("detach", i, t)'
               THEN (Written("detach", i, t) => Held(t) = Good("detach", i, t))
                       => Held(t)' = Good("detach", i, t)
               ELSE Held(t)' = Held(t)
  <2>0. <<"detach", i>> \in performed' /\ wf'["detach"][i] = "DeleteRecord"
    BY <1>0, <1>1, AttemptTypes
  <2>1. CASE t[2] # "route"
    <3>1. Held(t)' = Good("detach", i, t)
      BY <1>2, <2>1 DEF Good, Nothing
    <3>2. Written("detach", i, t)'
      BY <2>0, <2>1 DEF Written
    <3> QED BY <3>1, <3>2
  <2>2. CASE t[2] = "route"
    <3>1. Held(t)' = Held(t) /\ Written("detach", i, t)
      BY <1>1, <1>2, <2>2 DEF Written, First
    <3> QED BY <3>1
  <2> QED BY <2>1, <2>2
<1> QED BY <1>0, <1>3, <1>4, <1>5, AttemptInv

(* A report has come: the next activity is awaited, or none.                *)
LEMMA ReportInv ==
  ASSUME IInv, NEW k \in Kinds, NEW i \in Ids, NEW a \in ActivitiesOf[k] \cup {"none"},
         wf' = [wf EXCEPT ![k][i] = a], performed' = performed \ {<<k, i>>}, Running(k, i),
         UNCHANGED <<row, zoneVars, serviceVars, req, outsideVars, contested>>,
         undone \subseteq undone', undone' \subseteq Ids,
         \A t \in Targets(i) : Counts(t) /\ Right(k, i, t) =>
           IF a # "none" THEN Written(k, i, t)' <=> Written(k, i, t)
                         ELSE Written(k, i, t) \/ (k = "attach" /\ i \in undone')
  PROVE  IInv'
<1>0. /\ Shapes /\ TypeOK
      /\ UNCHANGED <<row, req, zoneVars, zoneRow, zoneServed, live, namespaced, rrset, ingress,
                     contested>>
  BY DEF zoneVars, serviceVars, outsideVars, IInv, Shapes
<1>1. /\ wf' \in [Kinds -> [Ids -> Activities \cup {"none"}]] /\ wf'[k][i] = a
      /\ \A l \in Kinds, j \in Ids : l # k \/ j # i => wf'[l][j] = wf[l][j]
      /\ WfsOK' /\ Frame(i) /\ Present(i)
  BY <1>0, ReportShapes
<1>3. Shapes'
  <2>1. TypeOK'
    BY <1>0, <1>1 DEF TypeOK
  <2> QED BY <1>0, <1>1, <2>1, SameRowsKept, ShapesLeft
<1>4. ASSUME zoneRow, NEW t \in AllTargets \ contested', t \in Targets(i)' PROVE OnTarget(t)'
  <2>0. t \in AllTargets \ contested /\ t \in Targets(i) /\ OnTarget(t)
    BY <1>0, <1>4 DEF IInv, TargetsOK, Targets
  <2>1. Runs(k, i, t) /\ \A l \in Kinds, j \in Ids : Runs(l, j, t) => l = k /\ j = i
    BY <1>0, <2>0 DEF OnTarget, WritersOK, Runs
  <2>2. \A l \in Kinds, j \in Ids : Runs(l, j, t)' <=> l = k /\ j = i /\ a # "none"
    <3>1. \A l \in Kinds, j \in Ids : l # k \/ j # i => (Runs(l, j, t)' <=> Runs(l, j, t))
      BY <1>0, <1>1 DEF Runs, Running, Targets
    <3>2. Runs(k, i, t)' <=> a # "none"
      BY <1>1, <1>4 DEF Runs, Running, ActivitiesOf, Kinds, Activities
    <3> QED BY <2>1, <3>1, <3>2
  <2>3. \A p \in Requests : Works(p, t)' <=> Works(p, t)
    BY <1>0 DEF Works, AtWork, Targets
  <2>4. \A j \in Ids : /\ OnRow(j, t)' <=> OnRow(j, t)
                       /\ Want(j, t)' = Want(j, t)
    BY <1>0 DEF OnRow, Live, Targets, Want
  <2>5. WritersOK(t)'
    <3>1. \A l, m \in Kinds, j, n \in Ids : Runs(l, j, t)' /\ Runs(m, n, t)' => l = m /\ j = n
      BY <2>2
    <3>2. /\ \A q \in Requests : Works(q, t)' => Live(req[q].id)'
          /\ \A j \in Ids : Runs("attach", j, t)' => Live(j)'
      BY <1>0, <2>0, <2>1, <2>2, <2>3 DEF OnTarget, WritersOK, Live, Kinds
    <3>3. \A q \in Requests, l \in Kinds, j \in Ids : Works(q, t)' /\ Runs(l, j, t)' =>
            req'[q].pc = "deleteRow" /\ l = "detach" /\ req'[q].id = j
      BY <1>0, <2>0, <2>1, <2>2, <2>3 DEF OnTarget, WritersOK
    <3>4. \A j, m \in Ids : Runs("detach", j, t)' /\ OnRow(m, t)' => \E q \in Requests : Works(q, t)'
      BY <2>0, <2>1, <2>2, <2>3, <2>4 DEF OnTarget, WritersOK, Kinds
    <3> QED BY <2>0, <2>3, <2>4, <3>1, <3>2, <3>3, <3>4 DEF OnTarget, WritersOK
  <2>6. ASSUME Counts(t)' PROVE ContentOK(t)'
    <3>0. /\ ContentOK(t) /\ Held(t)' = Held(t) /\ Nothing(t)' = Nothing(t) /\ Counts(t)
          /\ Right(k, i, t) /\ Good(k, i, t)' = Good(k, i, t)
          /\ "attach" \in Kinds /\ "detach" \in Kinds
      BY <1>0, <2>0, <2>1, <2>4, <2>6
         DEF OnTarget, ContentOK, Counts, Held, Nothing, Good, Kinds
    <3>1. \A q \in Requests : Works(q, t)' => req'[q].pc = "deleteRow"
      BY <1>0, <2>0, <2>1, <2>3 DEF OnTarget, WritersOK
    <3>2. CASE a # "none"
      <4>1. Right(k, i, t)'
        <5>1. Written(k, i, t)' <=> Written(k, i, t)
          BY <2>0, <3>0, <3>2
        <5> QED BY <3>0, <5>1 DEF Right
      <4>2. Busy(t)' /\ ~Quiet(t)'
        BY <2>2, <3>2 DEF Busy, Quiet, Runs
      <4> QED BY <2>2, <3>1, <4>1, <4>2 DEF ContentOK
    <3>3. CASE a = "none"
      <4>1. IF k = "attach" THEN Shown(i, t)' ELSE Held(t)' = Nothing(t)'
        <5>1. Written(k, i, t) \/ (k = "attach" /\ i \in undone')
          BY <2>0, <3>0, <3>3
        <5> QED BY <2>4, <3>0, <5>1 DEF Right, Good, Shown
      <4>2. Quiet(t)' /\ \A l \in Kinds, j \in Ids : ~Runs(l, j, t)'
        BY <2>2, <3>3 DEF Quiet
      <4>3. CASE k = "attach"
        <5>1. OnRow(i, t) /\ \A q \in Requests : ~Works(q, t)
          BY <2>0, <2>1, <4>3 DEF OnTarget, WritersOK, OnRow
        <5>2. \A j \in Ids : OnRow(j, t) => j = i
          BY <2>0, <5>1 DEF OnTarget, WritersOK
        <5>3. \A j \in Ids : OnRow(j, t)' => Shown(j, t)'
          BY <2>4, <4>1, <4>3, <5>2
        <5>4. ~\A j \in Ids : ~OnRow(j, t)'
          BY <2>4, <5>1
        <5> QED BY <2>3, <4>2, <5>1, <5>3, <5>4 DEF ContentOK
      <4>4. CASE k = "detach"
        <5>1. Held(t)' = Nothing(t)'
          BY <4>1, <4>4
        <5>2. \A j \in Ids : OnRow(j, t)' => Busy(t)'
          <6>1. \A j \in Ids : OnRow(j, t)' => \E q \in Requests : Works(q, t)'
            BY <2>0, <2>1, <2>3, <2>4, <4>4 DEF OnTarget, WritersOK
          <6> QED BY <6>1 DEF Busy, Works
        <5> QED BY <4>2, <5>1, <5>2 DEF ContentOK
      <4> QED BY <4>3, <4>4 DEF Kinds
    <3> QED BY <3>2, <3>3
  <2> QED BY <2>5, <2>6 DEF OnTarget
<1>5. \A t \in AllTargets : Held(t)' = Held(t)
  BY <1>0 DEF Held
<1>6. TargetsOK'
  BY <1>0, <1>1, <1>4, <1>5, OneRow
<1> QED BY <1>3, <1>6 DEF IInv

LEMMA ReportSuccessInv ==
  ASSUME IInv, NEW k \in Kinds, NEW i \in Ids, ReportSuccess(k, i)
  PROVE  IInv'
<1>00. PICK a \in {OnSuccess[wf[k][i]]} : TRUE
  OBVIOUS
<1>0. /\ Running(k, i) /\ <<k, i>> \in performed /\ Shapes /\ TypeOK /\ WfShape(k, i)
      /\ UNCHANGED <<row, zoneVars, serviceVars, req, outsideVars, contested, undone>>
      /\ a = OnSuccess[wf[k][i]]
      /\ wf' = [wf EXCEPT ![k][i] = a] /\ performed' = performed \ {<<k, i>>}
  BY DEF ReportSuccess, historyVars, IInv, Shapes, WfsOK
<1>1. /\ a \in ActivitiesOf[k] \cup {"none"} /\ a # First[k]
      /\ wf[k][i] \in ActivitiesOf[k]
      /\ a = "none" => wf[k][i] \in {"ApplySubdomainIngress", "DeleteRecord"} /\ wf[k][i] # First[k]
      /\ a # "none" => wf[k][i] \notin {"ApplySubdomainIngress", "DeleteRecord"}
  BY <1>0 DEF WfShape, ActivitiesOf, Kinds, OnSuccess, First
<1>2. wf'[k][i] = a
  BY <1>0 DEF TypeOK
<1>3. ASSUME NEW t \in Targets(i)
      PROVE  IF a # "none" THEN Written(k, i, t)' <=> Written(k, i, t) ELSE Written(k, i, t)
  BY <1>0, <1>1, <1>2 DEF Written
<1>4. undone \subseteq Ids
  BY <1>0 DEF TypeOK
<1> QED BY <1>0, <1>1, <1>3, <1>4, ReportInv

(* A report that all attempts have failed.  Only the zone can be missing to *)
(* a detach, and it fails where it would empty the record set.              *)
LEMMA ReportFailureInv ==
  ASSUME IInv, NEW k \in Kinds, NEW i \in Ids, ReportFailure(k, i)
  PROVE  IInv'
<1>0. /\ Running(k, i) /\ <<k, i>> \notin performed /\ Shapes /\ TypeOK /\ WfShape(k, i)
      /\ UNCHANGED <<row, zoneVars, serviceVars, req, outsideVars, contested>>
      /\ ~CanPerform(k, i) /\ GivesUp(i, k = "attach")
      /\ wf' = [wf EXCEPT ![k][i] = "none"] /\ performed' = performed \ {<<k, i>>}
  BY DEF ReportFailure, GivesUp, IInv, Shapes, WfsOK
<1>1. undone \subseteq undone' /\ undone' \subseteq Ids /\ (k = "attach" => i \in undone')
  BY <1>0 DEF GivesUp, TypeOK
<1>2. ASSUME k # "attach", NEW t \in Targets(i), Counts(t) PROVE Written(k, i, t)
  <2>1. k = "detach" /\ wf[k][i] = "DeleteRecord" /\ ~zoneServed
    BY <1>0, <1>2 DEF Kinds, WfShape, ActivitiesOf, CanPerform
  <2>2. t[2] = "route"
    BY <1>2, <2>1 DEF Counts
  <2> QED BY <2>1, <2>2 DEF Written, First
<1> QED BY <1>0, <1>1, <1>2, ReportInv

-----------------------------------------------------------------------------
(* Around the records.                                                      *)

LEMMA EnsureNamespaceInv ==
  ASSUME IInv, NEW s \in Services, EnsureNamespace(s)
  PROVE  IInv'
<1>0. /\ UNCHANGED <<row, zoneVars, live, req, wfVars, outsideVars, historyVars>>
      /\ namespaced' \subseteq Services /\ TypeOK /\ Shapes
  BY DEF EnsureNamespace, IInv, Shapes, TypeOK
<1>1. TypeOK'
  BY <1>0 DEF TypeOK, zoneVars, wfVars, outsideVars, historyVars
<1>2. KeptRows /\ WfsOK'
  BY <1>0, SameRowsKept, WfsOKKept DEF Shapes
<1>3. Shapes'
  BY <1>0, <1>1, <1>2, ShapesLeft
<1>4. TargetsOK'
  BY <1>0, NoWork
<1> QED BY <1>3, <1>4 DEF IInv

LEMMA DeleteServiceInv ==
  ASSUME IInv, NEW s \in Services, DeleteService(s)
  PROVE  IInv'
<1>0. /\ UNCHANGED <<row, zoneVars, zoneRow, zoneServed, req, wfVars, wf, performed, rrset, undone>>
      /\ contested' = contested \cup {<<s, "route">>}
      /\ live' \subseteq Services /\ namespaced' \subseteq Services
      /\ ingress' \in [Services -> Names \cup {NoName}]
      /\ \A u \in Services \ {s} : ingress'[u] = ingress[u]
      /\ TypeOK /\ Shapes
  BY DEF DeleteService, Contest, zoneVars, wfVars, IInv, Shapes, TypeOK
<1>1. Shapes'
  <2>1. TypeOK'
    BY <1>0 DEF TypeOK
  <2>2. WfsOK'
    BY <1>0, SameRowsKept, WfsOKKept DEF Shapes
  <2> QED BY <1>0, <2>1, <2>2, SameRowsKept, ShapesLeft
<1>2. ASSUME zoneRow, NEW t \in AllTargets \ contested' PROVE OnTarget(t)'
  <2>0. t \in AllTargets \ contested /\ OnTarget(t)
    BY <1>0, <1>2 DEF IInv, TargetsOK
  <2>1. Held(t)' = Held(t) /\ Counts(t)' = Counts(t)
    BY <1>0, <1>2, TypesOK DEF Held, AllTargets, Counts
  <2>2. \A i \in Ids : (OnRow(i, t)' <=> OnRow(i, t)) /\ Want(i, t)' = Want(i, t)
    BY <1>0 DEF OnRow, Live, Targets, Want
  <2>3. \A k \in Kinds, i \in Ids : (Runs(k, i, t)' <=> Runs(k, i, t)) /\ (Live(i)' <=> Live(i))
    BY <1>0 DEF Runs, Running, Targets, Live
  <2>4. \A q \in Requests : /\ Works(q, t)' <=> Works(q, t)
                            /\ Live(req[q].id)' <=> Live(req[q].id)
    BY <1>0 DEF Works, AtWork, Targets, Live
  <2>5. Untouched(t)
    BY <1>0, <2>1, <2>2, <2>3, <2>4 DEF Untouched
  <2> QED BY <1>0, <2>0, <2>1, <2>5, UntouchedKept
<1>3. TargetsOK'
  BY <1>0, <1>2 DEF TargetsOK
<1> QED BY <1>1, <1>3 DEF IInv

LEMMA DeleteHostedZoneInv ==
  ASSUME IInv, DeleteHostedZone
  PROVE  IInv'
<1>0. /\ row' = [i \in Ids |-> IF Live(i) THEN [row[i] EXCEPT !.state = "removed"] ELSE row[i]]
      /\ zoneRow' = FALSE
      /\ UNCHANGED <<zoneServed, live, namespaced, req, wfVars, wf, performed, rrset, ingress,
                     contested, undone>>
      /\ TypeOK /\ Shapes
  BY DEF DeleteHostedZone, serviceVars, historyVars, wfVars, outsideVars, IInv, Shapes
<1>1. KeptRows
  <2>1. ASSUME NEW i \in Ids
        PROVE  /\ row'[i] \in RowType /\ (Present(i)' => Present(i)) /\ (Present(i) => SameRow(i))
    <3>1. row[i] \in RowType
      BY <1>0, RowTypes
    <3>2. CASE Live(i)
      <4> DEFINE r == [row[i] EXCEPT !.state = "removed"]
      <4>1. /\ r \in RowType /\ r.state = "removed"
            /\ r.name = row[i].name /\ r.type = row[i].type /\ r.content = row[i].content
            /\ r.managed = row[i].managed /\ r.service = row[i].service
        BY <3>1 DEF RowType
      <4>2. row'[i] = r
        BY <1>0, <3>2
      <4> HIDE DEF r
      <4> QED BY <3>2, <4>1, <4>2 DEF SameRow, Present, Live
    <3>3. CASE ~Live(i)
      <4>1. row'[i] = row[i]
        BY <1>0, <3>3
      <4> QED BY <3>1, <4>1 DEF SameRow, Present
    <3> QED BY <3>2, <3>3
  <2>2. row' \in [Ids -> RowType]
    BY <1>0, <2>1
  <2> QED BY <2>1, <2>2 DEF KeptRows
<1>2. Shapes'
  <2>1. TypeOK'
    BY <1>0, <1>1 DEF TypeOK, KeptRows
  <2>2. WfsOK'
    BY <1>0, <1>1, WfsOKKept DEF Shapes
  <2> QED BY <1>0, <1>1, <2>1, <2>2, ShapesLeft
<1>3. TargetsOK'
  BY <1>0 DEF TargetsOK
<1> QED BY <1>2, <1>3 DEF IInv

LEMMA DeleteZoneInv ==
  ASSUME IInv, DeleteZone
  PROVE  IInv'
<1>0. /\ UNCHANGED <<row, zoneRow, live, namespaced, req, wfVars, wf, performed, ingress,
                     contested, undone>>
      /\ rrset' = [n \in Names |-> [t \in Types |-> NoContent]] /\ zoneServed' = FALSE
      /\ TypeOK /\ Shapes /\ zoneServed
  BY DEF DeleteZone, serviceVars, historyVars, wfVars, IInv, Shapes
<1>1. Shapes'
  <2>1. TypeOK'
    BY <1>0 DEF TypeOK
  <2>2. WfsOK'
    BY <1>0, SameRowsKept, WfsOKKept DEF Shapes
  <2> QED BY <1>0, <2>1, <2>2, SameRowsKept, ShapesLeft
<1>2. ASSUME zoneRow, NEW t \in AllTargets \ contested' PROVE OnTarget(t)'
  <2>0. t \in AllTargets \ contested /\ OnTarget(t)
    BY <1>0, <1>2 DEF IInv, TargetsOK
  <2>1. Counts(t) /\ (Counts(t)' => Held(t)' = Held(t))
    BY <1>0 DEF Held, Counts
  <2>2. \A i \in Ids : (OnRow(i, t)' <=> OnRow(i, t)) /\ Want(i, t)' = Want(i, t)
    BY <1>0 DEF OnRow, Live, Targets, Want
  <2>3. \A k \in Kinds, i \in Ids : (Runs(k, i, t)' <=> Runs(k, i, t)) /\ (Live(i)' <=> Live(i))
    BY <1>0 DEF Runs, Running, Targets, Live
  <2>4. \A q \in Requests : /\ Works(q, t)' <=> Works(q, t)
                            /\ Live(req[q].id)' <=> Live(req[q].id)
    BY <1>0 DEF Works, AtWork, Targets, Live
  <2>5. Untouched(t)
    BY <1>0, <2>1, <2>2, <2>3, <2>4 DEF Untouched
  <2> QED BY <1>0, <2>0, <2>1, <2>5, UntouchedKept
<1>3. TargetsOK'
  BY <1>0, <1>2 DEF TargetsOK
<1> QED BY <1>1, <1>3 DEF IInv

-----------------------------------------------------------------------------
(* The theorems.                                                            *)

LEMMA InitInv == Init => IInv
<1> SUFFICES ASSUME Init PROVE IInv
  OBVIOUS
<1>1. /\ row = [i \in Ids |-> Absent] /\ zoneRow = TRUE /\ zoneServed = TRUE
      /\ live = Services /\ namespaced = {} /\ undone = {} /\ req = [q \in Requests |-> Idle]
      /\ wf = [k \in Kinds |-> [i \in Ids |-> "none"]] /\ performed = {}
      /\ rrset = [n \in Names |-> [t \in Types |-> NoContent]]
      /\ ingress = [s \in Services |-> NoName] /\ contested = {}
  BY DEF Init
<1>2. Absent \in RowType /\ Absent.state = "absent" /\ Idle \in ReqType /\ Idle.pc = "idle"
  BY TypesOK DEF Absent, RowType, Idle, ReqType, Pcs
<1>3. TypeOK
  BY <1>1, <1>2 DEF TypeOK
<1>4. /\ \A i \in Ids : ~Present(i) /\ ~Live(i)
      /\ \A q \in Requests : ~AtWork(q) /\ req[q].pc = "idle"
      /\ \A k \in Kinds, i \in Ids : ~Running(k, i)
  BY <1>1, <1>2 DEF Present, Live, AtWork, Running, Activities
<1>5. Shapes
  BY <1>1, <1>3, <1>4 DEF Shapes, RowsOK, ReqsOK, ReqShape, WfsOK, WfShape, Kinds
<1>6. ASSUME NEW t \in AllTargets PROVE OnTarget(t)
  <2>1. /\ \A i \in Ids : ~OnRow(i, t)
        /\ \A q \in Requests : ~Works(q, t)
        /\ \A k \in Kinds, i \in Ids : ~Runs(k, i, t)
    BY <1>4 DEF OnRow, Works, Runs
  <2>2. Held(t) = Nothing(t)
    BY <1>1, TypesOK DEF Held, Nothing, AllTargets
  <2>3. "attach" \in Kinds /\ "detach" \in Kinds
    BY DEF Kinds
  <2> QED BY <2>1, <2>2, <2>3 DEF OnTarget, WritersOK, ContentOK
<1> QED BY <1>5, <1>6 DEF IInv, TargetsOK

LEMMA NextInv == IInv /\ [Next]_vars => IInv'
<1> SUFFICES ASSUME IInv, [Next]_vars PROVE IInv'
  OBVIOUS
<1>1. CASE UNCHANGED vars
  <2>1. UNCHANGED <<row, zoneVars, zoneRow, zoneServed, live, namespaced, req, wfVars, wf,
                    performed, outsideVars, rrset, ingress, historyVars, contested, undone>>
    BY <1>1 DEF vars, zoneVars, serviceVars, wfVars, outsideVars, historyVars
  <2>2. TargetsOK'
    BY <2>1, NoWork
  <2>3. Shapes'
    <3>1. TypeOK' /\ TypeOK
      BY <2>1 DEF IInv, Shapes, TypeOK
    <3>2. WfsOK'
      BY <2>1, <3>1, SameRowsKept, WfsOKKept DEF IInv, Shapes
    <3> QED BY <2>1, <3>1, <3>2, SameRowsKept, ShapesLeft DEF IInv
  <2> QED BY <2>2, <2>3 DEF IInv
<1>2. CASE \E q \in Requests : RequestStep(q)
  <2> PICK q \in Requests : RequestStep(q)
    BY <1>2
  <2>1. CASE \/ \E s \in Services, n \in Names : AddCustomDomain(q, s, n)
             \/ \E s \in Services : RemoveCustomDomain(q, s)
    BY <2>1, AddCustomDomainInv, RemoveCustomDomainInv
  <2>2. CASE \E n \in Names, t \in Types, c \in Contents : AddDnsRecord(q, n, t, c)
    BY <2>2, AddDnsRecordInv
  <2>3. CASE \E i \in Ids : InsertDomain(q, i) \/ InsertRecord(q, i) \/ DeleteUserRecord(q, i)
    BY <2>3, InsertDomainInv, InsertRecordInv, DeleteUserRecordInv
  <2>4. CASE InsertFails(q) \/ StartAttach(q) \/ StartDetach(q)
    BY <2>4, InsertFailsInv, StartAttachInv, StartDetachInv
  <2>5. CASE \/ SyncRecord(q) \/ DeleteRrset(q) \/ DeleteDnsRecord(q)
             \/ SyncFails(q) \/ RequestAborts(q)
    BY <2>5, SyncRecordInv, DeleteRrsetInv, DeleteDnsRecordInv, SyncFailsInv, RequestAbortsInv
  <2> QED BY <2>1, <2>2, <2>3, <2>4, <2>5 DEF RequestStep
<1>3. CASE \E i \in Ids : ActivityStep(i)
  BY <1>3, UpsertRecordInv, EnsureRedirectMiddlewareInv, ApplySubdomainIngressInv,
     DeleteIngressInv, DeleteRecordInv DEF ActivityStep
<1>4. CASE \E i \in Ids, k \in Kinds :
             ReportSuccess(k, i) \/ ReportFailure(k, i) \/ ReportFault(k, i)
  BY <1>4, ReportSuccessInv, ReportFailureInv, ReportFaultInv
<1>5. CASE \/ \E s \in Services : EnsureNamespace(s) \/ DeleteService(s)
           \/ DeleteHostedZone \/ DeleteZone
  BY <1>5, EnsureNamespaceInv, DeleteServiceInv, DeleteHostedZoneInv, DeleteZoneInv
<1> QED BY <1>1, <1>2, <1>3, <1>4, <1>5 DEF Next

(* Every variable has its type.                                             *)
THEOREM TypesHold == Spec => []TypeOK
<1>1. IInv => TypeOK
  BY DEF IInv, Shapes
<1> QED BY <1>1, InitInv, NextInv, PTL DEF Spec

(* What is recorded is served: a record set and a route on which no two     *)
(* writers met and which no fault touched hold what the table says whenever *)
(* nobody is at work on them, however the workflows of one row interleave   *)
(* with the requests and the workflows of others; they hold nothing if the  *)
(* row could not be written.                                                *)
THEOREM ServedAsRecordedHolds == Spec => []ServedAsRecorded
<1>1. ASSUME IInv, zoneRow, NEW t \in AllTargets \ contested, Counts(t), ~Busy(t)
      PROVE  /\ (\A i \in Ids : ~OnRow(i, t)) => Held(t) = Nothing(t)
             /\ \A i \in Ids : OnRow(i, t) => Shown(i, t)
             /\ \A i, j \in Ids : OnRow(i, t) /\ OnRow(j, t) => i = j
  BY <1>1 DEF IInv, TargetsOK, OnTarget, ContentOK, WritersOK
<1>2. IInv => RecordSetsMatch
  <2> SUFFICES ASSUME IInv, zoneRow, zoneServed, NEW n \in Names, NEW t \in Types,
                      <<n, t>> \notin contested, ~Busy(<<n, t>>)
               PROVE  LET rows == {i \in Ids : Live(i) /\ <<n, t>> \in Targets(i)} IN
                      rrset[n][t] \in {row[i].content : i \in rows}
                                        \cup (IF rows \subseteq undone THEN {NoContent} ELSE {})
    BY DEF RecordSetsMatch
  <2> DEFINE rows == {i \in Ids : Live(i) /\ <<n, t>> \in Targets(i)}
  <2>1. /\ (\A i \in Ids : ~OnRow(i, <<n, t>>)) => Held(<<n, t>>) = Nothing(<<n, t>>)
        /\ \A i \in Ids : OnRow(i, <<n, t>>) => Shown(i, <<n, t>>)
        /\ \A i, j \in Ids : OnRow(i, <<n, t>>) /\ OnRow(j, <<n, t>>) => i = j
    BY <1>1 DEF AllTargets, Counts
  <2>2. /\ t # "route" /\ Held(<<n, t>>) = rrset[n][t] /\ Nothing(<<n, t>>) = NoContent
        /\ \A i \in Ids : Want(i, <<n, t>>) = row[i].content
    BY TypesOK DEF Held, Nothing, Want
  <2>3. CASE rows = {}
    BY <2>1, <2>2, <2>3 DEF OnRow
  <2>4. CASE rows # {}
    <3>1. PICK i \in rows : rows = {i}
      BY <2>1, <2>4 DEF OnRow
    <3>2. Shown(i, <<n, t>>)
      BY <2>1 DEF OnRow
    <3> QED BY <2>2, <3>1, <3>2 DEF Shown
  <2> QED BY <2>3, <2>4
<1>3. IInv => RoutesMatch
  <2> SUFFICES ASSUME IInv, zoneRow, NEW s \in Services,
                      <<s, "route">> \notin contested, ~Busy(<<s, "route">>)
               PROVE  LET rows == {i \in Ids : Live(i) /\ <<s, "route">> \in Targets(i)} IN
                      ingress[s] \in {row[i].name : i \in rows}
                                       \cup (IF rows \subseteq undone THEN {NoName} ELSE {})
    BY DEF RoutesMatch
  <2> DEFINE rows == {i \in Ids : Live(i) /\ <<s, "route">> \in Targets(i)}
  <2>1. /\ (\A i \in Ids : ~OnRow(i, <<s, "route">>))
             => Held(<<s, "route">>) = Nothing(<<s, "route">>)
        /\ \A i \in Ids : OnRow(i, <<s, "route">>) => Shown(i, <<s, "route">>)
        /\ \A i, j \in Ids : OnRow(i, <<s, "route">>) /\ OnRow(j, <<s, "route">>) => i = j
    BY <1>1 DEF AllTargets, Counts
  <2>2. /\ Held(<<s, "route">>) = ingress[s] /\ Nothing(<<s, "route">>) = NoName
        /\ \A i \in Ids : Want(i, <<s, "route">>) = row[i].name
    BY DEF Held, Nothing, Want
  <2>3. CASE rows = {}
    BY <2>1, <2>2, <2>3 DEF OnRow
  <2>4. CASE rows # {}
    <3>1. PICK i \in rows : rows = {i}
      BY <2>1, <2>4 DEF OnRow
    <3>2. Shown(i, <<s, "route">>)
      BY <2>1 DEF OnRow
    <3> QED BY <2>2, <3>1, <3>2 DEF Shown
  <2> QED BY <2>3, <2>4
<1>4. IInv => ServedAsRecorded
  BY <1>2, <1>3 DEF ServedAsRecorded
<1> QED BY <1>4, InitInv, NextInv, PTL DEF Spec

-----------------------------------------------------------------------------
(* Domains.                                                                 *)

(* A domain that nobody contests is served, or its own attach runs, or a    *)
(* request is at work on its row, or one of its calls could not succeed.    *)
(* None waits for a workflow of another row: an attach that has closed has  *)
(* served its domain or given up, and no late detach undoes that.           *)
THEOREM DomainsAreServedOrAttended == Spec => []DomainsComeLive
<1>1. ASSUME IInv, NEW i \in Ids, Attached(i), zoneRow, zoneServed,
             Targets(i) \cap contested = {}, ~Running("attach", i), i \notin undone,
             ~\E q \in Requests : AtWork(q) /\ req[q].id = i
      PROVE  Served(i)
  <2>1. /\ row[i].name \in Names /\ row[i].type = "A" /\ row[i].service \in Services
        /\ row[i].managed /\ Live(i)
    BY <1>1 DEF Attached, IInv, Shapes, RowsOK, RowShape, Present, Live
  <2>2. Targets(i) = {<<row[i].name, "A">>, <<row[i].service, "route">>}
    BY <2>1 DEF Targets
  <2>3. Targets(i) \subseteq AllTargets \ contested
    BY <1>1, <2>1, <2>2, TypesOK DEF AllTargets
  <2>4. ASSUME NEW t \in Targets(i) PROVE Held(t) = Want(i, t)
    <3>1. WritersOK(t) /\ ContentOK(t) /\ OnRow(i, t)
      BY <1>1, <2>1, <2>3 DEF IInv, TargetsOK, OnTarget, Counts, OnRow
    <3>2. ASSUME NEW q \in Requests, Works(q, t) PROVE FALSE
      <4>1. req[q].id \in Ids /\ Live(req[q].id)
        BY <1>1, <3>1, <3>2 DEF WritersOK, Works, IInv, Shapes, ReqsOK, ReqShape
      <4>2. req[q].id = i
        BY <3>1, <3>2, <4>1 DEF WritersOK, Works, OnRow
      <4> QED BY <1>1, <3>2, <4>2 DEF Works
    <3>3. ASSUME NEW j \in Ids, Runs("attach", j, t) PROVE FALSE
      <4>1. j = i
        BY <3>1, <3>3 DEF WritersOK, Runs, OnRow
      <4> QED BY <1>1, <3>3, <4>1 DEF Runs
    <3>4. ASSUME NEW j \in Ids, Runs("detach", j, t) PROVE FALSE
      BY <3>1, <3>2, <3>4 DEF WritersOK
    <3>5. ~Busy(t)
      BY <3>2, <3>3, <3>4, BusyIs DEF Quiet, Kinds
    <3> QED BY <1>1, <3>1, <3>5 DEF ContentOK, Shown
  <2>5. rrset[row[i].name]["A"] = row[i].content
    <3>1. Held(<<row[i].name, "A">>) = Want(i, <<row[i].name, "A">>)
      BY <2>2, <2>4
    <3> QED BY <3>1 DEF Held, Want
  <2>6. ingress[row[i].service] = row[i].name
    <3>1. Held(<<row[i].service, "route">>) = Want(i, <<row[i].service, "route">>)
      BY <2>2, <2>4
    <3> QED BY <3>1 DEF Held, Want
  <2> QED BY <1>1, <2>5, <2>6 DEF Served
<1>2. IInv => DomainsComeLive
  BY <1>1 DEF DomainsComeLive
<1> QED BY <1>2, InitInv, NextInv, PTL DEF Spec

LEMMA ReportDescends ==
  ASSUME TypeOK, NEW k \in Kinds, NEW i \in Ids,
         ReportSuccess(k, i) \/ ReportFailure(k, i) \/ ReportFault(k, i)
  PROVE  /\ ActivitiesLeft[wf'[k][i]] < ActivitiesLeft[wf[k][i]]
         /\ \A l \in Kinds, j \in Ids : l # k \/ j # i => wf'[l][j] = wf[l][j]
<1>1. PICK a \in {OnSuccess[wf[k][i]], "none"} : wf' = [wf EXCEPT ![k][i] = a]
  BY DEF ReportSuccess, ReportFailure, ReportFault
<1>2. wf'[k][i] = a /\ \A l \in Kinds, j \in Ids : l # k \/ j # i => wf'[l][j] = wf[l][j]
  BY <1>1 DEF TypeOK
<1>3. wf[k][i] \in Activities
  BY DEF ReportSuccess, ReportFailure, ReportFault, Running
<1>4. ASSUME NEW c \in Activities
      PROVE  /\ ActivitiesLeft[OnSuccess[c]] < ActivitiesLeft[c]
             /\ ActivitiesLeft["none"] < ActivitiesLeft[c]
  BY DEF Activities, ActivitiesLeft, OnSuccess
<1> QED BY <1>2, <1>3, <1>4

LEMMA StartsDescend ==
  ASSUME TypeOK, NEW l \in Kinds, NEW j \in Ids, ExecuteWorkflow(l, j),
         NEW k \in Kinds, NEW i \in Ids, Running(k, i)
  PROVE  wf'[k][i] = wf[k][i]
  BY StartTypes

(* Each report brings a workflow nearer to its end, and nothing else moves  *)
(* it: a request that executes it again joins it where it is.               *)
THEOREM RecordWorkflowsDescend == Spec => WorkflowsDescend
<1>1. ASSUME IInv, [Next]_vars, NEW k \in Kinds, NEW i \in Ids, Running(k, i)
      PROVE  \/ wf'[k][i] = wf[k][i]
             \/ ActivitiesLeft[wf'[k][i]] < ActivitiesLeft[wf[k][i]]
  <2> USE DEF IInv, Shapes
  <2>1. CASE wf' = wf
    BY <2>1
  <2>2. CASE \E j \in Ids, l \in Kinds :
               ReportSuccess(l, j) \/ ReportFailure(l, j) \/ ReportFault(l, j)
    <3>1. PICK j \in Ids, l \in Kinds :
           ReportSuccess(l, j) \/ ReportFailure(l, j) \/ ReportFault(l, j)
      BY <2>2
    <3>2. CASE l = k /\ j = i
      BY <1>1, <3>1, <3>2, ReportDescends
    <3>3. CASE l # k \/ j # i
      BY <1>1, <3>1, <3>3, ReportDescends
    <3> QED BY <3>2, <3>3
  <2>3. ASSUME NEW q \in Requests, StartAttach(q) \/ StartDetach(q)
        PROVE  wf'[k][i] = wf[k][i]
    <3>1. req[q].id \in Ids
      BY <1>1, <2>3 DEF StartAttach, StartDetach, ReqsOK, ReqShape, AtWork
    <3>2. \E l \in Kinds : ExecuteWorkflow(l, req[q].id)
      BY <2>3 DEF StartAttach, StartDetach, Kinds
    <3> QED BY <1>1, <3>1, <3>2, StartsDescend
  <2>4. ASSUME NEW q \in Requests, RequestStep(q), ~StartAttach(q), ~StartDetach(q)
        PROVE  wf' = wf
    BY <2>4 DEF RequestStep, AddCustomDomain, RemoveCustomDomain, AddDnsRecord, InsertDomain,
       InsertRecord, DeleteUserRecord, InsertFails, SyncRecord, DeleteRrset, DeleteDnsRecord,
       SyncFails, RequestAborts, wfVars
  <2>5. ASSUME NEW j \in Ids, ActivityStep(j) PROVE wf' = wf
    BY <2>5 DEF ActivityStep, UpsertRecord, EnsureRedirectMiddleware, ApplySubdomainIngress,
       DeleteIngress, DeleteRecord, Attempt
  <2>6. CASE \/ \E s \in Services : EnsureNamespace(s) \/ DeleteService(s)
             \/ DeleteHostedZone \/ DeleteZone \/ UNCHANGED vars
    BY <2>1, <2>6 DEF EnsureNamespace, DeleteService, DeleteHostedZone, DeleteZone, wfVars, vars
  <2> QED BY <1>1, <2>1, <2>2, <2>3, <2>4, <2>5, <2>6 DEF Next
<1>2. IInv /\ [Next]_vars =>
        [\A k \in Kinds, i \in Ids : Running(k, i) =>
           \/ wf'[k][i] = wf[k][i]
           \/ ActivitiesLeft[wf'[k][i]] < ActivitiesLeft[wf[k][i]]]_vars
  BY <1>1
<1> QED BY <1>2, InitInv, NextInv, PTL DEF Spec, WorkflowsDescend

=============================================================================
