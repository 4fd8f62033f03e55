------------------------- MODULE RequestPath_proofs --------------------------
(***************************************************************************)
(* Proofs about what concurrent requests share on their way through the    *)
(* proxy, for any number of requests and contexts, any pipeline, any       *)
(* tenant lists and any secrets.                                           *)
(***************************************************************************)
EXTENDS RequestPath, TLAPS, FiniteSetTheorems, SequenceTheorems, WellFoundedInduction

Cell == Requests \cup {Zero}

Buffer == {b \in [cells : Seq(Cell), len : Nat] : b.len <= Len(b.cells)}

\* The variables of the handlers and of the pool have their types.
PathTypes ==
    /\ raw \in [Contexts -> Buffer]
    /\ clean \in [Contexts -> Buffer]
    /\ violations \in [Contexts -> Buffer]
    /\ marks \in [Contexts -> [Fields -> Requests \cup {Nobody}]]
    /\ pool \subseteq Contexts
    /\ alias \in [Requests -> [at : Contexts \cup {NoContext}, kept : Seq(Cell), len : Nat]]
    /\ rpc \in [Requests -> Places]
    /\ ctx \in [Requests -> Contexts \cup {NoContext}]
    /\ stage \in [Requests -> 1 .. Len(Pipeline) + 1]
    /\ wire = [r \in Requests |-> wire[r]]
    /\ approved \in [Requests -> SUBSET (1 .. Len(Pipeline))]

-----------------------------------------------------------------------------
\* Every byte of a held buffer up to its length is r's, and the rest of its
\* array is zero: the wipe up to the length leaves nothing.
Owned(b, r) ==
    \A i \in 1 .. Len(b.cells) : b.cells[i] = IF i <= b.len THEN r ELSE Zero

\* What is read of a buffer, up to its length, is r's.
Shown(b, r) == \A i \in 1 .. b.len : b.cells[i] = r

HoldsOwn(r) ==
    /\ ctx[r] \in Contexts
    /\ ctx[r] \notin pool
    /\ \A q \in Requests \ {r} : Serving(q) => ctx[q] # ctx[r]
    /\ Owned(raw[ctx[r]], r) /\ Owned(clean[ctx[r]], r) /\ Shown(violations[ctx[r]], r)
    /\ \A f \in Fields : marks[ctx[r]][f] \in {r, Nobody}
    /\ \A f \in {"std", "identity", "request"} : marks[ctx[r]][f] = r

\* Nothing has been sent.
Unsent(r) == alias[r].at = NoContext /\ alias[r].len = 0 /\ wire[r] = {}

\* While the handler holds the context, the body reader reads its array.
ReadsOwn(r) ==
    /\ wire[r] \subseteq {r}
    /\ \/ Unsent(r)
       \/ alias[r].at = ctx[r] /\ alias[r].len <= clean[ctx[r]].len

PoolPart(r) ==
    /\ Serving(r) => HoldsOwn(r)
    /\ rpc[r] \in {"auth", "body", "pipeline", "forward"} => Unsent(r)
    /\ rpc[r] \in {"await", "release"} => ReadsOwn(r)

PoolView == PoolKeepsNoPayload /\ \A r \in Requests : PoolPart(r)

-----------------------------------------------------------------------------
\* The fail-closed stages before the n-th have let r pass.
ApprovedBefore(r, n) ==
    \A i \in 1 .. Len(Pipeline) : i < n /\ Pipeline[i].failClosed => i \in approved[r]

InspectPart(r) ==
    /\ rpc[r] \in {"auth", "body"} => stage[r] = 1
    /\ rpc[r] = "pipeline" => ApprovedBefore(r, stage[r])
    /\ rpc[r] \in {"forward", "await"} \/ alias[r].len > 0 \/ wire[r] # {} =>
           ApprovedBefore(r, Len(Pipeline) + 1)

InspectView == \A r \in Requests : InspectPart(r)

\* Store is called by the scanner's stage only.
CallView == \A r \in Requests : call[r] # NoCall => Running(r, "redact")

-----------------------------------------------------------------------------
\* A pointer into an array that was in use.
IsPointer(p) ==
    /\ p[1] \in 1 .. Len(arrays)
    /\ p[2] \in 1 .. Len(arrays[p[1]].entries)

TenantPart(r) ==
    /\ rpc[r] = "body" => /\ IsPointer(tc[r]) /\ Deref(tc[r]) = verified[r]
                          /\ verified[r] \in Tenants /\ verified[r].enabled
    /\ Serving(r) => /\ verified[r] \in Tenants /\ verified[r].enabled
                     /\ tenant[r] = verified[r].id

TenantView ==
    /\ arrays \in Seq([entries : Seq(Tenants), cap : Nat])
    /\ current \in 1 .. Len(arrays)
    /\ tenant \in [Requests -> Seq(STRING)]
    /\ verified \in [Requests -> Tenants \cup {NoTenant}]
    /\ tc = [r \in Requests |-> tc[r]]
    /\ \A r \in Requests : TenantPart(r)

-----------------------------------------------------------------------------
(***************************************************************************)
(* Buffers                                                                 *)
(***************************************************************************)
LEMMA FunctionIsSeq ==
    ASSUME NEW n \in Nat, NEW S, NEW f \in [1 .. n -> S]
    PROVE  f \in Seq(S) /\ Len(f) = n
  OBVIOUS

LEMMA BufferParts ==
    ASSUME NEW b \in Buffer
    PROVE  /\ b.cells \in Seq(Cell) /\ b.len \in Nat /\ b.len <= Len(b.cells)
           /\ Len(b.cells) \in Nat /\ DOMAIN b.cells = 1 .. Len(b.cells)
           /\ \A i \in 1 .. Len(b.cells) : b.cells[i] \in Cell
<1>1. b.cells \in Seq(Cell) /\ b.len \in Nat /\ b.len <= Len(b.cells)
  BY DEF Buffer
<1> QED
  BY <1>1, LenProperties, ElementOfSeq

\* A buffer made of an array of n cells.
LEMMA BufferIntro ==
    ASSUME NEW n \in Nat, NEW f \in [1 .. n -> Cell], NEW k \in Nat, k <= n
    PROVE  [cells |-> f, len |-> k] \in Buffer
<1>1. f \in Seq(Cell) /\ Len(f) = n
  BY FunctionIsSeq
<1> QED
  BY <1>1 DEF Buffer

LEMMA NewIsBlank ==
    ASSUME NEW n \in Nat
    PROVE  NewBuffer(n) \in Buffer /\ Blank(NewBuffer(n)) /\ NewBuffer(n).len = 0
<1> DEFINE f == [i \in 1 .. n |-> Zero]
<1>1. f \in [1 .. n -> Cell]
  BY DEF Cell
<1>2. [cells |-> f, len |-> 0] \in Buffer
  BY <1>1, BufferIntro
<1> QED
  BY <1>2 DEF NewBuffer, Blank

LEMMA FreshIsBlank == Fresh \in Buffer /\ Blank(Fresh)
  BY NewIsBlank, PoolAssumption DEF Fresh

LEMMA NoViolationsFacts == NoViolations \in Buffer /\ NoViolations.len = 0
  BY NewIsBlank, PoolAssumption DEF NoViolations

\* buf[:0] is blank only if buf is.
LEMMA EmptiedFacts ==
    ASSUME NEW b \in Buffer
    PROVE  /\ Emptied(b) \in Buffer /\ Emptied(b).len = 0
           /\ Blank(b) => Blank(Emptied(b))
           /\ \A r : Shown(Emptied(b), r)
<1>1. b.cells \in Seq(Cell) /\ Len(b.cells) \in Nat
  BY BufferParts
<1>2. Emptied(b) = [cells |-> b.cells, len |-> 0]
  BY DEF Emptied, Buffer
<1>3. [cells |-> b.cells, len |-> 0] \in Buffer
  BY <1>1 DEF Buffer
<1> QED
  BY <1>2, <1>3 DEF Blank, Shown

\* What is blank belongs to whoever takes it.
LEMMA BlankIsOwned == ASSUME NEW b \in Buffer, Blank(b), NEW r PROVE Owned(b, r)
  BY BufferParts DEF Blank, Owned

LEMMA AppendedCells ==
    ASSUME NEW b \in Buffer, NEW r \in Requests, NEW n \in Nat
    PROVE  LET a == Appended(b, r, n)
           IN  /\ a \in Buffer /\ a.len = b.len + n
               /\ a.len < Len(a.cells) => Len(a.cells) = Len(b.cells)
               /\ \A i \in 1 .. Len(a.cells) :
                      a.cells[i] = IF i \in b.len + 1 .. b.len + n THEN r ELSE b.cells[i]
<1>1. /\ b.len \in Nat /\ Len(b.cells) \in Nat /\ b.len <= Len(b.cells)
      /\ \A i \in 1 .. Len(b.cells) : b.cells[i] \in Cell
  BY BufferParts
<1> DEFINE k == IF Fits(b, n) THEN Len(b.cells) ELSE b.len + n
           f == [i \in 1 .. k |-> IF i \in b.len + 1 .. b.len + n THEN r ELSE b.cells[i]]
<1>2. k \in Nat /\ b.len + n <= k /\ b.len + n \in Nat
      /\ (k # Len(b.cells) => k = b.len + n)
  BY <1>1 DEF Fits
<1>3. Appended(b, r, n) = [cells |-> f, len |-> b.len + n]
  BY DEF Appended
<1> HIDE DEF k
<1>4. ASSUME NEW i \in 1 .. k PROVE f[i] \in Cell
  <2>1. CASE i \in b.len + 1 .. b.len + n
    BY <2>1 DEF Cell
  <2>2. CASE i \notin b.len + 1 .. b.len + n
    <3>1. i \in 1 .. Len(b.cells)
      BY <2>2, <1>1, <1>2
    <3> QED
      BY <2>2, <3>1, <1>1
  <2> QED
    BY <2>1, <2>2
<1>5. f \in [1 .. k -> Cell] /\ \A i \in 1 .. k :
          f[i] = IF i \in b.len + 1 .. b.len + n THEN r ELSE b.cells[i]
  BY <1>4
<1> HIDE DEF f
<1>6. [cells |-> f, len |-> b.len + n] \in Buffer /\ Len(f) = k
  BY <1>2, <1>5, BufferIntro, FunctionIsSeq
<1> QED
  BY <1>2, <1>3, <1>5, <1>6

LEMMA AppendedIsOwned ==
    ASSUME NEW b \in Buffer, NEW r \in Requests, Owned(b, r), NEW n \in Nat
    PROVE  Appended(b, r, n) \in Buffer /\ Owned(Appended(b, r, n), r)
<1> DEFINE a == Appended(b, r, n)
<1>1. b.len \in Nat /\ Len(b.cells) \in Nat /\ b.len <= Len(b.cells)
  BY BufferParts
<1>2. /\ a \in Buffer /\ a.len = b.len + n
      /\ a.len < Len(a.cells) => Len(a.cells) = Len(b.cells)
      /\ \A i \in 1 .. Len(a.cells) :
             a.cells[i] = IF i \in b.len + 1 .. b.len + n THEN r ELSE b.cells[i]
  BY AppendedCells
<1>3. Len(a.cells) \in Nat /\ a.len <= Len(a.cells)
  BY <1>2, BufferParts
<1> HIDE DEF a
<1>4. ASSUME NEW i \in 1 .. Len(a.cells)
      PROVE  a.cells[i] = IF i <= a.len THEN r ELSE Zero
  <2>1. CASE i \in b.len + 1 .. b.len + n
    BY <2>1, <1>1, <1>2
  <2>2. CASE i <= b.len
    BY <2>2, <1>1, <1>2 DEF Owned
  <2>3. CASE i > b.len + n
    BY <2>3, <1>1, <1>2, <1>3 DEF Owned
  <2> QED
    BY <2>1, <2>2, <2>3, <1>1
<1>5. a \in Buffer /\ Owned(a, r)
  BY <1>2, <1>4 DEF Owned
<1> QED
  BY <1>5 DEF a

LEMMA AppendedIsShown ==
    ASSUME NEW b \in Buffer, NEW r \in Requests, Shown(b, r), NEW n \in Nat
    PROVE  Appended(b, r, n) \in Buffer /\ Shown(Appended(b, r, n), r)
<1> DEFINE a == Appended(b, r, n)
<1>1. b.len \in Nat
  BY BufferParts
<1>2. /\ a \in Buffer /\ a.len = b.len + n
      /\ \A i \in 1 .. Len(a.cells) :
             a.cells[i] = IF i \in b.len + 1 .. b.len + n THEN r ELSE b.cells[i]
  BY AppendedCells
<1>3. Len(a.cells) \in Nat /\ a.len <= Len(a.cells)
  BY <1>2, BufferParts
<1> HIDE DEF a
<1>4. \A i \in 1 .. a.len : a.cells[i] = r
  BY <1>1, <1>2, <1>3 DEF Shown
<1>5. a \in Buffer /\ Shown(a, r)
  BY <1>2, <1>4 DEF Shown
<1> QED
  BY <1>5 DEF a

LEMMA CopiedIsOwned ==
    ASSUME NEW b \in Buffer, NEW r \in Requests, Owned(b, r), NEW n \in 0 .. b.len
    PROVE  Copied(b, n) \in Buffer /\ Owned(Copied(b, n), r)
<1>1. /\ b.len \in Nat /\ Len(b.cells) \in Nat /\ b.len <= Len(b.cells)
      /\ \A i \in 1 .. Len(b.cells) : b.cells[i] \in Cell
  BY BufferParts
<1> DEFINE f == [i \in 1 .. b.len |-> IF i <= n THEN b.cells[i] ELSE Zero]
<1>2. Copied(b, n) = [cells |-> f, len |-> n]
  BY DEF Copied
<1>3. ASSUME NEW i \in 1 .. b.len
      PROVE  f[i] = (IF i <= n THEN r ELSE Zero) /\ f[i] \in Cell
  BY <1>1 DEF Owned, Cell
<1>4. f \in [1 .. b.len -> Cell]
  BY <1>3
<1> HIDE DEF f
<1>5. [cells |-> f, len |-> n] \in Buffer /\ Len(f) = b.len
  BY <1>1, <1>4, BufferIntro, FunctionIsSeq
<1> QED
  BY <1>2, <1>3, <1>5 DEF Owned

\* ReleaseContext wipes up to the length only, which is enough.
LEMMA RecycledIsBlank ==
    ASSUME NEW b \in Buffer, NEW r \in Requests, Owned(b, r)
    PROVE  /\ Recycled(b) \in Buffer /\ Blank(Recycled(b))
           /\ Wiped(b).cells \in Seq(Cell)
<1>1. /\ b.len \in Nat /\ Len(b.cells) \in Nat /\ b.len <= Len(b.cells)
      /\ DOMAIN b.cells = 1 .. Len(b.cells)
  BY BufferParts
<1> DEFINE f == [i \in DOMAIN b.cells |-> IF i <= b.len THEN Zero ELSE b.cells[i]]
<1>2. Wiped(b) = [cells |-> f, len |-> 0]
  BY DEF Wiped
<1>3. ASSUME NEW i \in 1 .. Len(b.cells) PROVE f[i] = Zero
  BY <1>1 DEF Owned
<1>4. f \in [1 .. Len(b.cells) -> Cell]
  BY <1>1, <1>3 DEF Cell
<1> HIDE DEF f
<1>5. [cells |-> f, len |-> 0] \in Buffer /\ f \in Seq(Cell) /\ Len(f) = Len(b.cells)
  BY <1>1, <1>4, BufferIntro, FunctionIsSeq
<1>6. Blank([cells |-> f, len |-> 0])
  BY <1>3, <1>4 DEF Blank
<1> QED
  BY <1>2, <1>5, <1>6, FreshIsBlank DEF Recycled

-----------------------------------------------------------------------------
(***************************************************************************)
(* The initial state                                                       *)
(***************************************************************************)
LEMMA PipelineFacts ==
    /\ Len(Pipeline) \in Nat \ {0} /\ DOMAIN Pipeline = 1 .. Len(Pipeline)
    /\ \A i \in 1 .. Len(Pipeline) : /\ Pipeline[i].failClosed \in BOOLEAN
                                     /\ Pipeline[i].results \subseteq StageResults
<1> DEFINE S == [effect : {"inspect", "sanitize", "redact", "canary"},
                 failClosed : BOOLEAN, results : SUBSET StageResults]
<1>1. Pipeline \in Seq(S) /\ Pipeline # << >>
  BY PathAssumption
<1>2. \A s \in S : s.failClosed \in BOOLEAN /\ s.results \subseteq StageResults
  OBVIOUS
<1> HIDE DEF S
<1>3. Len(Pipeline) \in Nat /\ DOMAIN Pipeline = 1 .. Len(Pipeline) /\ Len(Pipeline) # 0
  BY <1>1, LenProperties, EmptySeq
<1>4. \A i \in 1 .. Len(Pipeline) : Pipeline[i] \in S
  BY <1>1, ElementOfSeq
<1> QED
  BY <1>2, <1>3, <1>4

LEMMA InitialPathTypes == PathInit => PathTypes
<1> SUFFICES ASSUME PathInit PROVE PathTypes
  OBVIOUS
<1>1. /\ raw \in [Contexts -> Buffer] /\ clean \in [Contexts -> Buffer]
      /\ violations \in [Contexts -> Buffer]
  BY FreshIsBlank, NoViolationsFacts DEF PathInit, PoolInit
<1>2. /\ marks \in [Contexts -> [Fields -> Requests \cup {Nobody}]]
      /\ pool \subseteq Contexts
  BY DEF PathInit, PoolInit, Unset
<1>3. alias \in [Requests -> [at : Contexts \cup {NoContext}, kept : Seq(Cell), len : Nat]]
  BY DEF PathInit, PoolInit, NoAlias
<1>4. /\ rpc \in [Requests -> Places]
      /\ ctx \in [Requests -> Contexts \cup {NoContext}]
      /\ wire = [r \in Requests |-> wire[r]]
      /\ approved \in [Requests -> SUBSET (1 .. Len(Pipeline))]
  BY DEF PathInit, Places
<1>5. stage \in [Requests -> 1 .. Len(Pipeline) + 1]
  BY PipelineFacts DEF PathInit
<1> QED
  BY <1>1, <1>2, <1>3, <1>4, <1>5 DEF PathTypes

LEMMA InitialPoolView == PathInit => PoolView
<1> SUFFICES ASSUME PathInit PROVE PoolView
  OBVIOUS
<1>1. PoolKeepsNoPayload
  BY FreshIsBlank, NoViolationsFacts DEF PathInit, PoolInit, PoolKeepsNoPayload, Unset, Fields
<1>2. ASSUME NEW r \in Requests PROVE PoolPart(r)
  BY DEF PathInit, PoolInit, PoolPart, Serving, Unsent, NoAlias
<1> QED
  BY <1>1, <1>2 DEF PoolView

LEMMA InitialInspectView == PathInit => InspectView
  BY DEF PathInit, PoolInit, InspectView, InspectPart, NoAlias

LEMMA InitialCallView == PathInit => CallView
  BY DEF PathInit, CallView

LEMMA InitialTenantView == PathInit => TenantView
<1> SUFFICES ASSUME PathInit PROVE TenantView
  OBVIOUS
<1>1. ArrayOf(InitialTenants) \in [entries : Seq(Tenants), cap : Nat]
  BY TenantsAssumption, LenProperties DEF ArrayOf
<1>2. arrays \in Seq([entries : Seq(Tenants), cap : Nat]) /\ Len(arrays) = 1
  BY <1>1 DEF PathInit, TenantsInit
<1> QED
  BY <1>2 DEF PathInit, TenantsInit, TenantView, TenantPart, Serving

-----------------------------------------------------------------------------
(***************************************************************************)
(* Contexts: a step about one context leaves the other requests theirs.    *)
(***************************************************************************)
LEMMA PartKept ==
    ASSUME PathTypes, NEW q \in Requests, PoolPart(q), NEW c,
           Serving(q) => ctx[q] # c,
           rpc'[q] = rpc[q], ctx'[q] = ctx[q], wire'[q] = wire[q],
           alias'[q] = alias[q] \/ (alias[q].at = c /\ c # NoContext),
           \A d \in Contexts \ {c} : /\ raw'[d] = raw[d] /\ clean'[d] = clean[d]
                                     /\ violations'[d] = violations[d]
                                     /\ marks'[d] = marks[d]
                                     /\ d \in pool' => d \in pool,
           \A p \in Requests \ {q} :
               Serving(p)' => ctx'[p] = c \/ (Serving(p) /\ ctx'[p] = ctx[p])
    PROVE  PoolPart(q)'
<1>1. Serving(q)' = Serving(q)
  BY DEF Serving
<1>2. ASSUME Serving(q) PROVE HoldsOwn(q)' /\ ctx[q] \in Contexts \ {c}
  <2>1. HoldsOwn(q) /\ ctx[q] \in Contexts \ {c}
    BY <1>2 DEF PoolPart, HoldsOwn
  <2>2. ASSUME NEW p \in Requests \ {q}, Serving(p)' PROVE ctx'[p] # ctx'[q]
    BY <1>2, <2>1, <2>2 DEF HoldsOwn
  <2> QED
    BY <2>1, <2>2, SMTT(30) DEF HoldsOwn, Owned, Shown
<1>3. ASSUME Unsent(q) PROVE Unsent(q)'
  BY <1>3 DEF Unsent
<1>4. ASSUME rpc[q] \in {"await", "release"} PROVE ReadsOwn(q)'
  <2>1. ReadsOwn(q) /\ Serving(q)
    BY <1>4 DEF PoolPart, Serving
  <2>2. ctx[q] \in Contexts \ {c}
    BY <2>1, <1>2
  <2>3. CASE Unsent(q)
    BY <2>1, <2>3, <1>3 DEF ReadsOwn
  <2>4. CASE alias[q].at = ctx[q] /\ alias[q].len <= clean[ctx[q]].len
    BY <2>1, <2>2, <2>4 DEF ReadsOwn
  <2> QED
    BY <2>1, <2>3, <2>4 DEF ReadsOwn
<1> QED
  BY <1>1, <1>2, <1>3, <1>4 DEF PoolPart

\* Two requests hold different contexts, and none of them is pooled.
LEMMA Apart ==
    ASSUME PoolView, NEW q \in Requests, Serving(q), NEW c,
           c \in pool \/ \E r \in Requests \ {q} : Serving(r) /\ c = ctx[r]
    PROVE  ctx[q] # c
  BY DEF PoolView, PoolPart, HoldsOwn

\* A step of r about its context c.
LEMMA PoolStep ==
    ASSUME PathTypes, PoolView, NEW r \in Requests, NEW c \in Contexts,
           c \in pool \/ (Serving(r) /\ c = ctx[r]),
           Serving(r)' => ctx'[r] = c,
           \A q \in Requests \ {r} :
               /\ rpc'[q] = rpc[q] /\ ctx'[q] = ctx[q] /\ wire'[q] = wire[q]
               /\ alias'[q] = alias[q] \/ alias[q].at = c,
           \A d \in Contexts \ {c} : /\ raw'[d] = raw[d] /\ clean'[d] = clean[d]
                                     /\ violations'[d] = violations[d]
                                     /\ marks'[d] = marks[d]
                                     /\ d \in pool' => d \in pool,
           pool' \subseteq Contexts,
           c \in pool' =>
               /\ Blank(raw'[c]) /\ Blank(clean'[c]) /\ violations'[c].len = 0
               /\ \A f \in {"std", "canary", "findings", "durations"} :
                      marks'[c][f] = Nobody,
           PoolPart(r)'
    PROVE  PoolView'
<1>1. ASSUME NEW q \in Requests PROVE PoolPart(q)'
  <2>1. CASE q = r
    BY <2>1
  <2>2. CASE q # r
    <3>1. Serving(q) => ctx[q] # c
      BY <2>2, Apart
    <3>2. c # NoContext
      BY PoolAssumption
    <3>3. \A p \in Requests \ {q} :
               Serving(p)' => ctx'[p] = c \/ (Serving(p) /\ ctx'[p] = ctx[p])
      BY DEF Serving
    <3>4. PoolPart(q)
      BY DEF PoolView
    <3> QED
      BY <2>2, <3>1, <3>2, <3>3, <3>4, PartKept
  <2> QED
    BY <2>1, <2>2
<1>2. PoolKeepsNoPayload'
  BY DEF PoolView, PoolKeepsNoPayload
<1> QED
  BY <1>1, <1>2 DEF PoolView

\* A step that touches neither the pool nor a handler's place.
LEMMA PoolFrame ==
    ASSUME PathTypes, PoolView, UNCHANGED <<poolVars, rpc, ctx, wire>>
    PROVE  PoolView'
<1>1. UNCHANGED <<raw, clean, violations, marks, pool, alias, rpc, ctx, wire>>
  BY DEF poolVars
<1>2. PoolKeepsNoPayload'
  BY <1>1 DEF PoolView, PoolKeepsNoPayload
<1>3. ASSUME NEW q \in Requests PROVE PoolPart(q)'
  BY <1>1 DEF PoolView, PoolPart, HoldsOwn, Serving, Unsent, ReadsOwn, Owned, Shown
<1> QED
  BY <1>2, <1>3 DEF PoolView

\* A step of r that leaves the contexts alone.
LEMMA PoolStay ==
    ASSUME PathTypes, PoolView, NEW r \in Requests, UNCHANGED poolVars,
           Serving(r)' => Serving(r) /\ ctx'[r] = ctx[r],
           \A q \in Requests \ {r} :
               rpc'[q] = rpc[q] /\ ctx'[q] = ctx[q] /\ wire'[q] = wire[q],
           PoolPart(r)'
    PROVE  PoolView'
<1>1. UNCHANGED <<raw, clean, violations, marks, pool, alias>>
  BY DEF poolVars
<1>2. ASSUME NEW q \in Requests PROVE PoolPart(q)'
  <2>1. CASE q = r
    BY <2>1
  <2>2. CASE q # r
    <3>1. PoolPart(q)
      BY DEF PoolView
    <3>2. Serving(q) => ctx[q] # NoContext
      BY <3>1, PoolAssumption DEF PoolPart, HoldsOwn
    <3>3. \A p \in Requests \ {q} :
               Serving(p)' => ctx'[p] = NoContext \/ (Serving(p) /\ ctx'[p] = ctx[p])
      BY DEF Serving
    <3>4. \A d \in Contexts \ {NoContext} :
              /\ raw'[d] = raw[d] /\ clean'[d] = clean[d]
              /\ violations'[d] = violations[d] /\ marks'[d] = marks[d]
              /\ d \in pool' => d \in pool
      BY <1>1
    <3>5. /\ rpc'[q] = rpc[q] /\ ctx'[q] = ctx[q] /\ wire'[q] = wire[q]
          /\ alias'[q] = alias[q]
      BY <1>1, <2>2
    <3> QED
      BY <3>1, <3>2, <3>3, <3>4, <3>5, PartKept
  <2> QED
    BY <2>1, <2>2
<1>3. PoolKeepsNoPayload'
  BY <1>1 DEF PoolView, PoolKeepsNoPayload
<1> QED
  BY <1>2, <1>3 DEF PoolView

\* The body of a readers' array is kept.
LEMMA DetachFacts ==
    ASSUME PathTypes, NEW c, NEW cells \in Seq(Cell), Detach(c, cells)
    PROVE  /\ alias' \in [Requests -> [at : Contexts \cup {NoContext},
                                       kept : Seq(Cell), len : Nat]]
           /\ \A q \in Requests : alias'[q].len = alias[q].len
           /\ \A q \in Requests : alias[q].at # c => alias'[q] = alias[q]
  BY ZenonT(40) DEF Detach, PathTypes

LEMMA SetCleanFacts ==
    ASSUME PathTypes, NEW c \in Contexts, NEW b \in Buffer, NEW inPlace,
           SetClean(c, b, inPlace)
    PROVE  /\ clean' \in [Contexts -> Buffer] /\ clean'[c] = b
           /\ \A d \in Contexts \ {c} : clean'[d] = clean[d]
           /\ alias' \in [Requests -> [at : Contexts \cup {NoContext},
                                       kept : Seq(Cell), len : Nat]]
           /\ \A q \in Requests : alias'[q].len = alias[q].len
           /\ \A q \in Requests : alias[q].at # c => alias'[q] = alias[q]
<1>1. clean[c].cells \in Seq(Cell) /\ clean \in [Contexts -> Buffer]
  BY BufferParts DEF PathTypes
<1>2. clean' = [clean EXCEPT ![c] = b]
  BY DEF SetClean
<1>3. CASE UNCHANGED alias
  BY <1>1, <1>2, <1>3 DEF PathTypes
<1>4. CASE Detach(c, clean[c].cells)
  BY <1>1, <1>2, <1>4, DetachFacts
<1> QED
  BY <1>3, <1>4 DEF SetClean

LEMMA MarksFacts ==
    ASSUME PathTypes, NEW c \in Contexts, NEW m \in [Fields -> Requests \cup {Nobody}],
           marks' = [marks EXCEPT ![c] = m]
    PROVE  /\ marks' \in [Contexts -> [Fields -> Requests \cup {Nobody}]]
           /\ marks'[c] = m
           /\ \A d \in Contexts \ {c} : marks'[d] = marks[d]
  BY DEF PathTypes

LEMMA SetByFacts ==
    ASSUME NEW o \in Requests \cup {Nobody}, NEW some,
           NEW fields \in [Fields -> Requests \cup {Nobody}]
    PROVE  /\ SetBy(o, some, fields) \in [Fields -> Requests \cup {Nobody}]
           /\ \A f \in Fields : SetBy(o, some, fields)[f] = IF f \in some THEN o ELSE fields[f]
  BY DEF SetBy

\* What a request adds to its entries is its own.
LEMMA AddViolationsFacts ==
    ASSUME PathTypes, NEW c \in Contexts, NEW r \in Requests, NEW n \in Nat,
           AddViolations(c, r, n)
    PROVE  /\ violations' \in [Contexts -> Buffer]
           /\ \A d \in Contexts \ {c} : violations'[d] = violations[d]
           /\ Shown(violations[c], r) => Shown(violations'[c], r)
<1>1. violations' = [violations EXCEPT ![c] = Appended(violations[c], r, n)]
  BY DEF AddViolations
<1>2. violations \in [Contexts -> Buffer] /\ Appended(violations[c], r, n) \in Buffer
  BY AppendedCells DEF PathTypes
<1>3. violations' \in [Contexts -> Buffer] /\ violations'[c] = Appended(violations[c], r, n)
      /\ \A d \in Contexts \ {c} : violations'[d] = violations[d]
  BY <1>1, <1>2
<1> QED
  BY <1>2, <1>3, AppendedIsShown

-----------------------------------------------------------------------------
(***************************************************************************)
(* The pipeline                                                            *)
(***************************************************************************)
\* What a stage does to the context it is given.
StageStep(r) ==
    /\ rpc[r] = "pipeline" /\ stage[r] <= Len(Pipeline)
    /\ \E result \in Results(r) : Settle(r, result)
    /\ \/ UNCHANGED <<clean, alias>>
       \/ \E b \in Buffer, inPlace \in BOOLEAN :
              Owned(b, r) /\ SetClean(ctx[r], b, inPlace)

LEMMA StageSteps ==
    ASSUME PathTypes, PoolView, NEW r \in Requests,
           Inspect(r) \/ Sanitize(r) \/ Canary(r) \/ Redact(r)
    PROVE  StageStep(r) /\ ctx[r] \in Contexts
<1> DEFINE c == ctx[r]
           buf == clean[c]
<1>1. rpc[r] = "pipeline" /\ stage[r] <= Len(Pipeline)
  BY DEF Inspect, Sanitize, Canary, Redact, Running, At
<1>2. \E result \in Results(r) : Settle(r, result)
  BY DEF Inspect, Sanitize, Canary, Redact
<1>3. c \in Contexts /\ Owned(buf, r)
  BY <1>1 DEF PoolView, PoolPart, Serving, HoldsOwn
<1>4. buf \in Buffer /\ buf.len \in Nat
  BY <1>3, BufferParts DEF PathTypes
<1>5. \A n \in 0 .. buf.len : Copied(buf, n) \in Buffer /\ Owned(Copied(buf, n), r)
  BY <1>3, <1>4, CopiedIsOwned
<1>6. buf.len \in 0 .. buf.len /\ 1 \in Nat
  BY <1>4
<1>7. Appended(buf, r, 1) \in Buffer /\ Owned(Appended(buf, r, 1), r)
  BY <1>3, <1>4, <1>6, AppendedIsOwned
<1>8. /\ Appended(Copied(buf, buf.len), r, 1) \in Buffer
      /\ Owned(Appended(Copied(buf, buf.len), r, 1), r)
  BY <1>5, <1>6, AppendedIsOwned
<1>9. Fits(buf, 1) \in BOOLEAN
  BY DEF Fits
<1>10. \/ UNCHANGED <<clean, alias>>
       \/ \E b \in Buffer, inPlace \in BOOLEAN : Owned(b, r) /\ SetClean(c, b, inPlace)
  <2>1. CASE Inspect(r)
    BY <2>1 DEF Inspect
  <2>2. CASE Sanitize(r)
    BY <2>2, <1>5 DEF Sanitize, Sanitized
  <2>3. CASE Canary(r)
    BY <2>3, <1>7, <1>8, <1>9 DEF Canary
  <2>4. CASE Redact(r)
    BY <2>4, <1>5, <1>6 DEF Redact
  <2> QED
    BY <2>1, <2>2, <2>3, <2>4
<1> QED
  BY <1>1, <1>2, <1>3, <1>10 DEF StageStep

LEMMA SettleFacts ==
    ASSUME PathTypes, NEW r \in Requests, ctx[r] \in Contexts,
           rpc[r] = "pipeline", stage[r] <= Len(Pipeline),
           NEW result \in Results(r), Settle(r, result)
    PROVE  /\ rpc' \in [Requests -> Places]
           /\ rpc'[r] \in {"release", "pipeline", "forward"}
           /\ \A q \in Requests \ {r} : /\ rpc'[q] = rpc[q] /\ stage'[q] = stage[q]
                                        /\ approved'[q] = approved[q]
           /\ marks' \in [Contexts -> [Fields -> Requests \cup {Nobody}]]
           /\ \A d \in Contexts \ {ctx[r]} : marks'[d] = marks[d]
           /\ \A f \in Fields : marks'[ctx[r]][f] \in {r, marks[ctx[r]][f]}
           /\ violations' \in [Contexts -> Buffer]
           /\ \A d \in Contexts \ {ctx[r]} : violations'[d] = violations[d]
           /\ Shown(violations[ctx[r]], r) => Shown(violations'[ctx[r]], r)
           /\ stage' \in [Requests -> 1 .. Len(Pipeline) + 1]
           /\ approved' \in [Requests -> SUBSET (1 .. Len(Pipeline))]
           /\ UNCHANGED <<raw, pool, ctx, wire>>
<1> DEFINE s == Pipeline[stage[r]]
           M == Marked(s, result)
<1>0. Len(Pipeline) \in Nat /\ stage[r] \in 1 .. Len(Pipeline)
  BY PipelineFacts DEF PathTypes
<1>1. marks' = [marks EXCEPT ![ctx[r]] = SetBy(r, M, marks[ctx[r]])]
  BY DEF Settle
<1>2. \/ /\ Blocks(s, result) /\ rpc' = [rpc EXCEPT ![r] = "release"]
         /\ UNCHANGED <<stage, approved>>
      \/ /\ ~ Blocks(s, result)
         /\ stage' = [stage EXCEPT ![r] = @ + 1]
         /\ approved' = IF s.failClosed /\ result \in Passes
                        THEN [approved EXCEPT ![r] = @ \cup {stage[r]}]
                        ELSE approved
         /\ rpc' = [rpc EXCEPT ![r] =
                       IF stage[r] = Len(Pipeline) THEN "forward" ELSE "pipeline"]
  BY DEF Settle, GoTo
<1>3. UNCHANGED <<raw, pool, ctx, wire>>
  BY DEF Settle
<1> HIDE DEF s, M
<1>4. /\ rpc' \in [Requests -> Places]
      /\ rpc'[r] \in {"release", "pipeline", "forward"}
      /\ \A q \in Requests \ {r} : rpc'[q] = rpc[q]
  BY <1>2 DEF PathTypes, Places
<1>5. /\ stage' \in [Requests -> 1 .. Len(Pipeline) + 1]
      /\ \A q \in Requests \ {r} : stage'[q] = stage[q]
  <2>1. stage \in [Requests -> 1 .. Len(Pipeline) + 1]
    BY DEF PathTypes
  <2>2. stage[r] + 1 \in 1 .. Len(Pipeline) + 1
    BY <1>0
  <2>3. stage' = stage \/ stage' = [stage EXCEPT ![r] = stage[r] + 1]
    BY <1>2
  <2> QED
    BY <2>1, <2>2, <2>3
<1>6. /\ approved' \in [Requests -> SUBSET (1 .. Len(Pipeline))]
      /\ \A q \in Requests \ {r} : approved'[q] = approved[q]
  <2>1. approved \in [Requests -> SUBSET (1 .. Len(Pipeline))]
    BY DEF PathTypes
  <2>2. \/ approved' = approved
        \/ approved' = [approved EXCEPT ![r] = approved[r] \cup {stage[r]}]
    BY <1>2
  <2> QED
    BY <1>0, <2>1, <2>2
<1>7. /\ marks' \in [Contexts -> [Fields -> Requests \cup {Nobody}]]
      /\ \A d \in Contexts \ {ctx[r]} : marks'[d] = marks[d]
      /\ \A f \in Fields : marks'[ctx[r]][f] \in {r, marks[ctx[r]][f]}
  <2> DEFINE m == SetBy(r, M, marks[ctx[r]])
  <2>1. marks[ctx[r]] \in [Fields -> Requests \cup {Nobody}]
    BY DEF PathTypes
  <2>2. /\ m \in [Fields -> Requests \cup {Nobody}]
        /\ \A f \in Fields : m[f] = IF f \in M THEN r ELSE marks[ctx[r]][f]
    BY <2>1, SetByFacts
  <2> HIDE DEF m
  <2>3. \A f \in Fields : m[f] \in {r, marks[ctx[r]][f]}
    BY <2>2
  <2>4. marks' = [marks EXCEPT ![ctx[r]] = m]
    BY <1>1 DEF m
  <2> QED
    BY <2>2, <2>3, <2>4, MarksFacts
<1>8. /\ violations' \in [Contexts -> Buffer]
      /\ \A d \in Contexts \ {ctx[r]} : violations'[d] = violations[d]
      /\ Shown(violations[ctx[r]], r) => Shown(violations'[ctx[r]], r)
  <2>1. \E n \in Nat : AddViolations(ctx[r], r, n)
    BY DEF Settle
  <2> QED
    BY <2>1, AddViolationsFacts
<1> QED
  BY <1>3, <1>4, <1>5, <1>6, <1>7, <1>8

LEMMA StageKeepsPool ==
    ASSUME PathTypes, PoolView, NEW r \in Requests, StageStep(r), ctx[r] \in Contexts
    PROVE  PathTypes' /\ PoolView'
<1> DEFINE c == ctx[r]
<1>1. PICK result \in Results(r) : Settle(r, result)
  BY DEF StageStep
<1>2. rpc[r] = "pipeline" /\ stage[r] <= Len(Pipeline)
  BY DEF StageStep
<1>3. Serving(r) /\ HoldsOwn(r) /\ Unsent(r)
  BY <1>2 DEF PoolView, PoolPart, Serving
<1>4. /\ clean' \in [Contexts -> Buffer] /\ Owned(clean'[c], r)
      /\ \A d \in Contexts \ {c} : clean'[d] = clean[d]
      /\ alias' \in [Requests -> [at : Contexts \cup {NoContext},
                                  kept : Seq(Cell), len : Nat]]
      /\ \A q \in Requests : alias'[q].len = alias[q].len
      /\ \A q \in Requests : alias[q].at # c => alias'[q] = alias[q]
  <2>1. CASE UNCHANGED <<clean, alias>>
    BY <1>3, <2>1 DEF PathTypes, HoldsOwn
  <2>2. CASE \E b \in Buffer, inPlace \in BOOLEAN : Owned(b, r) /\ SetClean(c, b, inPlace)
    BY <2>2, SetCleanFacts
  <2> QED
    BY <2>1, <2>2 DEF StageStep
<1>5. /\ rpc' \in [Requests -> Places]
      /\ rpc'[r] \in {"release", "pipeline", "forward"}
      /\ \A q \in Requests \ {r} : rpc'[q] = rpc[q]
      /\ marks' \in [Contexts -> [Fields -> Requests \cup {Nobody}]]
      /\ \A d \in Contexts \ {c} : marks'[d] = marks[d]
      /\ \A f \in Fields : marks'[c][f] \in {r, marks[c][f]}
      /\ violations' \in [Contexts -> Buffer]
      /\ \A d \in Contexts \ {c} : violations'[d] = violations[d]
      /\ Shown(violations[c], r) => Shown(violations'[c], r)
      /\ stage' \in [Requests -> 1 .. Len(Pipeline) + 1]
      /\ approved' \in [Requests -> SUBSET (1 .. Len(Pipeline))]
      /\ UNCHANGED <<raw, pool, ctx, wire>>
  BY <1>1, <1>2, SettleFacts
<1>6. PathTypes'
  BY <1>4, <1>5 DEF PathTypes
<1>7. Unsent(r)' /\ wire'[r] = {}
  <2>1. alias[r].at # c
    BY <1>3, PoolAssumption DEF Unsent
  <2> QED
    BY <2>1, <1>3, <1>4, <1>5 DEF Unsent
<1>8. HoldsOwn(r)'
  <2>1. \A q \in Requests \ {r} : Serving(q)' => ctx'[q] # ctx'[r]
    BY <1>3, <1>5 DEF HoldsOwn, Serving
  <2>2. /\ \A f \in Fields : marks'[c][f] \in {r, Nobody}
        /\ \A f \in {"std", "identity", "request"} : marks'[c][f] = r
    BY <1>3, <1>5 DEF HoldsOwn, Fields
  <2>3. Owned(raw[c], r) /\ Shown(violations'[c], r) /\ c \notin pool
    BY <1>3, <1>5 DEF HoldsOwn
  <2> QED
    BY <2>1, <2>2, <2>3, <1>4, <1>5 DEF HoldsOwn, Owned, Shown
<1>9. PoolPart(r)'
  BY <1>7, <1>8 DEF PoolPart, ReadsOwn
<1>10. c \notin pool'
  BY <1>3, <1>5 DEF HoldsOwn
<1>11. pool' \subseteq Contexts
  BY <1>6 DEF PathTypes
<1>12. \A q \in Requests \ {r} :
           /\ rpc'[q] = rpc[q] /\ ctx'[q] = ctx[q] /\ wire'[q] = wire[q]
           /\ alias'[q] = alias[q] \/ alias[q].at = c
  BY <1>4, <1>5
<1>13. \A d \in Contexts \ {c} :
           /\ raw'[d] = raw[d] /\ clean'[d] = clean[d]
           /\ violations'[d] = violations[d] /\ marks'[d] = marks[d]
           /\ d \in pool' => d \in pool
  BY <1>4, <1>5
<1>14. ctx'[r] = c
  BY <1>5
<1>15. PoolView'
  BY <1>3, <1>9, <1>10, <1>11, <1>12, <1>13, <1>14, PoolStep
<1> QED
  BY <1>6, <1>15

-----------------------------------------------------------------------------
(***************************************************************************)
(* The other steps of a handler                                            *)
(***************************************************************************)
\* Authenticate, a body that cannot be read, and the breaker's refusal.
LEMMA PlaceKeepsPool ==
    ASSUME PathTypes, PoolView, NEW r \in Requests,
           AuthFails(r) \/ AuthPasses(r) \/ BodyFails(r) \/ Refused(r)
    PROVE  PathTypes' /\ PoolView'
<1>1. UNCHANGED <<poolVars, wire, approved>>
  BY DEF AuthFails, AuthPasses, BodyFails, Refused, Return, historyVars
<1>2. PICK p \in {"body", "release", "done"} :
          /\ rpc' = [rpc EXCEPT ![r] = p]
          /\ p = "body" => rpc[r] = "auth" /\ UNCHANGED <<ctx, stage>>
          /\ p = "release" => rpc[r] = "forward" /\ UNCHANGED <<ctx, stage>>
          /\ p = "done" => /\ ctx' = [ctx EXCEPT ![r] = NoContext]
                           /\ stage' = [stage EXCEPT ![r] = 1]
  BY DEF AuthFails, AuthPasses, BodyFails, Refused, Return, GoTo, At
<1>3. PathTypes'
  <2>1. rpc' \in [Requests -> Places]
    BY <1>2 DEF PathTypes, Places
  <2>2. ctx' \in [Requests -> Contexts \cup {NoContext}]
    BY <1>2 DEF PathTypes
  <2>3. stage' \in [Requests -> 1 .. Len(Pipeline) + 1]
    <3>1. 1 \in 1 .. Len(Pipeline) + 1
      BY PipelineFacts
    <3>2. stage' = stage \/ stage' = [stage EXCEPT ![r] = 1]
      BY <1>2
    <3> QED
      BY <3>1, <3>2 DEF PathTypes
  <2> QED
    BY <1>1, <2>1, <2>2, <2>3 DEF PathTypes, poolVars
<1>4. \A q \in Requests \ {r} :
          rpc'[q] = rpc[q] /\ ctx'[q] = ctx[q] /\ wire'[q] = wire[q]
  BY <1>1, <1>2 DEF PathTypes
<1>5. rpc'[r] = p
  BY <1>2 DEF PathTypes
<1>6. Serving(r)' => p = "release" /\ Serving(r) /\ ctx'[r] = ctx[r]
  BY <1>2, <1>5 DEF Serving
<1>7. PoolPart(r)'
  <2>1. PoolPart(r)
    BY DEF PoolView
  <2>2. UNCHANGED <<raw, clean, violations, marks, pool, alias, wire>>
    BY <1>1 DEF poolVars
  <2>3. CASE p = "done"
    BY <2>3, <1>5 DEF PoolPart, Serving
  <2>4. CASE p = "body"
    BY <2>1, <2>2, <2>4, <1>2, <1>5 DEF PoolPart, Serving, Unsent
  <2>5. CASE p = "release"
    <3>1. HoldsOwn(r) /\ Unsent(r) /\ ctx' = ctx
      BY <2>1, <2>5, <1>2 DEF PoolPart, Serving
    <3>2. \A q \in Requests \ {r} : Serving(q)' => ctx'[q] # ctx'[r]
      BY <3>1, <1>4 DEF HoldsOwn, Serving
    <3>3. HoldsOwn(r)'
      BY <2>2, <3>1, <3>2 DEF HoldsOwn, Owned, Shown
    <3>4. ReadsOwn(r)'
      BY <2>2, <3>1 DEF Unsent, ReadsOwn
    <3> QED
      BY <2>5, <3>3, <3>4, <1>5 DEF PoolPart
  <2> QED
    BY <2>3, <2>4, <2>5
<1>8. PoolView'
  BY <1>1, <1>4, <1>6, <1>7, PoolStay
<1> QED
  BY <1>3, <1>8

LEMMA BeginKeepsPool ==
    ASSUME PathTypes, PoolView, NEW r \in Requests, Begin(r)
    PROVE  PathTypes' /\ PoolView'
<1>1. PICK c \in Contexts, n \in BodyLengths :
          /\ AcquireContext(r, c, n, r \in Streaming)
          /\ ctx' = [ctx EXCEPT ![r] = c]
  BY DEF Begin
<1>2. /\ rpc[r] = "body" /\ rpc' = [rpc EXCEPT ![r] = "pipeline"]
      /\ UNCHANGED <<stage, wire, approved>>
  BY DEF Begin, At, GoTo, historyVars
<1>3. n \in Nat
  BY PathAssumption
<1>4. c \in pool /\ pool' = pool \ {c}
  BY <1>1 DEF AcquireContext
<1> DEFINE eraw == Emptied(raw[c])
           eclean == Emptied(clean[c])
<1>5. /\ Blank(eraw) /\ Blank(eclean) /\ eraw \in Buffer /\ eclean \in Buffer
  <2>1. Blank(raw[c]) /\ Blank(clean[c]) /\ raw[c] \in Buffer /\ clean[c] \in Buffer
    BY <1>4 DEF PoolView, PoolKeepsNoPayload, PathTypes
  <2> QED
    BY <2>1, EmptiedFacts
<1>6. /\ Appended(eraw, r, n) \in Buffer /\ Owned(Appended(eraw, r, n), r)
      /\ Appended(eclean, r, n) \in Buffer /\ Owned(Appended(eclean, r, n), r)
  BY <1>3, <1>5, BlankIsOwned, AppendedIsOwned
<1>7. raw' = [raw EXCEPT ![c] = Appended(eraw, r, n)]
  BY <1>1 DEF AcquireContext
<1>8. /\ clean' \in [Contexts -> Buffer] /\ clean'[c] = Appended(eclean, r, n)
      /\ \A d \in Contexts \ {c} : clean'[d] = clean[d]
      /\ alias' \in [Requests -> [at : Contexts \cup {NoContext},
                                  kept : Seq(Cell), len : Nat]]
      /\ \A q \in Requests : alias[q].at # c => alias'[q] = alias[q]
  <2>1. SetClean(c, Appended(eclean, r, n), Fits(eclean, n))
    BY <1>1 DEF AcquireContext
  <2> QED
    BY <2>1, <1>6, SetCleanFacts
<1>9. /\ marks' \in [Contexts -> [Fields -> Requests \cup {Nobody}]]
      /\ \A d \in Contexts \ {c} : marks'[d] = marks[d]
      /\ \A f \in Fields : marks'[c][f] \in {r, Nobody}
      /\ \A f \in {"std", "identity", "request"} : marks'[c][f] = r
  <2> DEFINE some == {"request"} \cup (IF r \in Streaming THEN {"streaming"} ELSE {})
             m == SetBy(r, some, Acquired(c, r))
  <2>1. marks' = [marks EXCEPT ![c] = m]
    BY <1>1 DEF AcquireContext
  <2>2. marks[c]["request"] \in Requests \cup {Nobody}
    BY DEF PathTypes, Fields
  <2>3. /\ Acquired(c, r) \in [Fields -> Requests \cup {Nobody}]
        /\ Acquired(c, r)["std"] = r /\ Acquired(c, r)["identity"] = r
        /\ \A f \in Fields \ {"request"} : Acquired(c, r)[f] \in {r, Nobody}
    BY <2>2 DEF Acquired, Unset, Fields
  <2>4. /\ m \in [Fields -> Requests \cup {Nobody}]
        /\ \A f \in Fields : m[f] = IF f \in some THEN r ELSE Acquired(c, r)[f]
    BY <2>3, SetByFacts
  <2>5. "request" \in some
    OBVIOUS
  <2> HIDE DEF m, some
  <2>6. \A f \in Fields : m[f] \in {r, Nobody}
    BY <2>3, <2>4, <2>5
  <2>7. \A f \in {"std", "identity", "request"} : m[f] = r
    BY <2>3, <2>4, <2>5 DEF Fields
  <2> QED
    BY <2>1, <2>4, <2>6, <2>7, MarksFacts
<1>0. /\ violations' \in [Contexts -> Buffer] /\ Shown(violations'[c], r)
      /\ \A d \in Contexts \ {c} : violations'[d] = violations[d]
  <2>1. violations' = [violations EXCEPT ![c] = Emptied(violations[c])]
    BY <1>1 DEF AcquireContext
  <2>2. violations[c] \in Buffer
    BY DEF PathTypes
  <2> QED
    BY <2>1, <2>2, EmptiedFacts DEF PathTypes
<1>10. PathTypes'
  <2>1. rpc' \in [Requests -> Places] /\ ctx' \in [Requests -> Contexts \cup {NoContext}]
    BY <1>1, <1>2 DEF PathTypes, Places
  <2>2. raw' \in [Contexts -> Buffer] /\ pool' \subseteq Contexts
    BY <1>4, <1>6, <1>7 DEF PathTypes
  <2> QED
    BY <2>1, <2>2, <1>0, <1>2, <1>8, <1>9 DEF PathTypes
<1>11. rpc'[r] = "pipeline" /\ ctx'[r] = c
  BY <1>1, <1>2 DEF PathTypes
<1>12. \A q \in Requests \ {r} :
           /\ rpc'[q] = rpc[q] /\ ctx'[q] = ctx[q] /\ wire'[q] = wire[q]
           /\ alias'[q] = alias[q] \/ alias[q].at = c
  BY <1>1, <1>2, <1>8 DEF PathTypes
<1>13. \A d \in Contexts \ {c} :
           /\ raw'[d] = raw[d] /\ clean'[d] = clean[d]
           /\ violations'[d] = violations[d] /\ marks'[d] = marks[d]
           /\ d \in pool' => d \in pool
  BY <1>0, <1>4, <1>7, <1>8, <1>9 DEF PathTypes
<1>14. Unsent(r)'
  <2>1. Unsent(r)
    BY <1>2 DEF PoolView, PoolPart
  <2>2. alias[r].at # c
    BY <2>1, PoolAssumption DEF Unsent
  <2> QED
    BY <2>1, <2>2, <1>2, <1>8 DEF Unsent
<1>15. HoldsOwn(r)'
  <2>1. ASSUME NEW q \in Requests \ {r}, Serving(q)' PROVE ctx'[q] # c
    <3>1. Serving(q)
      BY <2>1, <1>12 DEF Serving
    <3> QED
      BY <3>1, <1>4, <1>12, Apart
  <2>2. Owned(raw'[c], r) /\ Owned(clean'[c], r)
    BY <1>6, <1>7, <1>8 DEF PathTypes
  <2> QED
    BY <2>1, <2>2, <1>0, <1>4, <1>9, <1>11 DEF HoldsOwn, Owned, Shown
<1>16. PoolPart(r)'
  BY <1>11, <1>14, <1>15 DEF PoolPart
<1>17. pool' \subseteq Contexts /\ c \notin pool'
  BY <1>4, <1>10 DEF PathTypes
<1>18. PoolView'
  BY <1>4, <1>11, <1>12, <1>13, <1>16, <1>17, PoolStep
<1> QED
  BY <1>10, <1>18

LEMMA SendKeepsPool ==
    ASSUME PathTypes, PoolView, NEW r \in Requests, Send(r) \/ Answered(r)
    PROVE  PathTypes' /\ PoolView'
<1> DEFINE c == ctx[r]
<1>1. /\ Serving(r) /\ rpc'[r] \in {"await", "release"} /\ rpc' \in [Requests -> Places]
      /\ \A q \in Requests \ {r} : rpc'[q] = rpc[q]
      /\ UNCHANGED <<raw, clean, pool, ctx, stage, wire, approved>>
  BY DEF Send, Answered, At, GoTo, Serving, historyVars, PathTypes, Places
<1>2. HoldsOwn(r) /\ c \in Contexts
  BY <1>1 DEF PoolView, PoolPart, HoldsOwn
<1>3. clean[c] \in Buffer /\ clean[c].len \in Nat
  BY <1>2, BufferParts DEF PathTypes
<1>4. /\ marks' \in [Contexts -> [Fields -> Requests \cup {Nobody}]]
      /\ \A d \in Contexts \ {c} : marks'[d] = marks[d]
      /\ \A f \in Fields : marks'[c][f] \in {r, Nobody}
      /\ \A f \in {"std", "identity", "request"} : marks'[c][f] = r
  <2>1. \/ marks' = marks
        \/ marks' = [marks EXCEPT ![c] = [marks[c] EXCEPT !["findings"] = r]]
    BY DEF Send, Answered
  <2>2. /\ \A f \in Fields : marks[c][f] \in {r, Nobody}
        /\ \A f \in {"std", "identity", "request"} : marks[c][f] = r
    BY <1>2 DEF HoldsOwn
  <2>3. CASE marks' = marks
    BY <2>2, <2>3 DEF PathTypes
  <2>4. CASE marks' = [marks EXCEPT ![c] = [marks[c] EXCEPT !["findings"] = r]]
    <3> DEFINE m == [marks[c] EXCEPT !["findings"] = r]
    <3>1. marks[c] \in [Fields -> Requests \cup {Nobody}]
      BY <1>2 DEF PathTypes
    <3>2. /\ m \in [Fields -> Requests \cup {Nobody}]
          /\ \A f \in Fields : m[f] \in {r, Nobody}
          /\ \A f \in {"std", "identity", "request"} : m[f] = r
      BY <2>2, <3>1 DEF Fields
    <3> QED
      BY <2>4, <3>2, <1>2, MarksFacts
  <2> QED
    BY <2>1, <2>3, <2>4
<1>5. /\ alias' \in [Requests -> [at : Contexts \cup {NoContext},
                                  kept : Seq(Cell), len : Nat]]
      /\ \A q \in Requests \ {r} : alias'[q] = alias[q]
      /\ ReadsOwn(r)'
  <2>1. CASE Send(r)
    <3>1. alias' = [alias EXCEPT ![r] = [at |-> c, kept |-> << >>, len |-> clean[c].len]]
      BY <2>1 DEF Send
    <3>2. Unsent(r)
      BY <2>1 DEF Send, At, PoolView, PoolPart
    <3>3. << >> \in Seq(Cell)
      OBVIOUS
    <3>4. alias'[r].at = c /\ alias'[r].len = clean[c].len
      BY <3>1 DEF PathTypes
    <3>5. alias' \in [Requests -> [at : Contexts \cup {NoContext},
                                   kept : Seq(Cell), len : Nat]]
          /\ \A q \in Requests \ {r} : alias'[q] = alias[q]
      BY <3>1, <3>3, <1>2, <1>3 DEF PathTypes
    <3>6. ReadsOwn(r)'
      BY <3>2, <3>4, <1>1, <1>3 DEF ReadsOwn, Unsent
    <3> QED
      BY <3>5, <3>6
  <2>2. CASE Answered(r)
    <3>1. alias' = alias
      BY <2>2 DEF Answered
    <3>2. ReadsOwn(r)
      BY <2>2 DEF Answered, At, PoolView, PoolPart
    <3> QED
      BY <3>1, <3>2, <1>1 DEF ReadsOwn, Unsent, PathTypes
  <2> QED
    BY <2>1, <2>2
<1>0. /\ violations' \in [Contexts -> Buffer] /\ Shown(violations'[c], r)
      /\ \A d \in Contexts \ {c} : violations'[d] = violations[d]
  <2>1. Shown(violations[c], r)
    BY <1>2 DEF HoldsOwn
  <2>2. CASE violations' = violations
    BY <2>1, <2>2 DEF PathTypes
  <2>3. CASE AddViolations(c, r, 1)
    BY <2>1, <2>3, <1>2, AddViolationsFacts
  <2> QED
    BY <2>2, <2>3 DEF Send, Answered
<1>6. PathTypes'
  BY <1>0, <1>1, <1>4, <1>5 DEF PathTypes
<1>7. HoldsOwn(r)'
  <2>1. \A q \in Requests \ {r} : Serving(q)' => ctx'[q] # ctx'[r]
    BY <1>1, <1>2 DEF HoldsOwn, Serving
  <2> QED
    BY <2>1, <1>0, <1>1, <1>2, <1>4 DEF HoldsOwn, Owned, Shown
<1>8. PoolPart(r)'
  BY <1>1, <1>5, <1>7 DEF PoolPart
<1>9. \A q \in Requests \ {r} :
           /\ rpc'[q] = rpc[q] /\ ctx'[q] = ctx[q] /\ wire'[q] = wire[q]
           /\ alias'[q] = alias[q] \/ alias[q].at = c
  BY <1>1, <1>5
<1>10. \A d \in Contexts \ {c} :
           /\ raw'[d] = raw[d] /\ clean'[d] = clean[d]
           /\ violations'[d] = violations[d] /\ marks'[d] = marks[d]
           /\ d \in pool' => d \in pool
  BY <1>0, <1>1, <1>4
<1>11. pool' \subseteq Contexts /\ c \notin pool' /\ ctx'[r] = c
  BY <1>1, <1>2 DEF PathTypes, HoldsOwn
<1>12. PoolView'
  BY <1>1, <1>2, <1>8, <1>9, <1>10, <1>11, PoolStep
<1> QED
  BY <1>6, <1>12

\* The deferred ReleaseContext and the return of handleProxy.
LEMMA ReleaseKeepsPool ==
    ASSUME PathTypes, PoolView, NEW r \in Requests, Release(r)
    PROVE  PathTypes' /\ PoolView'
<1> DEFINE c == ctx[r]
           b == clean[c]
<1>1. /\ rpc[r] = "release" /\ ReleaseContext(c)
      /\ rpc' = [rpc EXCEPT ![r] = "done"] /\ ctx' = [ctx EXCEPT ![r] = NoContext]
      /\ stage' = [stage EXCEPT ![r] = 1] /\ UNCHANGED <<wire, approved>>
  BY DEF Release, At, Return, GoTo, historyVars
<1>2. Serving(r) /\ HoldsOwn(r) /\ c \in Contexts
  BY <1>1 DEF PoolView, PoolPart, HoldsOwn, Serving
<1>3. /\ raw[c] \in Buffer /\ Owned(raw[c], r) /\ b \in Buffer /\ Owned(b, r)
  BY <1>2 DEF PathTypes, HoldsOwn
<1>4. /\ Recycled(raw[c]) \in Buffer /\ Blank(Recycled(raw[c]))
      /\ Recycled(b) \in Buffer /\ Blank(Recycled(b)) /\ Wiped(b).cells \in Seq(Cell)
  BY <1>3, RecycledIsBlank
<1>5. /\ raw' = [raw EXCEPT ![c] = Recycled(raw[c])]
      /\ clean' = [clean EXCEPT ![c] = Recycled(b)]
      /\ pool' = pool \cup {c}
  BY <1>1 DEF ReleaseContext
<1>6. /\ raw' \in [Contexts -> Buffer] /\ clean' \in [Contexts -> Buffer]
      /\ Blank(raw'[c]) /\ Blank(clean'[c])
      /\ \A d \in Contexts \ {c} : raw'[d] = raw[d] /\ clean'[d] = clean[d]
  BY <1>2, <1>4, <1>5 DEF PathTypes
<1>7. /\ alias' \in [Requests -> [at : Contexts \cup {NoContext},
                                  kept : Seq(Cell), len : Nat]]
      /\ \A q \in Requests : alias[q].at # c => alias'[q] = alias[q]
  <2>1. CASE UNCHANGED alias
    BY <2>1 DEF PathTypes
  <2>2. CASE Detach(c, Wiped(b).cells)
    BY <2>2, <1>4, DetachFacts
  <2> QED
    BY <2>1, <2>2, <1>1 DEF ReleaseContext
<1>8. /\ marks' \in [Contexts -> [Fields -> Requests \cup {Nobody}]]
      /\ \A d \in Contexts \ {c} : marks'[d] = marks[d]
      /\ \A f \in {"std", "canary", "findings", "durations"} : marks'[c][f] = Nobody
  <2> DEFINE m == SetBy(Nobody, Fields \ Kept, marks[c])
  <2>1. marks[c] \in [Fields -> Requests \cup {Nobody}]
    BY <1>2 DEF PathTypes
  <2>2. marks' = [marks EXCEPT ![c] = m]
    BY <1>1 DEF ReleaseContext
  <2>3. /\ m \in [Fields -> Requests \cup {Nobody}]
        /\ \A f \in Fields : m[f] = IF f \in Fields \ Kept THEN Nobody ELSE marks[c][f]
    BY <2>1, SetByFacts, SMTT(30)
  <2> HIDE DEF m
  <2>4. \A f \in {"std", "canary", "findings", "durations"} : m[f] = Nobody
    BY <2>3 DEF Fields, Kept
  <2> QED
    BY <2>2, <2>3, <2>4, <1>2, MarksFacts
<1>0. /\ violations' \in [Contexts -> Buffer] /\ violations'[c].len = 0
      /\ \A d \in Contexts \ {c} : violations'[d] = violations[d]
  <2>1. violations' = [violations EXCEPT ![c] = Emptied(violations[c])]
    BY <1>1 DEF ReleaseContext
  <2>2. violations[c] \in Buffer
    BY <1>2 DEF PathTypes
  <2> QED
    BY <2>1, <2>2, <1>2, EmptiedFacts DEF PathTypes
<1>9. rpc' \in [Requests -> Places] /\ rpc'[r] = "done"
      /\ \A q \in Requests \ {r} : rpc'[q] = rpc[q]
  BY <1>1 DEF PathTypes, Places
<1>10. /\ ctx' \in [Requests -> Contexts \cup {NoContext}]
       /\ \A q \in Requests \ {r} : ctx'[q] = ctx[q]
  BY <1>1 DEF PathTypes
<1>11. stage' \in [Requests -> 1 .. Len(Pipeline) + 1]
  <2>1. 1 \in 1 .. Len(Pipeline) + 1
    BY PipelineFacts
  <2> QED
    BY <2>1, <1>1 DEF PathTypes
<1>12. pool' \subseteq Contexts
  BY <1>2, <1>5 DEF PathTypes
<1>13. PathTypes'
  BY <1>0, <1>1, <1>6, <1>7, <1>8, <1>9, <1>10, <1>11, <1>12 DEF PathTypes
<1>14. PoolPart(r)' /\ ~ Serving(r)'
  BY <1>9 DEF PoolPart, Serving
<1>15. \A q \in Requests \ {r} :
           /\ rpc'[q] = rpc[q] /\ ctx'[q] = ctx[q] /\ wire'[q] = wire[q]
           /\ alias'[q] = alias[q] \/ alias[q].at = c
  BY <1>1, <1>7, <1>9, <1>10
<1>16. \A d \in Contexts \ {c} :
           /\ raw'[d] = raw[d] /\ clean'[d] = clean[d]
           /\ violations'[d] = violations[d] /\ marks'[d] = marks[d]
           /\ d \in pool' => d \in pool
  BY <1>0, <1>5, <1>6, <1>8
<1>17. PoolView'
  BY <1>0, <1>2, <1>6, <1>8, <1>12, <1>14, <1>15, <1>16, PoolStep, SMTT(30)
<1> QED
  BY <1>13, <1>17

\* The transport reads the array of the request's own context.
LEMMA TransmitKeepsPool ==
    ASSUME PathTypes, PoolView, NEW r \in Requests, Transmit(r)
    PROVE  PathTypes' /\ PoolView'
<1>1. PICK i \in 1 .. alias[r].len : wire' = [wire EXCEPT ![r] = @ \cup {View(r)[i]}]
  BY DEF Transmit
<1>2. UNCHANGED <<poolVars, rpc, ctx, stage, approved>>
  BY DEF Transmit, historyVars
<1>3. UNCHANGED <<raw, clean, violations, marks, pool, alias, rpc, ctx, stage, approved>>
  BY <1>2 DEF poolVars
<1>4. wire = [q \in Requests |-> wire[q]]
  BY DEF PathTypes
<1>5. /\ wire' = [q \in Requests |-> wire'[q]]
      /\ wire'[r] = wire[r] \cup {View(r)[i]}
      /\ \A q \in Requests \ {r} : wire'[q] = wire[q]
  BY <1>1, <1>4
<1>6. PathTypes'
  BY <1>3, <1>5 DEF PathTypes
<1>7. PoolPart(r) /\ alias[r].len \in Nat
  BY DEF PoolView, PathTypes
<1>8. ~ Unsent(r)
  BY <1>7 DEF Unsent
<1>9. ASSUME rpc[r] \in {"await", "release"} PROVE ReadsOwn(r)'
  <2>1. ReadsOwn(r) /\ HoldsOwn(r)
    BY <1>7, <1>9 DEF PoolPart, Serving
  <2>2. alias[r].at = ctx[r] /\ alias[r].len <= clean[ctx[r]].len /\ wire[r] \subseteq {r}
    BY <2>1, <1>8 DEF ReadsOwn
  <2>3. ctx[r] \in Contexts /\ ctx[r] # NoContext
    BY <2>1, PoolAssumption DEF HoldsOwn
  <2>4. /\ clean[ctx[r]].len \in Nat /\ Len(clean[ctx[r]].cells) \in Nat
        /\ clean[ctx[r]].len <= Len(clean[ctx[r]].cells)
    BY <2>3, BufferParts DEF PathTypes
  <2>5. i \in 1 .. Len(clean[ctx[r]].cells) /\ i <= clean[ctx[r]].len
    BY <2>2, <2>4, <1>7
  <2>6. View(r)[i] = r
    BY <2>1, <2>2, <2>3, <2>5 DEF View, HoldsOwn, Owned
  <2>7. wire'[r] \subseteq {r}
    BY <2>2, <2>6, <1>5
  <2> QED
    BY <2>2, <2>7, <1>3 DEF ReadsOwn
<1>10. ASSUME Serving(r) PROVE HoldsOwn(r)'
  BY <1>3, <1>7, <1>10 DEF PoolPart, HoldsOwn, Serving, Owned, Shown
<1>11. PoolPart(r)'
  BY <1>3, <1>7, <1>8, <1>9, <1>10 DEF PoolPart, Serving
<1>12. Serving(r)' => Serving(r) /\ ctx'[r] = ctx[r]
  BY <1>3 DEF Serving
<1>13. PoolView'
  BY <1>2, <1>3, <1>5, <1>11, <1>12, PoolStay
<1> QED
  BY <1>6, <1>13

LEMMA CollectKeepsPool ==
    ASSUME PathTypes, PoolView, CollectPooled
    PROVE  PathTypes' /\ PoolView'
<1>1. PICK c \in Contexts : Collect(c)
  BY DEF CollectPooled
<1>2. UNCHANGED <<rpc, ctx, stage, wire, approved>>
  BY DEF CollectPooled, handlerVars, historyVars
<1>3. c \in pool /\ pool' = pool /\ raw' = [raw EXCEPT ![c] = Fresh]
      /\ violations' = [violations EXCEPT ![c] = NoViolations]
      /\ marks' = [marks EXCEPT ![c] = Unset] /\ SetClean(c, Fresh, FALSE)
  BY <1>1 DEF Collect
<1>4. /\ clean' \in [Contexts -> Buffer] /\ clean'[c] = Fresh
      /\ \A d \in Contexts \ {c} : clean'[d] = clean[d]
      /\ alias' \in [Requests -> [at : Contexts \cup {NoContext},
                                  kept : Seq(Cell), len : Nat]]
      /\ \A q \in Requests : alias[q].at # c => alias'[q] = alias[q]
  BY <1>3, FreshIsBlank, SetCleanFacts
<1>5. /\ raw' \in [Contexts -> Buffer] /\ raw'[c] = Fresh
      /\ \A d \in Contexts \ {c} : raw'[d] = raw[d]
  BY <1>3, FreshIsBlank DEF PathTypes
<1>6. Unset \in [Fields -> Requests \cup {Nobody}] /\ \A f \in Fields : Unset[f] = Nobody
  BY DEF Unset
<1>7. /\ marks' \in [Contexts -> [Fields -> Requests \cup {Nobody}]] /\ marks'[c] = Unset
      /\ \A d \in Contexts \ {c} : marks'[d] = marks[d]
  BY <1>3, <1>6, MarksFacts
<1>0. /\ violations' \in [Contexts -> Buffer] /\ violations'[c].len = 0
      /\ \A d \in Contexts \ {c} : violations'[d] = violations[d]
  BY <1>3, NoViolationsFacts DEF PathTypes
<1>8. PathTypes'
  BY <1>0, <1>2, <1>3, <1>4, <1>5, <1>7 DEF PathTypes
<1>9. PoolKeepsNoPayload'
  BY <1>0, <1>3, <1>4, <1>5, <1>6, <1>7, FreshIsBlank DEF Fields, PathTypes, PoolView, PoolKeepsNoPayload
<1>10. c # NoContext
  BY PoolAssumption
<1>11. ASSUME NEW q \in Requests PROVE PoolPart(q)'
  <2>1. Serving(q) => ctx[q] # c
    BY <1>3, Apart
  <2>2. PoolPart(q)
    BY DEF PoolView
  <2>3. \A p \in Requests \ {q} :
            Serving(p)' => ctx'[p] = c \/ (Serving(p) /\ ctx'[p] = ctx[p])
    BY <1>2 DEF Serving
  <2>4. /\ rpc'[q] = rpc[q] /\ ctx'[q] = ctx[q] /\ wire'[q] = wire[q]
        /\ alias'[q] = alias[q] \/ (alias[q].at = c /\ c # NoContext)
    BY <1>2, <1>4, <1>10
  <2>5. \A d \in Contexts \ {c} :
            /\ raw'[d] = raw[d] /\ clean'[d] = clean[d]
            /\ violations'[d] = violations[d] /\ marks'[d] = marks[d]
            /\ d \in pool' => d \in pool
    BY <1>0, <1>3, <1>4, <1>5, <1>7
  <2> QED
    BY <2>1, <2>2, <2>3, <2>4, <2>5, PartKept
<1> QED
  BY <1>8, <1>9, <1>11 DEF PoolView

\* The calls of Store, the changes of the tenant list and Destroy.
LEMMA FrameKeepsPool ==
    ASSUME PathTypes, PoolView, UNCHANGED <<poolVars, rpc, ctx, stage, wire, approved>>
    PROVE  PathTypes' /\ PoolView'
<1>1. UNCHANGED <<raw, clean, violations, marks, pool, alias, rpc, ctx, stage, wire, approved>>
  BY DEF poolVars
<1>2. PathTypes'
  BY <1>1 DEF PathTypes
<1> QED
  BY <1>1, <1>2, PoolFrame

\* The scanner reports the secret that it has stored.
LEMMA StoreEndsKeepsPool ==
    ASSUME PathTypes, PoolView, CallView, NEW r \in Requests, StoreEnds(r)
    PROVE  PathTypes' /\ PoolView'
<1> DEFINE c == ctx[r]
<1>1. /\ call[r] # NoCall /\ AddViolations(c, r, 1)
      /\ UNCHANGED <<raw, clean, marks, pool, alias, rpc, ctx, stage, wire, approved>>
  BY DEF StoreEnds
<1>2. rpc[r] = "pipeline"
  BY <1>1 DEF CallView, Running, At
<1>3. PoolPart(r) /\ Serving(r) /\ HoldsOwn(r) /\ Unsent(r) /\ c \in Contexts
  BY <1>2 DEF PoolView, PoolPart, Serving, HoldsOwn
<1>4. /\ violations' \in [Contexts -> Buffer] /\ Shown(violations'[c], r)
      /\ \A d \in Contexts \ {c} : violations'[d] = violations[d]
  BY <1>1, <1>3, AddViolationsFacts DEF HoldsOwn
<1>5. PathTypes'
  BY <1>1, <1>4 DEF PathTypes
<1>6. HoldsOwn(r)'
  BY <1>1, <1>3, <1>4 DEF HoldsOwn, Serving, Owned, Shown
<1>7. PoolPart(r)'
  BY <1>1, <1>2, <1>3, <1>6 DEF PoolPart, Unsent
<1>8. pool' \subseteq Contexts /\ c \notin pool' /\ ctx'[r] = c
  BY <1>1, <1>3, <1>5 DEF PathTypes, HoldsOwn
<1>9. PoolView'
  BY <1>1, <1>3, <1>4, <1>7, <1>8, PoolStep
<1> QED
  BY <1>5, <1>9

LEMMA PoolViewStep ==
    ASSUME PathTypes, PoolView, CallView, [PathNext]_pathVars
    PROVE  PathTypes' /\ PoolView'
<1>1. CASE UNCHANGED pathVars
  BY <1>1, FrameKeepsPool DEF pathVars, handlerVars, historyVars
<1>2. ASSUME NEW r \in Requests, StoreBegins(r)
      PROVE  PathTypes' /\ PoolView'
  BY <1>2, FrameKeepsPool DEF StoreBegins, historyVars
<1>3. CASE UpdateTenants \/ DestroyBegins \/ DestroyEnds
  BY <1>3, FrameKeepsPool
     DEF UpdateTenants, DestroyBegins, DestroyEnds, handlerVars, historyVars
<1>4. ASSUME NEW r \in Requests, HandlerStep(r) \/ Transmit(r)
      PROVE  PathTypes' /\ PoolView'
  BY <1>2, <1>4, PlaceKeepsPool, BeginKeepsPool, StageSteps, StageKeepsPool, SendKeepsPool,
     StoreEndsKeepsPool, ReleaseKeepsPool, TransmitKeepsPool
     DEF HandlerStep
<1> QED
  BY <1>1, <1>3, <1>4, CollectKeepsPool DEF PathNext

-----------------------------------------------------------------------------
(***************************************************************************)
(* Calls of Store                                                          *)
(***************************************************************************)
LEMMA CallKept ==
    ASSUME CallView, NEW r \in Requests,
           \A q \in Requests \ {r} :
               call'[q] = call[q] /\ rpc'[q] = rpc[q] /\ stage'[q] = stage[q],
           call'[r] # NoCall => Running(r, "redact")'
    PROVE  CallView'
<1> SUFFICES ASSUME NEW q \in Requests, call'[q] # NoCall
             PROVE  Running(q, "redact")'
  BY DEF CallView
<1>1. CASE q = r
  BY <1>1
<1>2. CASE q # r
  BY <1>2 DEF CallView, Running, At
<1> QED
  BY <1>1, <1>2

LEMMA CallViewStep ==
    ASSUME PathTypes, PoolView, CallView, call = [r \in Requests |-> call[r]],
           [PathNext]_pathVars
    PROVE  CallView'
<1>1. CASE UNCHANGED <<call, rpc, stage>>
  BY <1>1 DEF CallView, Running, At
<1>2. CASE UNCHANGED pathVars
  BY <1>1, <1>2 DEF pathVars, handlerVars
<1>3. CASE UpdateTenants \/ DestroyBegins \/ DestroyEnds \/ CollectPooled
  BY <1>1, <1>3 DEF UpdateTenants, DestroyBegins, DestroyEnds, CollectPooled, handlerVars
<1>4. ASSUME NEW r \in Requests, Transmit(r) PROVE CallView'
  BY <1>1, <1>4 DEF Transmit
<1>5. ASSUME NEW r \in Requests, StoreBegins(r) PROVE CallView'
  <2>1. /\ Running(r, "redact") /\ UNCHANGED <<rpc, stage>>
        /\ \A q \in Requests \ {r} : call'[q] = call[q]
    BY <1>5 DEF StoreBegins
  <2> QED
    BY <2>1, CallKept DEF Running, At
<1>6. ASSUME NEW r \in Requests, StoreEnds(r) PROVE CallView'
  <2>1. /\ call' = [call EXCEPT ![r] = NoCall] /\ UNCHANGED <<rpc, stage>>
    BY <1>6 DEF StoreEnds
  <2> QED
    BY <2>1, CallKept
<1>7. ASSUME NEW r \in Requests, call[r] = NoCall, call' = call,
             \A q \in Requests \ {r} : rpc'[q] = rpc[q] /\ stage'[q] = stage[q]
      PROVE  CallView'
  BY <1>7, CallKept
<1>8. ASSUME NEW r \in Requests,
             \/ AuthFails(r) \/ AuthPasses(r) \/ BodyFails(r) \/ Begin(r)
             \/ Refused(r) \/ Send(r) \/ Answered(r) \/ Release(r)
      PROVE  CallView'
  <2>1. rpc[r] # "pipeline" /\ call' = call
    BY <1>8 DEF AuthFails, AuthPasses, BodyFails, Begin, Refused, Send, Answered, Release,
                Return, At
  <2>2. \A q \in Requests \ {r} : rpc'[q] = rpc[q] /\ stage'[q] = stage[q]
    BY <1>8 DEF AuthFails, AuthPasses, BodyFails, Begin, Refused, Send, Answered, Release,
                Return, GoTo, PathTypes
  <2>3. call[r] = NoCall
    BY <2>1 DEF CallView, Running, At
  <2> QED
    BY <1>7, <2>1, <2>2, <2>3
<1>9. ASSUME NEW r \in Requests, Inspect(r) \/ Sanitize(r) \/ Canary(r) \/ Redact(r)
      PROVE  CallView'
  <2>1. StageStep(r) /\ ctx[r] \in Contexts
    BY <1>9, StageSteps
  <2>2. PICK result \in Results(r) : Settle(r, result)
    BY <2>1 DEF StageStep
  <2>3. \A q \in Requests \ {r} : rpc'[q] = rpc[q] /\ stage'[q] = stage[q]
    BY <2>1, <2>2, SettleFacts DEF StageStep
  <2>4. call' = call
    BY <2>2 DEF Settle
  <2>5. call[r] = NoCall
    BY <1>9 DEF Inspect, Sanitize, Canary, Redact, CallView, Running
  <2> QED
    BY <1>7, <2>3, <2>4, <2>5
<1>10. ASSUME NEW r \in Requests, HandlerStep(r) PROVE CallView'
  BY <1>5, <1>6, <1>8, <1>9, <1>10 DEF HandlerStep
<1> QED
  BY <1>2, <1>3, <1>4, <1>10 DEF PathNext

-----------------------------------------------------------------------------
(***************************************************************************)
(* Inspection                                                              *)
(***************************************************************************)
LEMMA InspectKept ==
    ASSUME NEW q \in Requests, InspectPart(q), approved'[q] = approved[q],
           alias'[q].len = alias[q].len \/ rpc[q] = "forward",
           wire'[q] = wire[q] \/ alias[q].len > 0,
           \/ rpc'[q] = rpc[q] /\ stage'[q] = stage[q]
           \/ rpc'[q] \in {"release", "done"}
           \/ rpc[q] = "auth" /\ rpc'[q] = "body" /\ stage'[q] = stage[q]
           \/ rpc[q] = "forward" /\ rpc'[q] = "await"
    PROVE  InspectPart(q)'
<1>1. \A n : ApprovedBefore(q, n)' <=> ApprovedBefore(q, n)
  BY DEF ApprovedBefore
<1>2. (ApprovedBefore(q, stage[q]) /\ stage'[q] = stage[q]) => ApprovedBefore(q, stage[q])'
  BY DEF ApprovedBefore
<1> QED
  BY <1>1, <1>2 DEF InspectPart, ApprovedBefore

\* A stage that does not block has let the request pass, if it fails closed.
LEMMA SettleApproves ==
    ASSUME PathTypes, NEW r \in Requests, rpc[r] = "pipeline", stage[r] <= Len(Pipeline),
           ApprovedBefore(r, stage[r]), NEW result \in Results(r), Settle(r, result)
    PROVE  \/ rpc'[r] = "release" /\ approved' = approved
           \/ rpc'[r] = "pipeline" /\ ApprovedBefore(r, stage[r])'
           \/ rpc'[r] = "forward" /\ ApprovedBefore(r, Len(Pipeline) + 1)'
<1> DEFINE s == Pipeline[stage[r]]
<1>1. Len(Pipeline) \in Nat /\ stage[r] \in 1 .. Len(Pipeline)
  BY PipelineFacts DEF PathTypes
<1>2. result \in StageResults /\ s.failClosed \in BOOLEAN
  BY <1>1, PipelineFacts DEF Results
<1>3. CASE Blocks(s, result)
  BY <1>3 DEF Settle, GoTo, PathTypes
<1>4. CASE ~ Blocks(s, result)
  <2>1. s.failClosed => result \in Passes
    BY <1>2, <1>4 DEF Blocks, Passes, StageResults
  <2>2. /\ stage' = [stage EXCEPT ![r] = stage[r] + 1]
        /\ rpc' = [rpc EXCEPT ![r] =
                      IF stage[r] = Len(Pipeline) THEN "forward" ELSE "pipeline"]
        /\ s.failClosed => approved' = [approved EXCEPT ![r] = approved[r] \cup {stage[r]}]
        /\ ~ s.failClosed => approved' = approved
    BY <1>4, <2>1 DEF Settle, GoTo
  <2>3. stage'[r] = stage[r] + 1
    BY <2>2 DEF PathTypes
  <2>4. /\ approved[r] \subseteq approved'[r]
        /\ s.failClosed => stage[r] \in approved'[r]
    BY <2>2 DEF PathTypes
  <2>5. ASSUME NEW i \in 1 .. Len(Pipeline), i < stage[r] + 1, Pipeline[i].failClosed
        PROVE  i \in approved'[r]
    <3>1. CASE i = stage[r]
      BY <2>4, <2>5, <3>1
    <3>2. CASE i < stage[r]
      BY <2>4, <2>5, <3>2 DEF ApprovedBefore
    <3> QED
      BY <1>1, <2>5, <3>1, <3>2
  <2>6. ApprovedBefore(r, stage[r])'
    BY <2>3, <2>5 DEF ApprovedBefore
  <2>7. stage[r] = Len(Pipeline) => ApprovedBefore(r, Len(Pipeline) + 1)'
    BY <2>5 DEF ApprovedBefore
  <2>8. rpc'[r] = IF stage[r] = Len(Pipeline) THEN "forward" ELSE "pipeline"
    BY <2>2 DEF PathTypes
  <2> QED
    BY <2>6, <2>7, <2>8
<1> QED
  BY <1>3, <1>4

LEMMA StageKeepsInspect ==
    ASSUME PathTypes, PoolView, InspectView, NEW r \in Requests, StageStep(r),
           ctx[r] \in Contexts
    PROVE  InspectView'
<1>1. PICK result \in Results(r) : Settle(r, result)
  BY DEF StageStep
<1>2. rpc[r] = "pipeline" /\ stage[r] <= Len(Pipeline) /\ ApprovedBefore(r, stage[r])
  BY DEF StageStep, InspectView, InspectPart
<1>3. \A q \in Requests : alias'[q].len = alias[q].len
  <2>1. CASE UNCHANGED <<clean, alias>>
    BY <2>1
  <2>2. CASE \E b \in Buffer, inPlace \in BOOLEAN : SetClean(ctx[r], b, inPlace)
    BY <2>2, SetCleanFacts
  <2> QED
    BY <2>1, <2>2 DEF StageStep
<1>4. /\ wire' = wire
      /\ \A q \in Requests \ {r} : /\ rpc'[q] = rpc[q] /\ stage'[q] = stage[q]
                                   /\ approved'[q] = approved[q]
  BY <1>1, <1>2, SettleFacts
<1>5. alias[r].len = 0 /\ wire[r] = {}
  BY <1>2 DEF PoolView, PoolPart, Unsent
<1>6. InspectPart(r)'
  <2>1. alias'[r].len = 0 /\ wire'[r] = {}
    BY <1>3, <1>4, <1>5
  <2>2. \/ rpc'[r] = "release"
        \/ rpc'[r] = "pipeline" /\ ApprovedBefore(r, stage[r])'
        \/ rpc'[r] = "forward" /\ ApprovedBefore(r, Len(Pipeline) + 1)'
    BY <1>1, <1>2, SettleApproves
  <2> QED
    BY <2>1, <2>2 DEF InspectPart, ApprovedBefore
<1>7. ASSUME NEW q \in Requests \ {r} PROVE InspectPart(q)'
  BY <1>3, <1>4, <1>7, InspectKept DEF InspectView
<1> QED
  BY <1>6, <1>7 DEF InspectView

LEMMA BeginKeepsInspect ==
    ASSUME PathTypes, PoolView, InspectView, NEW r \in Requests, Begin(r)
    PROVE  InspectView'
<1>1. PICK c \in Contexts, n \in BodyLengths : AcquireContext(r, c, n, r \in Streaming)
  BY DEF Begin
<1>2. /\ rpc[r] = "body" /\ rpc' = [rpc EXCEPT ![r] = "pipeline"]
      /\ UNCHANGED <<stage, wire, approved>>
  BY DEF Begin, At, GoTo, historyVars
<1>3. \A q \in Requests : alias'[q].len = alias[q].len
  <2>1. clean[c].cells \in Seq(Cell)
    BY BufferParts DEF PathTypes
  <2>2. UNCHANGED alias \/ Detach(c, clean[c].cells)
    BY <1>1 DEF AcquireContext, SetClean
  <2> QED
    BY <2>1, <2>2, DetachFacts
<1>4. rpc'[r] = "pipeline" /\ \A q \in Requests \ {r} : rpc'[q] = rpc[q]
  BY <1>2 DEF PathTypes
<1>5. InspectPart(r)'
  <2>1. alias[r].len = 0 /\ wire[r] = {}
    BY <1>2 DEF PoolView, PoolPart, Unsent
  <2>2. stage'[r] = 1
    BY <1>2 DEF InspectView, InspectPart
  <2>3. ApprovedBefore(r, stage[r])'
    BY <2>2, PipelineFacts DEF ApprovedBefore
  <2> QED
    BY <2>1, <2>3, <1>2, <1>3, <1>4 DEF InspectPart
<1>6. ASSUME NEW q \in Requests \ {r} PROVE InspectPart(q)'
  BY <1>2, <1>3, <1>4, <1>6, InspectKept DEF InspectView
<1> QED
  BY <1>5, <1>6 DEF InspectView

\* The steps that run no stage.
LEMMA PlaceKeepsInspect ==
    ASSUME PathTypes, PoolView, InspectView, NEW r \in Requests,
           \/ AuthFails(r) \/ AuthPasses(r) \/ BodyFails(r)
           \/ Refused(r) \/ Send(r) \/ Answered(r) \/ Release(r) \/ Transmit(r)
    PROVE  InspectView'
<1>1. approved' = approved
  BY DEF AuthFails, AuthPasses, BodyFails, Refused, Send, Answered, Release, Transmit,
         Return, historyVars
<1>2. \A q \in Requests : alias'[q].len = alias[q].len \/ rpc[q] = "forward"
  <2>1. CASE Release(r)
    <3>1. rpc[r] = "release" /\ ReleaseContext(ctx[r])
      BY <2>1 DEF Release, At
    <3>2. HoldsOwn(r)
      BY <3>1 DEF PoolView, PoolPart, Serving
    <3>3. Wiped(clean[ctx[r]]).cells \in Seq(Cell)
      BY <3>2, RecycledIsBlank DEF HoldsOwn, PathTypes
    <3>4. UNCHANGED alias \/ Detach(ctx[r], Wiped(clean[ctx[r]]).cells)
      BY <3>1 DEF ReleaseContext
    <3> QED
      BY <3>3, <3>4, DetachFacts
  <2>2. CASE Send(r)
    BY <2>2 DEF Send, At, PathTypes
  <2>3. CASE ~ Release(r) /\ ~ Send(r)
    BY <2>3 DEF AuthFails, AuthPasses, BodyFails, Refused, Answered, Transmit, poolVars
  <2> QED
    BY <2>1, <2>2, <2>3
<1>3. \A q \in Requests : wire'[q] = wire[q] \/ alias[q].len > 0
  <2>1. CASE Transmit(r)
    <3>1. PICK i \in 1 .. alias[r].len : wire' = [wire EXCEPT ![r] = @ \cup {View(r)[i]}]
      BY <2>1 DEF Transmit
    <3>2. alias[r].len > 0
      BY <3>1 DEF PathTypes
    <3>3. wire = [q \in Requests |-> wire[q]]
      BY DEF PathTypes
    <3> QED
      BY <3>1, <3>2, <3>3
  <2>2. CASE ~ Transmit(r)
    BY <2>2 DEF AuthFails, AuthPasses, BodyFails, Refused, Send, Answered, Release, Return
  <2> QED
    BY <2>1, <2>2
<1>4. \/ UNCHANGED <<rpc, stage>>
      \/ \E p \in {"release", "done"} : /\ rpc' = [rpc EXCEPT ![r] = p]
                                        /\ \/ stage' = stage
                                           \/ stage' = [stage EXCEPT ![r] = 1]
      \/ rpc[r] = "auth" /\ rpc' = [rpc EXCEPT ![r] = "body"] /\ stage' = stage
      \/ rpc[r] = "forward" /\ rpc' = [rpc EXCEPT ![r] = "await"] /\ stage' = stage
  BY DEF AuthFails, AuthPasses, BodyFails, Refused, Send, Answered, Release, Transmit,
         Return, At, GoTo
<1>5. ASSUME NEW q \in Requests PROVE InspectPart(q)'
  <2>1. \/ rpc'[q] = rpc[q] /\ stage'[q] = stage[q]
        \/ rpc'[q] \in {"release", "done"}
        \/ rpc[q] = "auth" /\ rpc'[q] = "body" /\ stage'[q] = stage[q]
        \/ rpc[q] = "forward" /\ rpc'[q] = "await"
    BY <1>4 DEF PathTypes
  <2> QED
    BY <1>1, <1>2, <1>3, <2>1, InspectKept DEF InspectView
<1> QED
  BY <1>5 DEF InspectView

LEMMA FrameKeepsInspect ==
    ASSUME InspectView, UNCHANGED <<rpc, stage, wire, approved>>,
           \A q \in Requests : alias'[q].len = alias[q].len
    PROVE  InspectView'
  BY InspectKept DEF InspectView

LEMMA InspectViewStep ==
    ASSUME PathTypes, PoolView, InspectView, [PathNext]_pathVars
    PROVE  InspectView'
<1>1. CASE UNCHANGED pathVars
  BY <1>1, FrameKeepsInspect DEF pathVars, handlerVars, historyVars, poolVars
<1>2. ASSUME NEW r \in Requests, StoreBegins(r) \/ StoreEnds(r) PROVE InspectView'
  BY <1>2, FrameKeepsInspect DEF StoreBegins, StoreEnds, historyVars, poolVars
<1>3. CASE UpdateTenants \/ DestroyBegins \/ DestroyEnds
  BY <1>3, FrameKeepsInspect
     DEF UpdateTenants, DestroyBegins, DestroyEnds, handlerVars, historyVars, poolVars
<1>4. CASE CollectPooled
  <2>1. PICK c \in Contexts : SetClean(c, Fresh, FALSE)
    BY <1>4 DEF CollectPooled, Collect
  <2>2. \A q \in Requests : alias'[q].len = alias[q].len
    BY <2>1, FreshIsBlank, SetCleanFacts
  <2> QED
    BY <1>4, <2>2, FrameKeepsInspect DEF CollectPooled, handlerVars, historyVars
<1>5. ASSUME NEW r \in Requests, HandlerStep(r) \/ Transmit(r) PROVE InspectView'
  BY <1>2, <1>5, StageSteps, StageKeepsInspect, BeginKeepsInspect, PlaceKeepsInspect
     DEF HandlerStep
<1> QED
  BY <1>1, <1>3, <1>4, <1>5 DEF PathNext

-----------------------------------------------------------------------------
(***************************************************************************)
(* Tenants                                                                 *)
(***************************************************************************)
\* A nonempty set of naturals below a bound has a largest element.
LEMMA MaxInSet ==
    ASSUME NEW n \in Nat, NEW S \in SUBSET (1 .. n), S # {}
    PROVE  Max(S) \in S
<1> DEFINE T == {n - i : i \in S}
<1>1. T \subseteq Nat /\ T # {}
  <2>1. \A i \in S : i \in Nat /\ i <= n /\ n - i \in Nat
    OBVIOUS
  <2>2. PICK i \in S : TRUE
    OBVIOUS
  <2>3. n - i \in T
    OBVIOUS
  <2> QED
    BY <2>1, <2>3
<1>2. PICK x \in T : \A y \in T : ~ (y < x)
  <2> HIDE DEF T
  <2> DEFINE R == OpToRel(<, Nat)
  <2>1. IsWellFoundedOn(R, Nat)
    BY NatLessThanWellFounded
  <2>2. \A x, y \in Nat : y < x => <<y, x>> \in R
    BY DEF OpToRel
  <2> HIDE DEF R
  <2>3. PICK x \in T : \A y \in T : ~ (<<y, x>> \in R)
    BY <1>1, <2>1, WFMin
  <2> QED
    BY <1>1, <2>2, <2>3
<1>3. PICK i \in S : x = n - i
  OBVIOUS
<1>4. \A j \in S : i >= j
  BY <1>2, <1>3
<1> QED
  BY <1>4 DEF Max

Array == [entries : Seq(Tenants), cap : Nat]

LEMMA ArrayParts ==
    ASSUME TenantView, NEW i \in 1 .. Len(arrays)
    PROVE  /\ arrays[i] \in Array /\ arrays[i].entries \in Seq(Tenants)
           /\ Len(arrays[i].entries) \in Nat
           /\ \A k \in 1 .. Len(arrays[i].entries) : arrays[i].entries[k] \in Tenants
<1>1. arrays[i] \in Array
  BY ElementOfSeq DEF TenantView, Array
<1>2. arrays[i].entries \in Seq(Tenants)
  BY <1>1 DEF Array
<1> QED
  BY <1>1, <1>2, ElementOfSeq, LenProperties

LEMMA ArrayOfFacts == ASSUME NEW list \in Seq(Tenants) PROVE ArrayOf(list) \in Array
  BY LenProperties DEF ArrayOf, Array

\* The array in use is overwritten.
LEMMA ArrayWritten ==
    ASSUME TenantView, NEW a \in Array, arrays' = [arrays EXCEPT ![current] = a],
           current' = current
    PROVE  arrays' \in Seq(Array) /\ current' \in 1 .. Len(arrays')
<1>1. arrays \in Seq(Array) /\ current \in 1 .. Len(arrays)
  BY DEF TenantView, Array
<1> HIDE DEF Array
<1>2. arrays' \in Seq(Array) /\ Len(arrays') = Len(arrays)
  BY <1>1, ExceptSeq
<1> QED
  BY <1>1, <1>2

\* Another array is put in use; the ones before it keep their place.
LEMMA ArrayAdded ==
    ASSUME TenantView, NEW a \in Array, arrays' = Append(arrays, a),
           current' = Len(arrays) + 1
    PROVE  /\ arrays' \in Seq(Array) /\ current' \in 1 .. Len(arrays')
           /\ Len(arrays') = Len(arrays) + 1 /\ Len(arrays) \in Nat
           /\ \A i \in 1 .. Len(arrays) : arrays'[i] = arrays[i]
<1>1. arrays \in Seq(Array)
  BY DEF TenantView, Array
<1> HIDE DEF Array
<1>2. /\ arrays' \in Seq(Array) /\ Len(arrays') = Len(arrays) + 1
      /\ \A i \in 1 .. Len(arrays) : arrays'[i] = arrays[i]
  BY <1>1, AppendProperties
<1> QED
  BY <1>1, <1>2, LenProperties

LEMMA SeqWritten ==
    ASSUME NEW S, NEW seq \in Seq(S), NEW i, NEW x \in S
    PROVE  [seq EXCEPT ![i] = x] \in Seq(S)
<1>1. Len(seq) \in Nat /\ seq \in [1 .. Len(seq) -> S]
  BY LenProperties
<1>2. [seq EXCEPT ![i] = x] \in [1 .. Len(seq) -> S]
  BY <1>1
<1> QED
  BY <1>1, <1>2, FunctionIsSeq

LEMMA EntriesReplaced ==
    ASSUME NEW a \in Array, NEW e
    PROVE  [a EXCEPT !.entries = e] = [entries |-> e, cap |-> a.cap]
  BY DEF Array

LEMMA AddTenantFacts ==
    ASSUME TenantView, NEW t \in Tenants, AddTenant(t)
    PROVE  arrays' \in Seq(Array) /\ current' \in 1 .. Len(arrays')
<1> DEFINE a == arrays[current]
<1>1. /\ current \in 1 .. Len(arrays) /\ a \in Array /\ a.entries \in Seq(Tenants)
      /\ Len(a.entries) \in Nat
  BY ArrayParts DEF TenantView
<1>2. a = [entries |-> a.entries, cap |-> a.cap] /\ a.cap \in Nat
  BY <1>1 DEF Array
<1>3. CASE UpdateTenant(t)
  <2> DEFINE m == Min(Conflicts(t))
             e == [a.entries EXCEPT ![m] = t]
             b == [entries |-> e, cap |-> a.cap]
  <2>1. arrays' = [arrays EXCEPT ![current].entries[m] = t] /\ current' = current
    BY <1>3 DEF UpdateTenant
  <2>2. e \in Seq(Tenants)
    BY <1>1, SeqWritten
  <2>3. b \in Array
    BY <2>2, <1>2 DEF Array
  <2>4. arrays' = [arrays EXCEPT ![current] = b]
    <3>1. arrays' = [arrays EXCEPT ![current] = [arrays[current] EXCEPT !.entries =
                        [arrays[current].entries EXCEPT ![m] = t]]]
      BY <2>1
    <3> QED
      BY <3>1, <1>1, EntriesReplaced
  <2> HIDE DEF b
  <2> QED
    BY <2>1, <2>3, <2>4, ArrayWritten
<1>4. CASE AppendTenant(t)
  <2> DEFINE e == Append(a.entries, t)
             k == Max({1, 2 * Len(a.entries)})
             b == [entries |-> e, cap |-> a.cap]
             g == [entries |-> e, cap |-> k]
  <2>1. e \in Seq(Tenants)
    BY <1>1, AppendProperties
  <2>2. k \in Nat
    <3> DEFINE n == 2 * Len(a.entries)
    <3>1. n \in Nat
      BY <1>1
    <3> HIDE DEF n
    <3>2. \E x \in {1, n} : \A y \in {1, n} : x >= y
      BY <3>1
    <3>3. Max({1, n}) \in {1, n}
      BY <3>2 DEF Max
    <3> QED
      BY <3>1, <3>3 DEF n
  <2>3. b \in Array /\ g \in Array
    BY <2>1, <2>2, <1>2 DEF Array
  <2>4. \/ arrays' = Append(arrays, g) /\ current' = Len(arrays) + 1
        \/ arrays' = [arrays EXCEPT ![current].entries = e] /\ current' = current
    BY <1>4 DEF AppendTenant, List
  <2>5. CASE arrays' = Append(arrays, g) /\ current' = Len(arrays) + 1
    BY <2>3, <2>5, ArrayAdded
  <2>6. CASE arrays' = [arrays EXCEPT ![current].entries = e] /\ current' = current
    <3>1. arrays' = [arrays EXCEPT ![current] = b]
      <4>1. arrays' = [arrays EXCEPT ![current] = [arrays[current] EXCEPT !.entries = e]]
        BY <2>6
      <4> QED
        BY <4>1, <1>1, EntriesReplaced
    <3> QED
      BY <2>3, <2>6, <3>1, ArrayWritten
  <2> QED
    BY <2>4, <2>5, <2>6
<1> QED
  BY <1>3, <1>4 DEF AddTenant

\* A pointer keeps its target when another array is put in use.
LEMMA TenantKept ==
    ASSUME TenantView, NEW q \in Requests,
           \/ UNCHANGED tenantVars
           \/ /\ Len(arrays') = Len(arrays) + 1 /\ Len(arrays) \in Nat
              /\ \A i \in 1 .. Len(arrays) : arrays'[i] = arrays[i],
           rpc'[q] = "body" => rpc[q] = "body" /\ tc'[q] = tc[q],
           Serving(q)' => Serving(q) /\ tenant'[q] = tenant[q],
           verified'[q] = verified[q]
    PROVE  TenantPart(q)'
<1>1. TenantPart(q)
  BY DEF TenantView
<1>2. ASSUME rpc'[q] = "body" PROVE IsPointer(tc[q])' /\ Deref(tc[q])' = Deref(tc[q])
  <2>1. IsPointer(tc[q]) /\ tc'[q] = tc[q]
    BY <1>1, <1>2 DEF TenantPart
  <2>2. arrays'[tc[q][1]] = arrays[tc[q][1]] /\ tc[q][1] \in 1 .. Len(arrays')
    <3>1. CASE UNCHANGED tenantVars
      BY <2>1, <3>1 DEF tenantVars, IsPointer
    <3>2. CASE /\ Len(arrays') = Len(arrays) + 1 /\ Len(arrays) \in Nat
               /\ \A i \in 1 .. Len(arrays) : arrays'[i] = arrays[i]
      BY <2>1, <3>2 DEF IsPointer
    <3> QED
      BY <3>1, <3>2
  <2> QED
    BY <2>1, <2>2 DEF IsPointer, Deref
<1> QED
  BY <1>1, <1>2 DEF TenantPart

LEMMA UpdateKeepsTenants ==
    ASSUME PathTypes, TenantView, UpdateTenants
    PROVE  TenantView'
<1>1. UNCHANGED <<rpc, tc, tenant, verified>>
  BY DEF UpdateTenants, handlerVars, historyVars
<1>2. CASE \E list \in TenantUpdates : SetTenants(list)
  <2>1. PICK list \in TenantUpdates : SetTenants(list)
    BY <1>2
  <2>2. ArrayOf(list) \in Array
    BY PathAssumption, ArrayOfFacts
  <2>3. /\ arrays' \in Seq(Array) /\ current' \in 1 .. Len(arrays')
        /\ Len(arrays') = Len(arrays) + 1 /\ Len(arrays) \in Nat
        /\ \A i \in 1 .. Len(arrays) : arrays'[i] = arrays[i]
    BY <2>1, <2>2, ArrayAdded DEF SetTenants
  <2>4. ASSUME NEW q \in Requests PROVE TenantPart(q)'
    BY <1>1, <2>3, TenantKept DEF Serving
  <2> QED
    BY <1>1, <2>3, <2>4 DEF TenantView, Array
<1>3. CASE /\ \A r \in Requests : rpc[r] = "auth"
           /\ \E t \in AddedTenants : AddTenant(t)
  <2>1. arrays' \in Seq(Array) /\ current' \in 1 .. Len(arrays')
    BY <1>3, PathAssumption, AddTenantFacts
  <2>2. ASSUME NEW q \in Requests PROVE TenantPart(q)'
    BY <1>1, <1>3 DEF TenantPart, Serving
  <2> QED
    BY <1>1, <2>1, <2>2 DEF TenantView, Array
<1> QED
  BY <1>2, <1>3 DEF UpdateTenants

LEMMA AuthKeepsTenants ==
    ASSUME PathTypes, TenantView, NEW r \in Requests, AuthPasses(r)
    PROVE  TenantView'
<1>1. PICK key \in Keys :
          /\ KeyAccepted(key)
          /\ tc' = [tc EXCEPT ![r] = Matched(key)]
          /\ verified' = [verified EXCEPT ![r] = Deref(Matched(key))]
  BY DEF AuthPasses
<1>2. /\ rpc' = [rpc EXCEPT ![r] = "body"]
      /\ UNCHANGED <<arrays, current, tenant>>
  BY DEF AuthPasses, GoTo, tenantSideVars, tenantVars
<1>3. tc = [q \in Requests |-> tc[q]]
  BY DEF TenantView
<1>4. /\ rpc'[r] = "body" /\ \A q \in Requests \ {r} : rpc'[q] = rpc[q]
  BY <1>2 DEF PathTypes
<1>5. /\ tc' = [q \in Requests |-> tc'[q]]
      /\ tc'[r] = Matched(key) /\ \A q \in Requests \ {r} : tc'[q] = tc[q]
  BY <1>1, <1>3
<1>6. /\ current \in 1 .. Len(arrays) /\ Len(List) \in Nat
      /\ \A k \in 1 .. Len(List) : List[k] \in Tenants
  BY ArrayParts DEF TenantView, List
<1>7. Max(Matches(key)) \in 1 .. Len(List)
  <2>1. Matches(key) \in SUBSET (1 .. Len(List)) /\ Matches(key) # {}
    BY <1>1 DEF KeyAccepted, KeyKnown, Matches
  <2> QED
    BY <2>1, <1>6, MaxInSet
<1>8. /\ IsPointer(Matched(key)) /\ Deref(Matched(key)) \in Tenants
      /\ Deref(Matched(key)).enabled
  BY <1>1, <1>6, <1>7 DEF IsPointer, Matched, Deref, List, KeyAccepted
<1>9. /\ verified' \in [Requests -> Tenants \cup {NoTenant}]
      /\ verified'[r] = Deref(Matched(key))
      /\ \A q \in Requests \ {r} : verified'[q] = verified[q]
  BY <1>1, <1>8 DEF TenantView
<1>10. TenantPart(r)'
  BY <1>2, <1>4, <1>5, <1>8, <1>9 DEF TenantPart, Serving, IsPointer, Deref
<1>11. ASSUME NEW q \in Requests \ {r} PROVE TenantPart(q)'
  BY <1>2, <1>4, <1>5, <1>9, <1>11, TenantKept DEF Serving, tenantVars
<1> QED
  BY <1>2, <1>5, <1>9, <1>10, <1>11 DEF TenantView

LEMMA BeginKeepsTenants ==
    ASSUME PathTypes, TenantView, NEW r \in Requests, Begin(r)
    PROVE  TenantView'
<1>1. /\ rpc[r] = "body" /\ rpc' = [rpc EXCEPT ![r] = "pipeline"]
      /\ tenant' = [tenant EXCEPT ![r] = Deref(tc[r]).id]
      /\ UNCHANGED <<arrays, current, tc, verified>>
  BY DEF Begin, At, GoTo, tenantSideVars, tenantVars, historyVars
<1>2. /\ verified[r] \in Tenants /\ verified[r].enabled /\ Deref(tc[r]) = verified[r]
  BY <1>1 DEF TenantView, TenantPart
<1>3. verified[r].id \in Seq(STRING)
  BY <1>2, PathAssumption
<1>4. /\ tenant' \in [Requests -> Seq(STRING)] /\ tenant'[r] = verified[r].id
      /\ \A q \in Requests \ {r} : tenant'[q] = tenant[q]
  BY <1>1, <1>2, <1>3 DEF TenantView
<1>5. rpc'[r] = "pipeline" /\ \A q \in Requests \ {r} : rpc'[q] = rpc[q]
  BY <1>1 DEF PathTypes
<1>6. TenantPart(r)'
  BY <1>1, <1>2, <1>4, <1>5 DEF TenantPart
<1>7. ASSUME NEW q \in Requests \ {r} PROVE TenantPart(q)'
  BY <1>1, <1>4, <1>5, <1>7, TenantKept DEF Serving, tenantVars
<1> QED
  BY <1>1, <1>4, <1>6, <1>7 DEF TenantView

\* The steps after which r is at a place between the same two, or nowhere.
LEMMA PlaceKeepsTenants ==
    ASSUME PathTypes, TenantView, NEW r \in Requests,
           UNCHANGED <<arrays, current, tenant, verified>>,
           \/ UNCHANGED rpc
           \/ \E p \in Places :
                  /\ rpc' = [rpc EXCEPT ![r] = p]
                  /\ p = "done" \/ (Serving(r) /\ p # "body"),
           \/ UNCHANGED tc
           \/ tc' = [tc EXCEPT ![r] = NoTenant] /\ rpc' = [rpc EXCEPT ![r] = "done"]
    PROVE  TenantView'
<1>1. tc = [q \in Requests |-> tc[q]]
  BY DEF TenantView
<1>2. /\ tc' = [q \in Requests |-> tc'[q]]
      /\ \A q \in Requests : tc'[q] = tc[q] \/ rpc'[q] = "done"
  BY <1>1 DEF PathTypes
<1>3. ASSUME NEW q \in Requests PROVE TenantPart(q)'
  <2>1. /\ rpc'[q] = "body" => rpc[q] = "body" /\ tc'[q] = tc[q]
        /\ Serving(q)' => Serving(q)
    BY <1>2 DEF PathTypes, Serving
  <2> QED
    BY <2>1, TenantKept DEF tenantVars
<1> QED
  BY <1>2, <1>3 DEF TenantView

LEMMA TenantViewStep ==
    ASSUME PathTypes, PoolView, TenantView, [PathNext]_pathVars
    PROVE  TenantView'
<1>1. CASE UNCHANGED <<arrays, current, rpc, tc, tenant, verified>>
  <2>1. ASSUME NEW q \in Requests PROVE TenantPart(q)'
    BY <1>1, TenantKept DEF Serving, tenantVars
  <2> QED
    BY <1>1, <2>1 DEF TenantView
<1>2. CASE UNCHANGED pathVars
  BY <1>1, <1>2 DEF pathVars, handlerVars, historyVars, tenantSideVars, tenantVars
<1>3. ASSUME NEW r \in Requests, StoreBegins(r) \/ StoreEnds(r) \/ Transmit(r)
      PROVE  TenantView'
  BY <1>1, <1>3
     DEF StoreBegins, StoreEnds, Transmit, historyVars, tenantSideVars, tenantVars
<1>4. CASE DestroyBegins \/ DestroyEnds \/ CollectPooled
  BY <1>1, <1>4
     DEF DestroyBegins, DestroyEnds, CollectPooled, handlerVars, historyVars,
         tenantSideVars, tenantVars
<1>5. ASSUME NEW r \in Requests, AuthFails(r) \/ BodyFails(r) \/ Release(r)
      PROVE  TenantView'
  <2>1. Return(r)
    BY <1>5 DEF AuthFails, BodyFails, Release
  <2>2. /\ UNCHANGED <<arrays, current, tenant, verified>>
        /\ rpc' = [rpc EXCEPT ![r] = "done"] /\ tc' = [tc EXCEPT ![r] = NoTenant]
    BY <2>1 DEF Return, GoTo, historyVars, tenantSideVars, tenantVars
  <2> QED
    BY <2>2, PlaceKeepsTenants DEF Places
<1>6. ASSUME NEW r \in Requests, Refused(r) \/ Send(r) \/ Answered(r)
      PROVE  TenantView'
  <2>1. /\ UNCHANGED <<arrays, current, tenant, verified, tc>> /\ Serving(r)
        /\ rpc' = [rpc EXCEPT ![r] = "await"] \/ rpc' = [rpc EXCEPT ![r] = "release"]
    BY <1>6 DEF Refused, Send, Answered, At, GoTo, Serving, historyVars, tenantSideVars,
                tenantVars
  <2> QED
    BY <2>1, PlaceKeepsTenants DEF Places
<1>7. ASSUME NEW r \in Requests, Inspect(r) \/ Sanitize(r) \/ Canary(r) \/ Redact(r)
      PROVE  TenantView'
  <2>1. StageStep(r)
    BY <1>7, StageSteps
  <2>2. PICK result \in Results(r) : Settle(r, result)
    BY <2>1 DEF StageStep
  <2>3. Serving(r)
    BY <2>1 DEF StageStep, Serving
  <2>4. UNCHANGED <<arrays, current, tenant, verified, tc>>
    BY <2>2 DEF Settle, tenantSideVars, tenantVars
  <2>5. \E p \in {"release", "forward", "pipeline"} : rpc' = [rpc EXCEPT ![r] = p]
    BY <2>2 DEF Settle, GoTo
  <2> QED
    BY <2>3, <2>4, <2>5, PlaceKeepsTenants DEF Places
<1>8. ASSUME NEW r \in Requests, HandlerStep(r) \/ Transmit(r) PROVE TenantView'
  BY <1>3, <1>5, <1>6, <1>7, <1>8, AuthKeepsTenants, BeginKeepsTenants DEF HandlerStep
<1> QED
  BY <1>2, <1>4, <1>8, UpdateKeepsTenants DEF PathNext

-----------------------------------------------------------------------------
(***************************************************************************)
(* The session vault                                                       *)
(***************************************************************************)
Begun(r) == rpc[r] \notin {"auth", "body"}

\* A call of Store has made the mapping m.
Made(m) == m \in removed \/ \E k \in SessionKeys : sessions[k] = m

\* r works in the session that m is, or was, the mapping of.
Shares(r, m) ==
    /\ m \in Storers /\ Made(m) /\ Begun(r)
    /\ SessionKey(m[1]) = SessionKey(r)
    /\ \E t \in Tenants : tenant[r] = t.id

VaultTypes ==
    /\ sessions \in [SessionKeys -> Storers \cup {NoMapping}]
    /\ forwardMap = [m \in Storers |-> forwardMap[m]]
    /\ reverseMap = [m \in Storers |-> reverseMap[m]]
    /\ removed \subseteq Storers
    /\ destroying \in removed \cup {NoMapping}
    /\ pending \in [Requests -> Seq(Secrets)]
    /\ call = [r \in Requests |-> call[r]]
    /\ pseudonyms = [r \in Requests |-> pseudonyms[r]]

\* A mapping that is in the vault has not been removed, and is found under the
\* session key of the request that made it.
KeyPart(k) ==
    sessions[k] # NoMapping => /\ sessions[k] \notin removed
                               /\ SessionKey(sessions[k][1]) = k

\* The name of a mapping is used once: a secret is taken from pending first.
NamePart(m) ==
    Made(m) => /\ Begun(m[1])
               /\ \A i \in DOMAIN pending[m[1]] : pending[m[1]][i] # m[2]

\* The two maps are inverse to each other, and the pseudonyms are numbered 1, 2, ...
Paired(f, g) ==
    /\ IsFiniteSet(DOMAIN f)
    /\ DOMAIN g = 1 .. Cardinality(DOMAIN f)
    /\ \A s \in DOMAIN f : f[s] \in DOMAIN g /\ g[f[s]] = s
    /\ \A n \in DOMAIN g : g[n] \in DOMAIN f /\ f[g[n]] = n

PairPart(m) ==
    /\ Paired(forwardMap[m], reverseMap[m])
    /\ ~ Made(m) => DOMAIN forwardMap[m] = {}

PendingPart(r) ==
    \A i, j \in DOMAIN pending[r] : pending[r][i] = pending[r][j] => i = j

\* Between the two halves of Store.
CallPart(r) ==
    call[r] # NoCall => /\ Shares(r, call[r].mapping)
                        /\ call[r].mapping \in removed => r \in caught

PseudonymPart(r) ==
    \A p \in pseudonyms[r] :
        /\ Shares(r, p[2])
        /\ p[2] \notin removed => /\ p[1] \in DOMAIN forwardMap[p[2]]
                                  /\ forwardMap[p[2]][p[1]] = p[3]

OrphanPart(m) ==
    m \in removed \ {destroying} => \A s \in DOMAIN forwardMap[m] :
        \E r \in Requests \cap caught : \E p \in pseudonyms[r] : p[1] = s /\ p[2] = m

VaultView ==
    /\ VaultTypes
    /\ \A k \in SessionKeys : KeyPart(k)
    /\ \A m \in Storers : NamePart(m) /\ PairPart(m) /\ OrphanPart(m)
    /\ \A r \in Requests : PendingPart(r) /\ CallPart(r) /\ PseudonymPart(r)

\* Store of a secret, in the two maps of a mapping.
NumberOf(f, s) == IF s \in DOMAIN f THEN f[s] ELSE Cardinality(DOMAIN f) + 1

LEMMA PairsStored ==
    ASSUME NEW f, NEW g, NEW s, Paired(f, g)
    PROVE  Paired(Assigned(f, s, NumberOf(f, s)), Assigned(g, NumberOf(f, s), s))
<1> DEFINE c == Cardinality(DOMAIN f)
           n == NumberOf(f, s)
           F == Assigned(f, s, n)
           G == Assigned(g, n, s)
<1>1. c \in Nat
  BY FS_CardinalityType DEF Paired
<1>2. n \in 1 .. c + 1 /\ (s \in DOMAIN f => n = f[s] /\ n \in DOMAIN g)
      /\ (s \notin DOMAIN f => n = c + 1)
  BY <1>1 DEF Paired, NumberOf
<1> HIDE DEF n
<1>3. /\ DOMAIN F = DOMAIN f \cup {s}
      /\ \A x \in DOMAIN F : F[x] = IF x = s THEN n ELSE f[x]
  BY DEF Assigned
<1>4. /\ DOMAIN G = DOMAIN g \cup {n}
      /\ \A x \in DOMAIN G : G[x] = IF x = n THEN s ELSE g[x]
  BY DEF Assigned
<1>5. IsFiniteSet(DOMAIN F)
      /\ Cardinality(DOMAIN F) = IF s \in DOMAIN f THEN c ELSE c + 1
  BY <1>3, FS_AddElement DEF Paired
<1>6. DOMAIN G = 1 .. Cardinality(DOMAIN F)
  <2>1. DOMAIN g = 1 .. c
    BY DEF Paired
  <2>2. (1 .. c) \cup {c + 1} = 1 .. c + 1
    BY <1>1
  <2>3. CASE s \in DOMAIN f
    BY <2>1, <2>3, <1>2, <1>4, <1>5
  <2>4. CASE s \notin DOMAIN f
    BY <2>1, <2>2, <2>4, <1>2, <1>4, <1>5
  <2> QED
    BY <2>3, <2>4
<1>7. \A x \in DOMAIN f : F[x] = f[x]
  BY <1>2, <1>3
<1> HIDE DEF F, G
<1>8. c + 1 \notin DOMAIN g
  BY <1>1 DEF Paired
<1>9. \A x \in DOMAIN F : F[x] \in DOMAIN G /\ G[F[x]] = x
  BY <1>2, <1>3, <1>4, <1>7, <1>8 DEF Paired
<1>10. \A k \in DOMAIN G : G[k] \in DOMAIN F /\ F[G[k]] = k
  BY <1>2, <1>3, <1>4, <1>7, <1>8 DEF Paired
<1>11. Paired(F, G)
  BY <1>5, <1>6, <1>9, <1>10 DEF Paired
<1> QED
  BY <1>11 DEF F, G, n

LEMMA NoPairsPaired == Paired(NoPairs, NoPairs) /\ DOMAIN NoPairs = {}
  BY FS_EmptySet DEF Paired, NoPairs

LEMMA OneElement ==
    ASSUME NEW S, NEW c \in S
    PROVE  <<c>> \in Seq(S) /\ Len(<<c>>) = 1 /\ <<c>>[1] = c
  OBVIOUS

\* c separates the first part of a key from the rest.
LEMMA SeparatorPlaced ==
    ASSUME NEW S, NEW c \in S, NEW v \in Seq(S), NEW z \in Seq(S)
    PROVE  LET k == v \o <<c>> \o z
           IN  /\ Len(k) = Len(v) + 1 + Len(z) /\ Len(v) \in Nat /\ Len(z) \in Nat
               /\ k[Len(v) + 1] = c
               /\ \A i \in 1 .. Len(v) : k[i] = v[i]
<1> DEFINE w == v \o <<c>>
<1>1. <<c>> \in Seq(S) /\ Len(<<c>>) = 1 /\ <<c>>[1] = c
  BY OneElement
<1>2. Len(v) \in Nat /\ Len(z) \in Nat
  BY LenProperties
<1>3. /\ w \in Seq(S) /\ Len(w) = Len(v) + 1 /\ w[Len(v) + 1] = c
      /\ \A i \in 1 .. Len(v) : w[i] = v[i]
  BY <1>1, <1>2, ConcatProperties
<1> HIDE DEF w
<1>4. /\ Len(w \o z) = Len(w) + Len(z)
      /\ \A i \in 1 .. Len(w) : (w \o z)[i] = w[i]
  <2>1. w \in Seq(S)
    BY <1>3
  <2>2. Len(w) \in Nat
    BY <2>1, LenProperties
  <2> QED
    BY <2>1, <2>2, <1>2, ConcatProperties
<1>5. Len(v) + 1 \in 1 .. Len(w) /\ \A i \in 1 .. Len(v) : i \in 1 .. Len(w)
  BY <1>2, <1>3
<1> QED
  BY <1>2, <1>3, <1>4, <1>5 DEF w

\* Session keys of two tenants differ.
LEMMA KeysOfTenantsDiffer ==
    ASSUME NEW t \in Tenants, NEW u \in Tenants,
           NEW x \in Seq(STRING), NEW y \in Seq(STRING),
           SessionKeyOf(t.id, x) = SessionKeyOf(u.id, y)
    PROVE  t.id = u.id
<1> DEFINE a == t.id
           b == u.id
           p == a \o <<":">> \o x
           q == b \o <<":">> \o y
<1>1. /\ a \in Seq(STRING) /\ \A i \in 1 .. Len(a) : a[i] # ":"
      /\ b \in Seq(STRING) /\ \A i \in 1 .. Len(b) : b[i] # ":"
      /\ Len(a) \in Nat /\ Len(b) \in Nat
  BY PathAssumption, LenProperties
<1>2. PICK S : ":" \in S /\ a \in Seq(S) /\ b \in Seq(S) /\ x \in Seq(S) /\ y \in Seq(S)
  <2> DEFINE S == STRING \cup {":"}
  <2>1. STRING \subseteq S /\ ":" \in S
    OBVIOUS
  <2> HIDE DEF S
  <2> QED
    BY <2>1, <1>1, SeqMonotonic
<1>3. /\ Len(p) = Len(a) + 1 + Len(x) /\ Len(x) \in Nat /\ p[Len(a) + 1] = ":"
      /\ \A i \in 1 .. Len(a) : p[i] = a[i]
  BY <1>2, SeparatorPlaced
<1>4. /\ Len(q) = Len(b) + 1 + Len(y) /\ Len(y) \in Nat /\ q[Len(b) + 1] = ":"
      /\ \A i \in 1 .. Len(b) : q[i] = b[i]
  BY <1>2, SeparatorPlaced
<1>5. (IF x = << >> THEN a ELSE p) = (IF y = << >> THEN b ELSE q)
  BY DEF SessionKeyOf
<1>6. a = b => t.id = u.id
  OBVIOUS
<1> HIDE DEF a, b, p, q
<1>7. a # q /\ p # b
  <2>1. a = q => Len(b) + 1 \in 1 .. Len(a)
    BY <1>1, <1>4
  <2>2. p = b => Len(a) + 1 \in 1 .. Len(b)
    BY <1>1, <1>3
  <2> QED
    BY <2>1, <2>2, <1>1, <1>3, <1>4
<1>8. ASSUME p = q PROVE a = b
  <2>1. ~ (Len(a) < Len(b))
    <3>1. Len(a) < Len(b) => Len(a) + 1 \in 1 .. Len(b)
      BY <1>1
    <3> QED
      BY <3>1, <1>1, <1>3, <1>4, <1>8
  <2>2. ~ (Len(b) < Len(a))
    <3>1. Len(b) < Len(a) => Len(b) + 1 \in 1 .. Len(a)
      BY <1>1
    <3> QED
      BY <3>1, <1>1, <1>3, <1>4, <1>8
  <2>3. Len(a) = Len(b)
    BY <2>1, <2>2, <1>1
  <2>4. \A i \in 1 .. Len(a) : a[i] = b[i]
    BY <2>3, <1>3, <1>4, <1>8
  <2> QED
    BY <2>3, <2>4, <1>1, SeqEqual
<1> QED
  BY <1>5, <1>6, <1>7, <1>8

LEMMA StorerParts ==
    ASSUME NEW m \in Storers
    PROVE  m[1] \in Requests /\ m[2] \in Secrets /\ m # NoMapping
  BY PathAssumption

LEMMA InitialVaultView == PathInit => VaultView
<1> SUFFICES ASSUME PathInit PROVE VaultView
  OBVIOUS
<1>1. VaultTypes
  BY DEF PathInit, VaultInit, VaultTypes
<1>2. ASSUME NEW k \in SessionKeys PROVE KeyPart(k)
  BY DEF PathInit, VaultInit, KeyPart
<1>3. ASSUME NEW m \in Storers PROVE NamePart(m) /\ PairPart(m) /\ OrphanPart(m)
  <2>1. ~ Made(m)
    BY StorerParts DEF PathInit, VaultInit, Made
  <2> QED
    BY <2>1, NoPairsPaired DEF PathInit, VaultInit, NamePart, PairPart, OrphanPart
<1>4. ASSUME NEW r \in Requests PROVE PendingPart(r) /\ CallPart(r) /\ PseudonymPart(r)
  BY DEF PathInit, PendingPart, CallPart, PseudonymPart
<1> QED
  BY <1>1, <1>2, <1>3, <1>4 DEF VaultView

\* A request that has begun keeps its session.
LEMMA SharesKept ==
    ASSUME VaultView, NEW r \in Requests, NEW m, Shares(r, m), Made(m)',
           \A q \in Requests : Begun(q) => Begun(q)' /\ tenant'[q] = tenant[q]
    PROVE  Shares(r, m)'
<1>1. m \in Storers /\ m[1] \in Requests /\ Begun(r) /\ Begun(m[1])
  BY StorerParts DEF Shares, VaultView, NamePart
<1>2. Begun(r)' /\ tenant'[r] = tenant[r] /\ tenant'[m[1]] = tenant[m[1]]
  BY <1>1
<1> QED
  BY <1>1, <1>2 DEF Shares, SessionKey

\* Steps of the handlers outside Store.
LEMMA MovesKeepVault ==
    ASSUME VaultView, UNCHANGED <<vaultVars, call, pseudonyms>>,
           pending' \in [Requests -> Seq(Secrets)],
           \A q \in Requests :
               /\ Begun(q) => /\ Begun(q)' /\ tenant'[q] = tenant[q]
                              /\ pending'[q] \in {pending[q], << >>}
               /\ PendingPart(q)'
    PROVE  VaultView'
<1>1. UNCHANGED <<sessions, forwardMap, reverseMap, destroying, removed, caught,
                  call, pseudonyms>>
  BY DEF vaultVars
<1>2. VaultTypes'
  BY <1>1 DEF VaultView, VaultTypes
<1>3. \A m : Made(m)' <=> Made(m)
  BY <1>1 DEF Made
<1>4. ASSUME NEW m \in Storers PROVE NamePart(m)' /\ PairPart(m)' /\ OrphanPart(m)'
  <2>1. PairPart(m)'
    BY <1>1, <1>3 DEF VaultView, PairPart, Paired
  <2>2. OrphanPart(m)'
    BY <1>1 DEF VaultView, OrphanPart
  <2>3. NamePart(m)'
    <3> SUFFICES ASSUME Made(m)
                 PROVE  /\ Begun(m[1])'
                        /\ \A i \in DOMAIN pending'[m[1]] : pending'[m[1]][i] # m[2]
      BY <1>3 DEF NamePart
    <3>1. /\ Begun(m[1]) /\ m[1] \in Requests
          /\ \A i \in DOMAIN pending[m[1]] : pending[m[1]][i] # m[2]
      BY StorerParts DEF VaultView, NamePart
    <3>2. pending'[m[1]] = pending[m[1]] \/ pending'[m[1]] = << >>
      BY <3>1
    <3>3. DOMAIN << >> = {}
      OBVIOUS
    <3> QED
      BY <3>1, <3>2, <3>3
  <2> QED
    BY <2>1, <2>2, <2>3
<1>5. ASSUME NEW k \in SessionKeys PROVE KeyPart(k)'
  <2> SUFFICES ASSUME sessions[k] # NoMapping
               PROVE  sessions[k] \notin removed /\ SessionKey(sessions[k][1])' = k
    BY <1>1 DEF KeyPart, SessionKey
  <2>1. /\ sessions[k] \in Storers /\ sessions[k] \notin removed
        /\ SessionKey(sessions[k][1]) = k /\ Made(sessions[k])
    BY DEF VaultView, VaultTypes, KeyPart, Made
  <2>2. sessions[k][1] \in Requests /\ Begun(sessions[k][1])
    BY <2>1, StorerParts DEF VaultView, NamePart
  <2> QED
    BY <2>1, <2>2, <1>1 DEF SessionKey
<1>6. ASSUME NEW r \in Requests PROVE CallPart(r)' /\ PseudonymPart(r)'
  <2>1. ASSUME NEW m, Shares(r, m) PROVE Shares(r, m)'
    <3>1. Made(m)'
      BY <2>1, <1>3 DEF Shares
    <3> QED
      BY <2>1, <3>1, SharesKept
  <2>2. CallPart(r)'
    <3>1. CallPart(r)
      BY DEF VaultView
    <3> QED
      BY <1>1, <2>1, <3>1 DEF CallPart, Shares, SessionKey, Made
  <2>3. PseudonymPart(r)'
    <3>1. PseudonymPart(r)
      BY DEF VaultView
    <3> QED
      BY <1>1, <2>1, <3>1 DEF PseudonymPart
  <2> QED
    BY <2>2, <2>3
<1> QED
  BY <1>2, <1>4, <1>5, <1>6 DEF VaultView

LEMMA DestroyBeginsKeepsVault ==
    ASSUME VaultView, DestroyBegins
    PROVE  VaultView'
<1>1. PICK key \in SessionKeys :
          DestroyRemoves(key, Calls, [r \in Requests |-> call[r].mapping])
  BY DEF DestroyBegins
<1> DEFINE m == sessions[key]
<1>2. UNCHANGED <<rpc, tenant, pending, call, pseudonyms>>
  BY DEF DestroyBegins, handlerVars, historyVars
<1>3. /\ destroying = NoMapping /\ m # NoMapping /\ destroying' = m
      /\ sessions' = [sessions EXCEPT ![key] = NoMapping]
      /\ removed' = removed \cup {m}
      /\ UNCHANGED <<forwardMap, reverseMap>>
  BY <1>1 DEF DestroyRemoves
<1>4. /\ caught \subseteq caught'
      /\ \A r \in Requests : call[r] # NoCall /\ call[r].mapping = m => r \in caught'
  BY <1>1 DEF DestroyRemoves, Calls
<1>5. /\ sessions \in [SessionKeys -> Storers \cup {NoMapping}] /\ m \in Storers
  BY <1>3 DEF VaultView, VaultTypes
<1>6. VaultTypes'
  BY <1>2, <1>3, <1>5 DEF VaultView, VaultTypes
<1>7. \A x \in Storers : Made(x)' <=> Made(x)
  BY <1>3, <1>5, StorerParts DEF Made
<1>8. \A q \in Requests : Begun(q)' = Begun(q) /\ SessionKey(q)' = SessionKey(q)
  BY <1>2 DEF Begun, SessionKey
<1>9. ASSUME NEW k \in SessionKeys PROVE KeyPart(k)'
  <2>1. KeyPart(k) /\ KeyPart(key)
    BY DEF VaultView
  <2>2. CASE k = key
    BY <2>2, <1>3, <1>5 DEF KeyPart
  <2>3. CASE k # key
    <3>1. sessions'[k] = sessions[k]
      BY <2>3, <1>3, <1>5
    <3>2. sessions[k] # m
      BY <2>1, <2>3, <1>3 DEF KeyPart
    <3> QED
      BY <2>1, <3>1, <3>2, <1>2, <1>3 DEF KeyPart, SessionKey
  <2> QED
    BY <2>2, <2>3
<1>10. ASSUME NEW x \in Storers PROVE NamePart(x)' /\ PairPart(x)' /\ OrphanPart(x)'
  <2>1. NamePart(x) /\ PairPart(x) /\ OrphanPart(x) /\ x # NoMapping
    BY StorerParts DEF VaultView
  <2>2. NamePart(x)'
    BY <2>1, <1>2, <1>7 DEF NamePart, Begun
  <2>3. PairPart(x)'
    BY <2>1, <1>3, <1>7 DEF PairPart
  <2>4. OrphanPart(x)'
    BY <2>1, <1>2, <1>3, <1>4 DEF OrphanPart
  <2> QED
    BY <2>2, <2>3, <2>4
<1>11. ASSUME NEW r \in Requests
       PROVE  PendingPart(r)' /\ CallPart(r)' /\ PseudonymPart(r)'
  <2>1. PendingPart(r) /\ CallPart(r) /\ PseudonymPart(r)
    BY DEF VaultView
  <2>2. ASSUME NEW x, Shares(r, x) PROVE Shares(r, x)'
    <3>1. Made(x)'
      BY <2>2, <1>7 DEF Shares
    <3> QED
      BY <2>2, <3>1, <1>2, <1>8, SharesKept
  <2>3. PendingPart(r)'
    BY <2>1, <1>2 DEF PendingPart
  <2>4. CallPart(r)'
    <3> SUFFICES ASSUME call[r] # NoCall
                 PROVE  /\ Shares(r, call[r].mapping)'
                        /\ call[r].mapping \in removed' => r \in caught'
      BY <1>2 DEF CallPart, Shares, Made, SessionKey
    <3> QED
      BY <2>1, <2>2, <1>2, <1>3, <1>4 DEF CallPart, Shares, Made, SessionKey
  <2>5. PseudonymPart(r)'
    BY <2>1, <2>2, <1>2, <1>3 DEF PseudonymPart
  <2> QED
    BY <2>3, <2>4, <2>5
<1> QED
  BY <1>6, <1>9, <1>10, <1>11 DEF VaultView

LEMMA DestroyEndsKeepsVault ==
    ASSUME VaultView, DestroyEnds
    PROVE  VaultView'
<1> DEFINE m == destroying
<1>1. UNCHANGED <<rpc, tenant, pending, call, pseudonyms>>
  BY DEF DestroyEnds, handlerVars, historyVars
<1>2. /\ m # NoMapping /\ destroying' = NoMapping
      /\ forwardMap' = [forwardMap EXCEPT ![m] = NoPairs]
      /\ reverseMap' = [reverseMap EXCEPT ![m] = NoPairs]
      /\ UNCHANGED <<sessions, removed, caught>>
  BY DEF DestroyEnds, DestroyWipes
<1>3. /\ m \in removed /\ m \in Storers
      /\ forwardMap = [x \in Storers |-> forwardMap[x]]
      /\ reverseMap = [x \in Storers |-> reverseMap[x]]
  BY <1>2 DEF VaultView, VaultTypes
<1>4. /\ forwardMap' = [x \in Storers |-> forwardMap'[x]] /\ forwardMap'[m] = NoPairs
      /\ reverseMap' = [x \in Storers |-> reverseMap'[x]] /\ reverseMap'[m] = NoPairs
      /\ \A x \in Storers \ {m} : /\ forwardMap'[x] = forwardMap[x]
                                  /\ reverseMap'[x] = reverseMap[x]
  BY <1>2, <1>3
<1>5. VaultTypes'
  BY <1>1, <1>2, <1>4 DEF VaultView, VaultTypes
<1>6. \A x : Made(x)' <=> Made(x)
  BY <1>2 DEF Made
<1>7. \A q \in Requests : Begun(q)' = Begun(q) /\ SessionKey(q)' = SessionKey(q)
  BY <1>1 DEF Begun, SessionKey
<1>8. ASSUME NEW k \in SessionKeys PROVE KeyPart(k)'
  BY <1>1, <1>2 DEF VaultView, KeyPart, SessionKey
<1>9. ASSUME NEW x \in Storers PROVE NamePart(x)' /\ PairPart(x)' /\ OrphanPart(x)'
  <2>1. NamePart(x) /\ PairPart(x) /\ OrphanPart(x)
    BY DEF VaultView
  <2>2. NamePart(x)'
    BY <2>1, <1>1, <1>6 DEF NamePart, Begun
  <2>3. CASE x = m
    BY <2>2, <2>3, <1>4, NoPairsPaired DEF PairPart, OrphanPart
  <2>4. CASE x # m
    <3>1. forwardMap'[x] = forwardMap[x] /\ reverseMap'[x] = reverseMap[x]
      BY <2>4, <1>4
    <3>2. PairPart(x)'
      BY <2>1, <3>1, <1>6 DEF PairPart
    <3>3. OrphanPart(x)'
      BY <2>1, <2>4, <3>1, <1>1, <1>2 DEF OrphanPart
    <3> QED
      BY <2>2, <3>2, <3>3
  <2> QED
    BY <2>3, <2>4
<1>10. ASSUME NEW r \in Requests
       PROVE  PendingPart(r)' /\ CallPart(r)' /\ PseudonymPart(r)'
  <2>1. PendingPart(r) /\ CallPart(r) /\ PseudonymPart(r)
    BY DEF VaultView
  <2>2. ASSUME NEW x, Shares(r, x) PROVE Shares(r, x)'
    <3>1. Made(x)'
      BY <2>2, <1>6 DEF Shares
    <3> QED
      BY <2>2, <3>1, <1>1, <1>7, SharesKept
  <2>3. PendingPart(r)'
    BY <2>1, <1>1 DEF PendingPart
  <2>4. CallPart(r)'
    BY <2>1, <2>2, <1>1, <1>2 DEF CallPart, Shares, Made, SessionKey
  <2>5. PseudonymPart(r)'
    <3> SUFFICES ASSUME NEW p \in pseudonyms[r]
                 PROVE  /\ Shares(r, p[2])'
                        /\ p[2] \notin removed =>
                               /\ p[1] \in DOMAIN forwardMap'[p[2]]
                               /\ forwardMap'[p[2]][p[1]] = p[3]
      BY <1>1, <1>2 DEF PseudonymPart
    <3>1. p[2] \in Storers /\ Shares(r, p[2])'
      BY <2>1, <2>2 DEF PseudonymPart, Shares
    <3>2. p[2] \notin removed => forwardMap'[p[2]] = forwardMap[p[2]]
      BY <3>1, <1>3, <1>4
    <3> QED
      BY <2>1, <3>1, <3>2 DEF PseudonymPart
  <2> QED
    BY <2>3, <2>4, <2>5
<1> QED
  BY <1>5, <1>8, <1>9, <1>10 DEF VaultView

\* The scanner's list of secrets, without the first.
LEMMA TailDistinct ==
    ASSUME NEW S, NEW q \in Seq(S), q # << >>,
           \A i, j \in DOMAIN q : q[i] = q[j] => i = j
    PROVE  /\ Head(q) \in S /\ Tail(q) \in Seq(S)
           /\ \E k \in DOMAIN q : q[k] = Head(q)
           /\ \A i \in DOMAIN Tail(q) : /\ Tail(q)[i] # Head(q)
                                        /\ \E k \in DOMAIN q : q[k] = Tail(q)[i]
           /\ \A i, j \in DOMAIN Tail(q) : Tail(q)[i] = Tail(q)[j] => i = j
<1> DEFINE n == Len(q)
           t == Tail(q)
           h == Head(q)
<1>1. n \in Nat \ {0} /\ DOMAIN q = 1 .. n /\ h = q[1] /\ h \in S
  BY LenProperties, EmptySeq, HeadTailProperties
<1>2. t \in Seq(S) /\ Len(t) = n - 1 /\ \A i \in 1 .. Len(t) : t[i] = q[i + 1]
  BY HeadTailProperties
<1>3. DOMAIN t = 1 .. n - 1
  BY <1>2, LenProperties
<1> HIDE DEF n, t, h
<1>4. 1 \in DOMAIN q /\ \A i \in DOMAIN t : i + 1 \in DOMAIN q /\ i + 1 # 1 /\ i \in Nat
  BY <1>1, <1>3
<1>5. \A i \in DOMAIN t : t[i] = q[i + 1]
  BY <1>2, <1>3
<1>6. \A i \in DOMAIN t : t[i] # h
  BY <1>1, <1>4, <1>5
<1>7. \A i, j \in DOMAIN t : t[i] = t[j] => i = j
  <2> SUFFICES ASSUME NEW i \in DOMAIN t, NEW j \in DOMAIN t, t[i] = t[j]
               PROVE  i = j
    OBVIOUS
  <2>1. i + 1 = j + 1
    BY <1>4, <1>5
  <2> QED
    BY <2>1, <1>4
<1> QED
  BY <1>1, <1>2, <1>4, <1>5, <1>6, <1>7 DEF h, t

LEMMA StoreBeginsKeepsVault ==
    ASSUME PathTypes, TenantView, VaultView, NEW r \in Requests, StoreBegins(r)
    PROVE  VaultView'
<1> PICK s, key, m :
        s = Head(pending[r]) /\ key = SessionKey(r) /\ m = Found(<<r, s>>, key)
  OBVIOUS
<1>1. /\ rpc[r] = "pipeline" /\ pending[r] # << >>
      /\ sessions' = [sessions EXCEPT ![key] = m]
      /\ call' = [call EXCEPT ![r] = [secret |-> s, mapping |-> m]]
      /\ pending' = [pending EXCEPT ![r] = Tail(pending[r])]
      /\ UNCHANGED <<forwardMap, reverseMap, destroying, removed, caught,
                     rpc, tenant, pseudonyms>>
  BY DEF StoreBegins, Running, At, GetOrCreateSession, historyVars
<1>2. /\ key \in SessionKeys /\ Begun(r) /\ \E t \in Tenants : tenant[r] = t.id
  <2>1. verified[r] \in Tenants /\ tenant[r] = verified[r].id
    BY <1>1 DEF TenantView, TenantPart, Serving
  <2> QED
    BY <2>1, <1>1, PathAssumption DEF SessionKey, Begun
<1>3. pending[r] \in Seq(Secrets) /\ pending \in [Requests -> Seq(Secrets)]
      /\ sessions \in [SessionKeys -> Storers \cup {NoMapping}]
  BY DEF VaultView, VaultTypes
<1>4. /\ s \in Secrets /\ Tail(pending[r]) \in Seq(Secrets)
      /\ \E k \in DOMAIN pending[r] : pending[r][k] = s
      /\ \A i \in DOMAIN Tail(pending[r]) :
             /\ Tail(pending[r])[i] # s
             /\ \E k \in DOMAIN pending[r] : pending[r][k] = Tail(pending[r])[i]
      /\ \A i, j \in DOMAIN Tail(pending[r]) :
             Tail(pending[r])[i] = Tail(pending[r])[j] => i = j
  BY <1>1, <1>3, TailDistinct DEF VaultView, PendingPart
<1>5. /\ pending' \in [Requests -> Seq(Secrets)] /\ pending'[r] = Tail(pending[r])
      /\ \A q \in Requests \ {r} : pending'[q] = pending[q]
  BY <1>1, <1>3, <1>4
<1>6. PendingPart(r)' /\ \A i \in DOMAIN pending'[r] : pending'[r][i] # s
  BY <1>4, <1>5 DEF PendingPart
<1>7. <<r, s>> \in Storers /\ <<r, s>>[1] = r /\ <<r, s>>[2] = s
  BY <1>4, PathAssumption
<1>8. ~ Made(<<r, s>>)
  BY <1>4, <1>7 DEF VaultView, NamePart
<1>9. /\ m \in Storers /\ m \notin removed /\ SessionKey(m[1]) = key
      /\ m = sessions[key] \/ (m = <<r, s>> /\ sessions[key] = NoMapping)
  <2>1. CASE sessions[key] = NoMapping
    BY <2>1, <1>7, <1>8 DEF Found, Made
  <2>2. CASE sessions[key] # NoMapping
    BY <2>2, <1>2, <1>3 DEF Found, VaultView, KeyPart
  <2> QED
    BY <2>1, <2>2
<1>10. /\ sessions' \in [SessionKeys -> Storers \cup {NoMapping}] /\ sessions'[key] = m
       /\ \A k \in SessionKeys \ {key} : sessions'[k] = sessions[k]
  BY <1>1, <1>2, <1>3, <1>9
<1>11. /\ call' = [q \in Requests |-> call'[q]]
       /\ call'[r] = [secret |-> s, mapping |-> m]
       /\ \A q \in Requests \ {r} : call'[q] = call[q]
  BY <1>1 DEF VaultView, VaultTypes
<1>12. VaultTypes'
  BY <1>1, <1>5, <1>10, <1>11 DEF VaultView, VaultTypes
<1>13. \A x \in Storers : Made(x)' <=> Made(x) \/ x = m
  BY <1>1, <1>2, <1>9, <1>10, StorerParts DEF Made
<1>14. \A q \in Requests : Begun(q)' = Begun(q) /\ SessionKey(q)' = SessionKey(q)
  BY <1>1 DEF Begun, SessionKey
<1>15. ASSUME NEW k \in SessionKeys PROVE KeyPart(k)'
  <2>1. CASE k = key
    BY <2>1, <1>1, <1>9, <1>10 DEF KeyPart, SessionKey
  <2>2. CASE k # key
    BY <2>2, <1>1, <1>10 DEF VaultView, KeyPart, SessionKey
  <2> QED
    BY <2>1, <2>2
<1>16. ASSUME NEW x \in Storers PROVE NamePart(x)' /\ PairPart(x)' /\ OrphanPart(x)'
  <2>1. NamePart(x) /\ PairPart(x) /\ OrphanPart(x) /\ x[1] \in Requests
    BY StorerParts DEF VaultView
  <2>2. ASSUME Made(x)
        PROVE  Begun(x[1])' /\ \A i \in DOMAIN pending'[x[1]] : pending'[x[1]][i] # x[2]
    <3>1. /\ Begun(x[1])
          /\ \A i \in DOMAIN pending[x[1]] : pending[x[1]][i] # x[2]
      BY <2>1, <2>2 DEF NamePart
    <3>2. CASE x[1] = r
      BY <3>1, <3>2, <1>1, <1>4, <1>5 DEF Begun
    <3>3. CASE x[1] # r
      BY <2>1, <3>1, <3>3, <1>1, <1>5 DEF Begun
    <3> QED
      BY <3>2, <3>3
  <2>3. ASSUME Made(x) PROVE NamePart(x)'
    BY <2>2, <2>3 DEF NamePart
  <2>4. ASSUME ~ Made(x), x = m PROVE NamePart(x)'
    <3>1. x = <<r, s>>
      BY <2>4, <1>2, <1>9, <1>3 DEF Made
    <3> QED
      BY <3>1, <1>1, <1>2, <1>6, <1>7 DEF NamePart, Begun
  <2>5. NamePart(x)'
    BY <2>3, <2>4, <1>13 DEF NamePart
  <2>6. PairPart(x)'
    BY <2>1, <1>1, <1>13 DEF PairPart
  <2>7. OrphanPart(x)'
    BY <2>1, <1>1 DEF OrphanPart
  <2> QED
    BY <2>5, <2>6, <2>7
<1>17. ASSUME NEW q \in Requests
       PROVE  PendingPart(q)' /\ CallPart(q)' /\ PseudonymPart(q)'
  <2>1. PendingPart(q) /\ CallPart(q) /\ PseudonymPart(q)
    BY DEF VaultView
  <2>2. ASSUME NEW x, Shares(q, x) PROVE Shares(q, x)'
    <3>1. Made(x)'
      BY <2>2, <1>13 DEF Shares
    <3> QED
      BY <2>2, <3>1, <1>1, <1>14, SharesKept
  <2>3. PendingPart(q)'
    BY <2>1, <1>5, <1>6 DEF PendingPart
  <2>4. CASE q = r
    <3>1. Shares(r, m)'
      <4>1. Made(m)' /\ SessionKey(m[1])' = SessionKey(r)'
        BY <1>9, <1>13, <1>14, StorerParts
      <4> QED
        BY <4>1, <1>1, <1>2, <1>9, <1>14 DEF Shares
    <3>2. CallPart(r)'
      BY <3>1, <1>1, <1>9, <1>11 DEF CallPart, Shares, Made, SessionKey
    <3>3. PseudonymPart(r)'
      BY <2>1, <2>2, <2>4, <1>1 DEF PseudonymPart
    <3> QED
      BY <2>3, <2>4, <3>2, <3>3
  <2>5. CASE q # r
    <3>1. CallPart(q)'
      BY <2>1, <2>2, <2>5, <1>1, <1>11 DEF CallPart, Shares, Made, SessionKey
    <3>2. PseudonymPart(q)'
      BY <2>1, <2>2, <1>1 DEF PseudonymPart
    <3> QED
      BY <2>3, <3>1, <3>2
  <2> QED
    BY <2>4, <2>5
<1> QED
  BY <1>12, <1>15, <1>16, <1>17 DEF VaultView

LEMMA StoreEndsKeepsVault ==
    ASSUME PathTypes, VaultView, NEW r \in Requests, StoreEnds(r)
    PROVE  VaultView'
<1> DEFINE s == call[r].secret
           m == call[r].mapping
           n == PseudonymOf(m, s)
           p0 == <<s, m, n>>
<1>1. /\ call[r] # NoCall
      /\ forwardMap' = [forwardMap EXCEPT ![m] = Assigned(forwardMap[m], s, n)]
      /\ reverseMap' = [reverseMap EXCEPT ![m] = Assigned(reverseMap[m], n, s)]
      /\ pseudonyms' = [pseudonyms EXCEPT ![r] = pseudonyms[r] \cup {p0}]
      /\ call' = [call EXCEPT ![r] = NoCall]
      /\ UNCHANGED <<sessions, destroying, removed, caught, rpc, tenant, pending>>
  BY DEF StoreEnds, StoreSecret
<1>2. Shares(r, m) /\ (m \in removed => r \in caught) /\ m \in Storers /\ Made(m)
  BY <1>1 DEF VaultView, CallPart, Shares
<1>3. /\ forwardMap = [x \in Storers |-> forwardMap[x]]
      /\ reverseMap = [x \in Storers |-> reverseMap[x]]
      /\ call = [q \in Requests |-> call[q]]
      /\ pseudonyms = [q \in Requests |-> pseudonyms[q]]
  BY DEF VaultView, VaultTypes
<1> DEFINE F == Assigned(forwardMap[m], s, n)
           G == Assigned(reverseMap[m], n, s)
<1>4. /\ Paired(F, G) /\ DOMAIN F = DOMAIN forwardMap[m] \cup {s} /\ F[s] = n
      /\ \A x \in DOMAIN forwardMap[m] : F[x] = forwardMap[m][x]
  <2>1. Paired(forwardMap[m], reverseMap[m])
    BY <1>2 DEF VaultView, PairPart
  <2>2. n = NumberOf(forwardMap[m], s)
    BY DEF PseudonymOf, Known, NextPseudonym, NumberOf
  <2>3. /\ DOMAIN F = DOMAIN forwardMap[m] \cup {s} /\ F[s] = n
        /\ \A x \in DOMAIN forwardMap[m] : F[x] = forwardMap[m][x]
    <3>1. s \in DOMAIN forwardMap[m] => n = forwardMap[m][s]
      BY <2>2 DEF NumberOf
    <3> HIDE DEF n, m, s
    <3> QED
      BY <3>1 DEF Assigned
  <2> HIDE DEF n, m, s
  <2>4. Paired(F, G)
    BY <2>1, <2>2, PairsStored
  <2> QED
    BY <2>3, <2>4
<1>5. p0[1] = s /\ p0[2] = m /\ p0[3] = n
  OBVIOUS
<1> HIDE DEF p0, F, G, n
<1>6. /\ forwardMap' = [x \in Storers |-> forwardMap'[x]] /\ forwardMap'[m] = F
      /\ reverseMap' = [x \in Storers |-> reverseMap'[x]] /\ reverseMap'[m] = G
      /\ \A x \in Storers \ {m} : /\ forwardMap'[x] = forwardMap[x]
                                  /\ reverseMap'[x] = reverseMap[x]
  BY <1>1, <1>2, <1>3 DEF F, G
<1>7. /\ call' = [q \in Requests |-> call'[q]] /\ call'[r] = NoCall
      /\ \A q \in Requests \ {r} : call'[q] = call[q]
  BY <1>1, <1>3
<1>8. /\ pseudonyms' = [q \in Requests |-> pseudonyms'[q]]
      /\ pseudonyms'[r] = pseudonyms[r] \cup {p0}
      /\ \A q \in Requests \ {r} : pseudonyms'[q] = pseudonyms[q]
  BY <1>1, <1>3
<1> HIDE DEF m, s
<1>9. VaultTypes'
  BY <1>1, <1>6, <1>7, <1>8 DEF VaultView, VaultTypes
<1>10. \A x : Made(x)' <=> Made(x)
  BY <1>1 DEF Made
<1>11. \A q \in Requests : Begun(q)' = Begun(q) /\ SessionKey(q)' = SessionKey(q)
  BY <1>1 DEF Begun, SessionKey
<1>12. ASSUME NEW k \in SessionKeys PROVE KeyPart(k)'
  BY <1>1 DEF VaultView, KeyPart, SessionKey
<1>13. ASSUME NEW x \in Storers PROVE NamePart(x)' /\ PairPart(x)' /\ OrphanPart(x)'
  <2>1. NamePart(x) /\ PairPart(x) /\ OrphanPart(x)
    BY DEF VaultView
  <2>2. NamePart(x)'
    BY <2>1, <1>1, <1>10 DEF NamePart, Begun
  <2>3. PairPart(x)'
    <3>1. CASE x = m
      BY <3>1, <1>2, <1>4, <1>6, <1>10 DEF PairPart
    <3>2. CASE x # m
      BY <2>1, <3>2, <1>6, <1>10 DEF PairPart
    <3> QED
      BY <3>1, <3>2
  <2>4. OrphanPart(x)'
    <3> SUFFICES ASSUME x \in removed \ {destroying}, NEW y \in DOMAIN forwardMap'[x]
                 PROVE  \E q \in Requests \cap caught : \E p \in pseudonyms'[q] :
                            p[1] = y /\ p[2] = x
      BY <1>1 DEF OrphanPart
    <3>1. CASE y \in DOMAIN forwardMap[x]
      <4>1. PICK q \in Requests \cap caught : \E p \in pseudonyms[q] : p[1] = y /\ p[2] = x
        BY <2>1, <3>1 DEF OrphanPart
      <4>2. pseudonyms[q] \subseteq pseudonyms'[q]
        BY <1>8
      <4> QED
        BY <4>1, <4>2
    <3>2. CASE y \notin DOMAIN forwardMap[x]
      <4>1. x = m /\ y = s
        BY <3>2, <1>4, <1>6
      <4>2. p0 \in pseudonyms'[r] /\ r \in Requests \cap caught
        BY <4>1, <1>2, <1>8
      <4> QED
        BY <4>1, <4>2, <1>5
    <3> QED
      BY <3>1, <3>2
  <2> QED
    BY <2>2, <2>3, <2>4
<1>14. ASSUME NEW q \in Requests
       PROVE  PendingPart(q)' /\ CallPart(q)' /\ PseudonymPart(q)'
  <2>1. PendingPart(q) /\ CallPart(q) /\ PseudonymPart(q)
    BY DEF VaultView
  <2>2. ASSUME NEW x, Shares(q, x) PROVE Shares(q, x)'
    <3>1. Made(x)'
      BY <2>2, <1>10 DEF Shares
    <3> QED
      BY <2>2, <3>1, <1>1, <1>11, SharesKept
  <2>3. PendingPart(q)'
    BY <2>1, <1>1 DEF PendingPart
  <2>4. CallPart(q)'
    <3>1. CASE q = r
      BY <3>1, <1>7 DEF CallPart
    <3>2. CASE q # r
      BY <2>1, <2>2, <3>2, <1>1, <1>7 DEF CallPart, Shares, Made, SessionKey
    <3> QED
      BY <3>1, <3>2
  <2>5. PseudonymPart(q)'
    <3> SUFFICES ASSUME NEW p \in pseudonyms'[q]
                 PROVE  /\ Shares(q, p[2])'
                        /\ p[2] \notin removed =>
                               /\ p[1] \in DOMAIN forwardMap'[p[2]]
                               /\ forwardMap'[p[2]][p[1]] = p[3]
      BY <1>1 DEF PseudonymPart
    <3>1. CASE p \in pseudonyms[q]
      <4>1. Shares(q, p[2]) /\ p[2] \in Storers
        BY <2>1, <3>1 DEF PseudonymPart, Shares
      <4>2. /\ DOMAIN forwardMap[p[2]] \subseteq DOMAIN forwardMap'[p[2]]
            /\ \A y \in DOMAIN forwardMap[p[2]] :
                   forwardMap'[p[2]][y] = forwardMap[p[2]][y]
        BY <4>1, <1>4, <1>6
      <4> QED
        BY <2>1, <2>2, <3>1, <4>1, <4>2 DEF PseudonymPart
    <3>2. CASE p \notin pseudonyms[q]
      <4>1. q = r /\ p = p0
        BY <3>2, <1>8
      <4> QED
        BY <4>1, <2>2, <1>2, <1>4, <1>5, <1>6
    <3> QED
      BY <3>1, <3>2
  <2> QED
    BY <2>3, <2>4, <2>5
<1> QED
  BY <1>9, <1>12, <1>13, <1>14 DEF VaultView

\* A handler moves on, and drops the secrets that it has not stored if it returns.
LEMMA PlaceKeepsVault ==
    ASSUME PathTypes, VaultView, NEW r \in Requests, NEW place,
           UNCHANGED <<vaultVars, call, pseudonyms, tenant>>,
           rpc' = [rpc EXCEPT ![r] = place], Begun(r) => place \notin {"auth", "body"},
           \/ UNCHANGED pending
           \/ pending' = [pending EXCEPT ![r] = << >>]
    PROVE  VaultView'
<1>1. pending \in [Requests -> Seq(Secrets)] /\ rpc \in [Requests -> Places]
  BY DEF VaultView, VaultTypes, PathTypes
<1>2. << >> \in Seq(Secrets) /\ DOMAIN << >> = {}
  OBVIOUS
<1>3. pending' \in [Requests -> Seq(Secrets)]
  BY <1>1, <1>2
<1>4. ASSUME NEW q \in Requests
      PROVE  /\ Begun(q) => /\ Begun(q)' /\ tenant'[q] = tenant[q]
                            /\ pending'[q] \in {pending[q], << >>}
             /\ PendingPart(q)'
  <2>1. pending'[q] = pending[q] \/ pending'[q] = << >>
    BY <1>1
  <2>2. PendingPart(q)'
    <3>1. PendingPart(q)
      BY DEF VaultView
    <3> QED
      BY <2>1, <3>1, <1>2 DEF PendingPart
  <2>3. Begun(q) => Begun(q)'
    BY <1>1 DEF Begun
  <2> QED
    BY <2>1, <2>2, <2>3
<1> QED
  BY <1>3, <1>4, MovesKeepVault

LEMMA BeginKeepsVault ==
    ASSUME PathTypes, TenantView, VaultView, NEW r \in Requests, Begin(r)
    PROVE  VaultView'
<1>1. /\ pending \in [Requests -> Seq(Secrets)] /\ rpc \in [Requests -> Places]
      /\ tenant \in [Requests -> Seq(STRING)]
  BY DEF VaultView, VaultTypes, PathTypes, TenantView
<1>2. /\ << >> \in Seq(Secrets) /\ DOMAIN << >> = {}
      /\ SecretsIn[r] \in Seq(Secrets)
      /\ \A i, j \in DOMAIN SecretsIn[r] : SecretsIn[r][i] = SecretsIn[r][j] => i = j
  BY PathAssumption
<1>3. PICK s \in Seq(Secrets) : /\ pending' = [pending EXCEPT ![r] = s]
                                /\ \A i, j \in DOMAIN s : s[i] = s[j] => i = j
  BY <1>2 DEF Begin
<1>4. /\ UNCHANGED <<vaultVars, call, pseudonyms>> /\ rpc[r] = "body"
      /\ rpc' = [rpc EXCEPT ![r] = "pipeline"]
      /\ tenant' = [tenant EXCEPT ![r] = Deref(tc[r]).id]
  BY DEF Begin, At, GoTo, historyVars
<1>5. pending' \in [Requests -> Seq(Secrets)]
  BY <1>1, <1>3
<1>6. ASSUME NEW q \in Requests
      PROVE  /\ Begun(q) => /\ Begun(q)' /\ tenant'[q] = tenant[q]
                            /\ pending'[q] \in {pending[q], << >>}
             /\ PendingPart(q)'
  <2>1. CASE q = r
    BY <2>1, <1>1, <1>3, <1>4 DEF Begun, PendingPart
  <2>2. CASE q # r
    <3>1. pending'[q] = pending[q] /\ tenant'[q] = tenant[q] /\ rpc'[q] = rpc[q]
      BY <2>2, <1>1, <1>3, <1>4
    <3>2. PendingPart(q)
      BY DEF VaultView
    <3> QED
      BY <3>1, <3>2 DEF Begun, PendingPart
  <2> QED
    BY <2>1, <2>2
<1> QED
  BY <1>4, <1>5, <1>6, MovesKeepVault

LEMMA VaultViewStep ==
    ASSUME PathTypes, PoolView, TenantView, VaultView, [PathNext]_pathVars
    PROVE  VaultView'
<1>1. CASE UNCHANGED <<vaultVars, call, pseudonyms, rpc, tenant, pending>>
  <2>1. \A q \in Requests : PendingPart(q)'
    BY <1>1 DEF VaultView, PendingPart
  <2>2. pending' \in [Requests -> Seq(Secrets)]
    BY <1>1 DEF VaultView, VaultTypes
  <2> QED
    BY <1>1, <2>1, <2>2, MovesKeepVault DEF Begun
<1>2. CASE UNCHANGED pathVars
  BY <1>1, <1>2 DEF pathVars, handlerVars, historyVars
<1>3. CASE UpdateTenants \/ CollectPooled
  BY <1>1, <1>3 DEF UpdateTenants, CollectPooled, handlerVars, historyVars
<1>4. ASSUME NEW r \in Requests, Transmit(r) PROVE VaultView'
  BY <1>1, <1>4 DEF Transmit, historyVars
<1>5. ASSUME NEW r \in Requests, AuthFails(r) \/ BodyFails(r) \/ Release(r)
      PROVE  VaultView'
  <2>1. Return(r)
    BY <1>5 DEF AuthFails, BodyFails, Release
  <2>2. /\ UNCHANGED <<vaultVars, call, pseudonyms, tenant>>
        /\ rpc' = [rpc EXCEPT ![r] = "done"]
        /\ pending' = [pending EXCEPT ![r] = << >>]
    BY <2>1 DEF Return, GoTo, historyVars
  <2> QED
    BY <2>2, PlaceKeepsVault
<1>6. ASSUME NEW r \in Requests, AuthPasses(r) PROVE VaultView'
  <2>1. /\ UNCHANGED <<vaultVars, call, pseudonyms, tenant, pending>>
        /\ rpc' = [rpc EXCEPT ![r] = "body"] /\ ~ Begun(r)
    BY <1>6 DEF AuthPasses, At, GoTo, Begun
  <2> QED
    BY <2>1, PlaceKeepsVault
<1>7. ASSUME NEW r \in Requests, Refused(r) \/ Send(r) \/ Answered(r)
      PROVE  VaultView'
  <2>1. /\ UNCHANGED <<vaultVars, call, pseudonyms, tenant, pending>>
        /\ rpc' = [rpc EXCEPT ![r] = "await"] \/ rpc' = [rpc EXCEPT ![r] = "release"]
    BY <1>7 DEF Refused, Send, Answered, GoTo, historyVars
  <2> QED
    BY <2>1, PlaceKeepsVault
<1>8. ASSUME NEW r \in Requests, Inspect(r) \/ Sanitize(r) \/ Canary(r) \/ Redact(r)
      PROVE  VaultView'
  <2>1. StageStep(r)
    BY <1>8, StageSteps
  <2>2. PICK result \in Results(r) : Settle(r, result)
    BY <2>1 DEF StageStep
  <2>3. UNCHANGED <<vaultVars, call, pseudonyms, tenant, pending>>
    BY <2>2 DEF Settle
  <2>4. \E p \in {"release", "forward", "pipeline"} : rpc' = [rpc EXCEPT ![r] = p]
    BY <2>2 DEF Settle, GoTo
  <2> QED
    BY <2>3, <2>4, PlaceKeepsVault
<1>9. ASSUME NEW r \in Requests, HandlerStep(r) \/ Transmit(r) PROVE VaultView'
  BY <1>4, <1>5, <1>6, <1>7, <1>8, <1>9, BeginKeepsVault, StoreBeginsKeepsVault,
     StoreEndsKeepsVault
     DEF HandlerStep
<1> QED
  BY <1>2, <1>3, <1>9, DestroyBeginsKeepsVault, DestroyEndsKeepsVault DEF PathNext

-----------------------------------------------------------------------------
(***************************************************************************)
(* The theorems                                                            *)
(***************************************************************************)
PathInv == PathTypes /\ PoolView /\ CallView /\ InspectView /\ TenantView /\ VaultView

LEMMA PathInvariance == PathSpec => []PathInv
<1>1. PathInit => PathInv
  BY InitialPathTypes, InitialPoolView, InitialCallView, InitialInspectView,
     InitialTenantView, InitialVaultView
     DEF PathInv
<1>2. PathInv /\ [PathNext]_pathVars => PathInv'
  BY PoolViewStep, CallViewStep, InspectViewStep, TenantViewStep, VaultViewStep
     DEF PathInv, VaultView, VaultTypes
<1> QED
  BY <1>1, <1>2, PTL DEF PathSpec

\* Types, in every reachable state.
THEOREM PathTypeCorrect == PathSpec => []PathTypeOK
<1>1. PathInv => PathTypeOK
  <2> SUFFICES ASSUME PathInv PROVE PathTypeOK
    OBVIOUS
  <2>1. ASSUME NEW b \in Buffers
        PROVE  /\ b.len \in 0 .. Len(b.cells)
               /\ \A i \in DOMAIN b.cells : b.cells[i] \in Requests \cup {Zero}
    <3>1. b \in Buffer
      BY DEF PathInv, PathTypes, Buffers
    <3> QED
      BY <3>1, BufferParts DEF Cell
  <2>2. current \in DOMAIN arrays
    BY DEF PathInv, TenantView
  <2>3. sessions \in [SessionKeys -> Storers \cup {NoMapping}]
    BY DEF PathInv, VaultView, VaultTypes
  <2> QED
    BY <2>1, <2>2, <2>3 DEF PathInv, PathTypes, PathTypeOK
<1> QED
  BY <1>1, PathInvariance, PTL

\* ReleaseContext wipes what a request carried: the payload arrays of a pooled context
\* are zero to their full capacity, whatever the stages did to the buffers, no entry of
\* Violations is within its length, and the token, the findings, the durations and
\* StdContext are cleared.  It says nothing of the identity, RequestID, IsStreaming and
\* the entries behind the length, which stay.
THEOREM PoolKeepsNothingCarried == PathSpec => []PoolKeepsNoPayload
<1>1. PathInv => PoolKeepsNoPayload
  BY DEF PathInv, PoolView
<1> QED
  BY <1>1, PathInvariance, PTL

\* While handleProxy holds a context, it is the request's alone, everything that can be
\* read in it is the request's own, also the fields that the pool keeps, and so is what
\* Forward has sent.
THEOREM RequestsApart == PathSpec => []OwnDataOnly
<1>1. PathInv => OwnDataOnly
  <2> SUFFICES ASSUME PathInv, NEW r \in Requests, Serving(r)
               PROVE  /\ ctx[r] \notin pool
                      /\ \A q \in Requests \ {r} : Serving(q) => ctx[q] # ctx[r]
                      /\ \A b \in {raw[ctx[r]], clean[ctx[r]]} : \A i \in DOMAIN b.cells :
                             b.cells[i] \in IF i <= b.len THEN {r} ELSE {r, Zero}
                      /\ \A i \in 1 .. violations[ctx[r]].len :
                             violations[ctx[r]].cells[i] = r
                      /\ \A f \in Fields : marks[ctx[r]][f] \in {r, Nobody}
                      /\ \A f \in {"std", "identity", "request"} : marks[ctx[r]][f] = r
                      /\ wire[r] \subseteq {r}
    BY DEF OwnDataOnly
  <2>1. HoldsOwn(r) /\ PoolPart(r)
    BY DEF PathInv, PoolView, PoolPart
  <2>2. wire[r] \subseteq {r}
    BY <2>1 DEF PoolPart, Serving, Unsent, ReadsOwn
  <2>3. ASSUME NEW b \in {raw[ctx[r]], clean[ctx[r]]}, NEW i \in DOMAIN b.cells
        PROVE  b.cells[i] \in IF i <= b.len THEN {r} ELSE {r, Zero}
    <3>1. b \in Buffer /\ Owned(b, r)
      BY <2>1 DEF HoldsOwn, PathInv, PathTypes
    <3>2. i \in 1 .. Len(b.cells)
      BY <3>1, BufferParts
    <3> QED
      BY <3>1, <3>2 DEF Owned
  <2> QED
    BY <2>1, <2>2, <2>3 DEF HoldsOwn, Shown
<1> QED
  BY <1>1, PathInvariance, PTL

\* Execute fails closed: nothing is forwarded, or on the wire, unless every fail-closed
\* stage of the pipeline has let the request pass.
THEOREM ForwardedIsInspected == PathSpec => []OnlyInspectedSent
<1>1. PathInv => OnlyInspectedSent
  <2> SUFFICES ASSUME PathInv, NEW r \in Requests,
                      rpc[r] \in {"forward", "await"} \/ wire[r] # {},
                      NEW i \in DOMAIN Pipeline, Pipeline[i].failClosed
               PROVE  i \in approved[r]
    BY DEF OnlyInspectedSent
  <2>1. ApprovedBefore(r, Len(Pipeline) + 1)
    BY DEF PathInv, InspectView, InspectPart
  <2>2. i \in 1 .. Len(Pipeline) /\ i < Len(Pipeline) + 1
    BY PathAssumption
  <2> QED
    BY <2>1, <2>2 DEF ApprovedBefore
<1> QED
  BY <1>1, PathInvariance, PTL

\* A request is served as the enabled tenant that VerifyKey matched, whenever the
\* tenant list is replaced.
THEOREM TenantStaysVerified == PathSpec => []ServedAsVerified
<1>1. PathInv => ServedAsVerified
  BY DEF PathInv, TenantView, TenantPart, ServedAsVerified
<1> QED
  BY <1>1, PathInvariance, PTL

\* A pseudonym that Store returned resolves to its secret until its mapping is
\* destroyed, the requests of a session get the same one, and tenants share none.
THEOREM PseudonymsStand == PathSpec => []PseudonymsResolve
<1>1. PathInv => PseudonymsResolve
  <2> SUFFICES ASSUME PathInv, NEW r \in Requests, NEW p \in pseudonyms[r]
               PROVE  /\ p[2] \notin removed => Resolves(SessionKey(r), p[3], p[1])
                      /\ \A q \in Requests : \A o \in pseudonyms[q] : o[2] = p[2] =>
                             /\ tenant[q] = tenant[r]
                             /\ o[1] = p[1] /\ p[2] \notin removed => o[3] = p[3]
    BY DEF PseudonymsResolve
  <2>1. \A q \in Requests : PseudonymPart(q)
    BY DEF PathInv, VaultView
  <2>2. Shares(r, p[2]) /\ p[2] \in Storers
    BY <2>1 DEF PseudonymPart, Shares
  <2>3. ASSUME p[2] \notin removed PROVE Resolves(SessionKey(r), p[3], p[1])
    <3>1. PICK k \in SessionKeys : sessions[k] = p[2]
      BY <2>2, <2>3 DEF Shares, Made
    <3>2. p[2] # NoMapping
      BY <2>2, StorerParts
    <3>3. KeyPart(k) /\ PairPart(p[2])
      BY <2>2 DEF PathInv, VaultView
    <3>4. SessionKey(r) = k
      BY <2>2, <3>1, <3>2, <3>3 DEF KeyPart, Shares
    <3>5. p[1] \in DOMAIN forwardMap[p[2]] /\ forwardMap[p[2]][p[1]] = p[3]
      BY <2>1, <2>3 DEF PseudonymPart
    <3>6. p[3] \in DOMAIN reverseMap[p[2]] /\ reverseMap[p[2]][p[3]] = p[1]
      BY <3>3, <3>5 DEF PairPart, Paired
    <3> QED
      BY <3>1, <3>2, <3>4, <3>6 DEF Resolves
  <2>4. ASSUME NEW q \in Requests, NEW o \in pseudonyms[q], o[2] = p[2]
        PROVE  /\ tenant[q] = tenant[r]
               /\ o[1] = p[1] /\ p[2] \notin removed => o[3] = p[3]
    <3>1. Shares(q, p[2])
      BY <2>1, <2>4 DEF PseudonymPart
    <3>2. SessionKey(q) = SessionKey(r)
      BY <2>2, <3>1 DEF Shares
    <3>3. PICK t \in Tenants, u \in Tenants : tenant[q] = t.id /\ tenant[r] = u.id
      BY <2>2, <3>1 DEF Shares
    <3>4. SessionOf[q] \in Seq(STRING) /\ SessionOf[r] \in Seq(STRING)
      BY PathAssumption
    <3>5. SessionKeyOf(t.id, SessionOf[q]) = SessionKeyOf(u.id, SessionOf[r])
      BY <3>2, <3>3 DEF SessionKey
    <3>6. t.id = u.id
      BY <3>4, <3>5, KeysOfTenantsDiffer
    <3>7. ASSUME o[1] = p[1], p[2] \notin removed PROVE o[3] = p[3]
      BY <2>1, <2>4, <3>7 DEF PseudonymPart
    <3> QED
      BY <3>3, <3>6, <3>7
  <2> QED
    BY <2>3, <2>4
<1> QED
  BY <1>1, PathInvariance, PTL

\* What is found in a destroyed mapping was written by a Store that had found the
\* mapping before Destroy took it out of the vault.
THEOREM DestroyLeavesOnlyRaces == PathSpec => []OrphansOnlyByRace
<1>1. PathInv => OrphansOnlyByRace
  <2> SUFFICES ASSUME PathInv, NEW m \in removed \ {destroying},
                      NEW s \in DOMAIN forwardMap[m] \cup Range(reverseMap[m])
               PROVE  \E r \in caught : \E p \in pseudonyms[r] : p[1] = s /\ p[2] = m
    BY DEF OrphansOnlyByRace
  <2>1. m \in Storers /\ PairPart(m) /\ OrphanPart(m)
    BY DEF PathInv, VaultView, VaultTypes
  <2>2. s \in DOMAIN forwardMap[m]
    BY <2>1 DEF PairPart, Paired, Range
  <2> QED
    BY <2>1, <2>2 DEF OrphanPart
<1> QED
  BY <1>1, PathInvariance, PTL
==============================================================================
