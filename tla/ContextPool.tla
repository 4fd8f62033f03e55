----------------------------- MODULE ContextPool -----------------------------
(***************************************************************************)
(* The recycled request contexts of internal/pipeline/pipeline.go.         *)
(*                                                                         *)
(* A payload buffer is an array of cells and a length; a cell is Zero or   *)
(* names the request whose data it holds.  Violations is such an array of  *)
(* entries.  The other fields of a context are abstracted to the request   *)
(* that set them; UpstreamStatus is left out, as it is 0 for ever.  alias  *)
(* says what the reader of an upstream request body sees: the array of a   *)
(* context's CleanPayload, or, once the context has another array, cells   *)
(* that nobody writes any more.                                            *)
(***************************************************************************)
EXTENDS Naturals, Sequences

CONSTANTS Requests,
          Contexts,
          NoContext,
          Zero,            \* the byte 0, and the entry that is not used yet
          Nobody,          \* what a field that is not set belongs to
          InitialCap,      \* capacity of a new payload buffer: 16384
          InitialEntries,  \* capacity of a new Violations: 8
          MaxReusable      \* MaxReusableBufferCapacity

ASSUME PoolAssumption ==
    /\ InitialCap \in Nat
    /\ InitialEntries \in Nat
    /\ MaxReusable \in Nat
    /\ NoContext \notin Contexts
    /\ Zero \notin Requests
    /\ Nobody \notin Requests

VARIABLES raw,         \* RawPayload of each context
          clean,       \* CleanPayload
          violations,  \* Violations
          marks,       \* the owner of each other field
          pool,        \* contexts that the next Get may return
          alias        \* what each request's body reader reads

poolVars == <<raw, clean, violations, marks, pool, alias>>

\* TenantID, SessionID and StartTime are the identity, MatchedRuleID and
\* ViolationType the findings.
Fields == {"std", "identity", "request", "streaming", "canary", "findings", "durations"}

Unset == [f \in Fields |-> Nobody]

\* r sets some of the fields.
SetBy(r, some, fields) == [f \in Fields |-> IF f \in some THEN r ELSE fields[f]]

NewBuffer(capacity) == [cells |-> [i \in 1 .. capacity |-> Zero], len |-> 0]

Fresh == NewBuffer(InitialCap)

NoViolations == NewBuffer(InitialEntries)

NoAlias == [at |-> NoContext, kept |-> << >>, len |-> 0]

\* New makes a context when the pool is empty.
PoolInit ==
    /\ raw = [c \in Contexts |-> Fresh]
    /\ clean = [c \in Contexts |-> Fresh]
    /\ violations = [c \in Contexts |-> NoViolations]
    /\ marks = [c \in Contexts |-> Unset]
    /\ pool = Contexts
    /\ alias = [r \in Requests |-> NoAlias]

-----------------------------------------------------------------------------
\* append(buf, ...) of n bytes of r: in place if they fit.
Fits(buf, n) == buf.len + n <= Len(buf.cells)

\* Mutant of Appended: what does not fit is lost.
AppendedWithin(buf, r, n) ==
    [cells |-> [i \in DOMAIN buf.cells |->
                   IF i \in buf.len + 1 .. buf.len + n THEN r ELSE buf.cells[i]],
     len |-> buf.len + n]

Appended(buf, r, n) ==
    [cells |-> [i \in 1 .. (IF Fits(buf, n) THEN Len(buf.cells) ELSE buf.len + n) |->
                   IF i \in buf.len + 1 .. buf.len + n THEN r ELSE buf.cells[i]],
     len |-> buf.len + n]

\* A new array with the first n bytes of buf.
Copied(buf, n) ==
    [cells |-> [i \in 1 .. buf.len |-> IF i <= n THEN buf.cells[i] ELSE Zero],
     len |-> n]

\* The readers of c's array keep it when c gets another.
Detach(c, cells) ==
    alias' = [r \in Requests |-> IF alias[r].at = c
                                 THEN [alias[r] EXCEPT !.at = NoContext, !.kept = cells]
                                 ELSE alias[r]]

\* c's CleanPayload becomes buf, in the same array or in another one.
SetClean(c, buf, inPlace) ==
    /\ clean' = [clean EXCEPT ![c] = buf]
    /\ IF inPlace THEN UNCHANGED alias ELSE Detach(c, clean[c].cells)

View(r) == IF alias[r].at = NoContext THEN alias[r].kept
           ELSE clean[alias[r].at].cells

-----------------------------------------------------------------------------
\* buf[:0] has the cells of buf.
Emptied(buf) == [buf EXCEPT !.len = 0]

\* c gets n entries of r.
AddViolations(c, r, n) == violations' = [violations EXCEPT ![c] = Appended(@, r, n)]

\* Mutant of Acquired: streaming is not reset.
AcquiredStreaming(c, r) ==
    [Unset EXCEPT !["std"] = r, !["identity"] = r,
                  !["request"] = marks[c]["request"], !["streaming"] = marks[c]["streaming"]]

\* AcquireContext sets or resets every field except RequestID.
Acquired(c, r) ==
    [Unset EXCEPT !["std"] = r, !["identity"] = r, !["request"] = marks[c]["request"]]

\* AcquireContext, and handleProxy after it: RequestID, the two appends, IsStreaming.
AcquireContext(r, c, n, streaming) ==
    /\ c \in pool
    /\ pool' = pool \ {c}
    /\ raw' = [raw EXCEPT ![c] = Appended(Emptied(@), r, n)]
    /\ LET empty == Emptied(clean[c]) IN
       SetClean(c, Appended(empty, r, n), Fits(empty, n))
    /\ violations' = [violations EXCEPT ![c] = Emptied(@)]
    /\ marks' = [marks EXCEPT ![c] =
                    SetBy(r, {"request"} \cup (IF streaming THEN {"streaming"} ELSE {}),
                          Acquired(c, r))]

\* The loop writes zeros up to the buffer's length.
Wiped(buf) ==
    [cells |-> [i \in DOMAIN buf.cells |-> IF i <= buf.len THEN Zero ELSE buf.cells[i]],
     len |-> 0]

TooLarge(buf) == Len(buf.cells) > MaxReusable

\* What ReleaseContext puts back into the pool.
Recycled(buf) == IF TooLarge(buf) THEN Fresh ELSE Wiped(buf)

\* The fields that ReleaseContext leaves as they are.
Kept == {"identity", "request", "streaming"}

ReleaseContext(c) ==
    /\ raw' = [raw EXCEPT ![c] = Recycled(@)]
    /\ clean' = [clean EXCEPT ![c] = Recycled(@)]
    /\ IF TooLarge(clean[c]) THEN Detach(c, Wiped(clean[c]).cells) ELSE UNCHANGED alias
    /\ violations' = [violations EXCEPT ![c] = Emptied(@)]
    /\ marks' = [marks EXCEPT ![c] = SetBy(Nobody, Fields \ Kept, @)]
    /\ pool' = pool \cup {c}

\* The garbage collector empties the pool of c; New makes another one.
Collect(c) ==
    /\ c \in pool
    /\ <<raw[c], clean[c], violations[c], marks[c]>> # <<Fresh, Fresh, NoViolations, Unset>>
    /\ raw' = [raw EXCEPT ![c] = Fresh]
    /\ SetClean(c, Fresh, FALSE)
    /\ violations' = [violations EXCEPT ![c] = NoViolations]
    /\ marks' = [marks EXCEPT ![c] = Unset]
    /\ UNCHANGED pool
==============================================================================
