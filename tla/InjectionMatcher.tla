-------------------------- MODULE InjectionMatcher --------------------------
(***************************************************************************)
(* The Aho-Corasick automaton of internal/inbound/ahocorasick.go: the trie *)
(* is built byte by byte, completed breadth first, and then run over a     *)
(* text.  Node 0 is the root, and in a trie node's transitions it also     *)
(* stands for "none", as in the code.                                      *)
(***************************************************************************)
EXTENDS Naturals, Sequences, SequencesExt, Lists

CONSTANTS Bytes,          \* the bytes, in order
          PatternLists,   \* lists of patterns to build from
          Texts,
          Lower(_),       \* the lower case of a byte
          Space,          \* white space, which patterns are trimmed of
          NoMatch

VARIABLES patterns, nodes,
          apc,      \* what runs: the two loops of NewAhoCorasick, or Search
          pattern,  \* the index of the pattern being inserted
          pos,      \* the index of the next byte of a pattern or of the text
          curr,     \* the node reached
          queue,
          text,
          match     \* the pattern that Search returned

matcherVars == <<patterns, nodes, apc, pattern, pos, curr, queue, text, match>>

EmptyNode == [next |-> [b \in Range(Bytes) |-> 0], fail |-> 0, output |-> << >>]

MatcherStart(list) ==
    /\ patterns = list
    /\ nodes = [n \in {0} |-> EmptyNode]
    /\ apc = "insert"
    /\ pattern = 1
    /\ pos = 1
    /\ curr = 0
    /\ queue = << >>
    /\ text = << >>
    /\ match = NoMatch

MatcherInit == \E list \in PatternLists : MatcherStart(list)

-----------------------------------------------------------------------------
\* strings.ToLower of strings.TrimSpace.
Clean(p) ==
    LET solid == {i \in DOMAIN p : p[i] # Space} IN
    IF solid = {} THEN << >>
    ELSE [i \in 1 .. Max(solid) - Min(solid) + 1 |-> Lower(p[Min(solid) + i - 1])]

\* Bytes lists the alphabet, which the keys and the lowered texts are over.
ASSUME MatcherAssumption ==
    /\ Bytes \in Seq(Range(Bytes)) /\ IsInjective(Bytes)
    /\ \A list \in PatternLists :
           /\ list \in Seq(Range(list)) /\ NoMatch \notin Range(list)
           /\ \A p \in Range(list) : Clean(p) \in Seq(Range(Bytes))
    /\ \A t \in Texts :
           t \in Seq(Range(t)) /\ \A b \in Range(t) : Lower(b) \in Range(Bytes)

Inserting == apc = "insert" /\ pattern <= Len(patterns)

Key == Clean(patterns[pattern])

InsertByte ==
    /\ Inserting
    /\ pos <= Len(Key)
    /\ LET next == nodes[curr].next[Key[pos]]
           new == Cardinality(DOMAIN nodes)
       IN IF next # 0
          THEN curr' = next /\ UNCHANGED nodes
          ELSE /\ curr' = new
               /\ nodes' = [n \in 0 .. new |->
                               CASE n = new -> EmptyNode
                                 [] n = curr -> [nodes[n] EXCEPT !.next[Key[pos]] = new]
                                 [] OTHER -> nodes[n]]
    /\ pos' = pos + 1
    /\ UNCHANGED <<patterns, apc, pattern, queue, text, match>>

\* A pattern that is empty after trimming is skipped.
PatternEnds ==
    /\ Inserting
    /\ pos > Len(Key)
    /\ nodes' = IF Key = << >> THEN nodes
                ELSE [nodes EXCEPT ![curr].output = Append(@, patterns[pattern])]
    /\ pattern' = pattern + 1
    /\ pos' = 1
    /\ curr' = 0
    /\ UNCHANGED <<patterns, apc, queue, text, match>>

Children(n) ==
    Only([i \in DOMAIN Bytes |-> nodes[n].next[Bytes[i]]], DOMAIN nodes \ {0})

\* Depth 1 states fail to the root.
TrieEnds ==
    /\ apc = "insert"
    /\ pattern > Len(patterns)
    /\ apc' = "complete"
    /\ queue' = Children(0)
    /\ UNCHANGED <<patterns, nodes, pattern, pos, curr, text, match>>

\* Mutant of Inherited: a node has the output of its own patterns only.
InheritedNot(n, fail) == nodes[n].output

\* A node's patterns, followed by those of its failure state.
Inherited(n, fail) == nodes[n].output \o nodes[fail].output

\* One turn of the breadth-first loop: the links of the first node's children,
\* and its missing transitions.
Dequeue ==
    /\ apc = "complete"
    /\ queue # << >>
    /\ LET n == Head(queue)
           onFail == nodes[nodes[n].fail].next
           byteTo(c) == CHOOSE b \in Range(Bytes) : nodes[n].next[b] = c
       IN /\ nodes' = [c \in DOMAIN nodes |->
                 CASE c = n -> [nodes[n] EXCEPT !.next = [b \in Range(Bytes) |->
                                    IF @[b] # 0 THEN @[b] ELSE onFail[b]]]
                   [] c \in Range(Children(n)) ->
                          LET fail == onFail[byteTo(c)] IN
                          [nodes[c] EXCEPT !.fail = fail, !.output = Inherited(c, fail)]
                   [] OTHER -> nodes[c]]
          /\ queue' = Tail(queue) \o Children(n)
    /\ UNCHANGED <<patterns, apc, pattern, pos, curr, text, match>>

\* The automaton is built, and is run over any text.
SearchBegins ==
    /\ apc = "complete"
    /\ queue = << >>
    /\ apc' = "search"
    /\ text' \in Texts
    /\ UNCHANGED <<patterns, nodes, pattern, pos, curr, queue, match>>

SearchByte ==
    /\ apc = "search"
    /\ pos <= Len(text)
    /\ match = NoMatch
    /\ curr' = nodes[curr].next[Lower(text[pos])]
    /\ match' = IF nodes[curr'].output = << >> THEN NoMatch ELSE nodes[curr'].output[1]
    /\ pos' = pos + 1
    /\ UNCHANGED <<patterns, nodes, apc, pattern, queue, text>>

MatcherNext ==
    \/ InsertByte \/ PatternEnds \/ TrieEnds \/ Dequeue
    \/ SearchBegins \/ SearchByte

MatcherSpec == MatcherInit /\ [][MatcherNext]_matcherVars

-----------------------------------------------------------------------------
Folded == [i \in DOMAIN text |-> Lower(text[i])]

\* The patterns that occur in the text with their last byte at position e.
EndingAt(e) ==
    {i \in DOMAIN patterns :
        LET key == Clean(patterns[i]) IN
        /\ key # << >>
        /\ Len(key) <= e
        /\ SubSeq(Folded, e - Len(key) + 1, e) = key}

(***************************************************************************)
(* Search agrees with a plain search for every pattern at every place: it  *)
(* has reported nothing as long as no pattern has ended, and reports, at   *)
(* the first byte where one ends, the longest of those that end there.     *)
(***************************************************************************)
MatcherFindsFirst ==
    apc = "search" =>
        /\ match = NoMatch <=> \A e \in 1 .. pos - 1 : EndingAt(e) = {}
        /\ match # NoMatch =>
               \E i \in EndingAt(pos - 1) :
                   /\ match = patterns[i]
                   /\ \A j \in EndingAt(pos - 1) :
                          Len(Clean(patterns[j])) <= Len(Clean(match))
==============================================================================
