--------------------------- MODULE DocumentObjects ---------------------------
(* The object cache of a document (crates/pdf/src/document.rs, objstm.rs)  *)
(* and the values derived from its objects (derived.rs), shared by the     *)
(* threads that render its pages.  The objects are the object streams and  *)
(* for each of them its filter, an object of its own that the file or      *)
(* another object stream holds: what its /Filter refers to or, for some,   *)
(* its /DecodeParms.  A thread is a stack of calls.                        *)
EXTENDS RenderPool, Naturals, Sequences, FiniteSets

CONSTANTS Streams,     \* object streams; each lies directly in the file
          Parms,       \* those whose filter is their /DecodeParms
          File,        \* where a filter is that no object stream holds
          Documents,   \* the documents that may be opened: stream -> the
                       \* object stream its filter is in, or File
          Uses,        \* stream -> the one whose derived value its own needs
          AskedFor,    \* what the pages ask for, objects and derived values
          Nothing,     \* no such stream, and no request
          MaxNesting,  \* MAX_OBJSTM_NESTING
          MaxPanics

ASSUME DocumentObjectsAssumption ==
  /\ Threads # {} /\ Parms \subseteq Streams
  /\ Threads \cap {"none", "whole", "wrong", "raw", "missing"} = {}
  /\ File \notin Streams /\ Nothing \notin Streams
  /\ Documents \subseteq [Streams -> Streams \cup {File}]
  /\ Uses \in [Streams -> Streams \cup {Nothing}]
  /\ MaxNesting \in Nat \ {0} /\ MaxPanics \in Nat

VARIABLES
  filterIn,  \* the document that is open
  cache,     \* object -> its value, or "none"
  opened,    \* stream -> its decode in the ObjStmCache, or "none"
  cell,      \* stream -> derived value, the thread that makes it, or "none"
  stack,     \* thread -> its calls, the innermost first
  answer,    \* thread -> what the call that ended last returned, or "none"
  asked,     \* thread -> the request its stack serves or last served
  panics

objectsVars == <<filterIn, cache, opened, cell, stack, answer, asked, panics>>

(* An object and a derived value are "whole" as the file has them, "wrong" *)
(* as a container wrongly decoded gives them, or "missing".  A stream with *)
(* its filter inlined is what the filter is, one with the reference still  *)
(* in its dictionary is "raw".                                             *)
Values == {"whole", "wrong", "raw", "missing"}
Kinds == {"stream", "filter"}
Objects == Kinds \X Streams
Requests == (Kinds \cup {"derived"}) \X Streams

ASSUME AskedForAssumption == AskedFor \subseteq Requests

(* get: get_object_at; read: parse_object_uncached of a filter; derived:   *)
(* get_or_derive.  after is what is left to do when the callee returns: in *)
(* a maker that needs another value too, what its own stream decodes to.   *)
Frame == [kind : Kinds \cup {"read", "derived"}, on : Streams,
          depth : 0..MaxNesting,
          after : {"enter", "store", "open", "use", "whole", "wrong", "missing"}]
Calling(k, s, d) == [kind |-> k, on |-> s, depth |-> d, after |-> "enter"]

ObjectsTypeOK ==
  /\ filterIn \in Documents
  /\ cache \in [Objects -> Values \cup {"none"}]
  /\ opened \in [Streams -> {"none", "whole", "wrong"}]
  /\ cell \in [Streams -> Values \cup {"none"} \cup Threads]
  /\ stack \in [Threads -> Seq(Frame)]
  /\ answer \in [Threads -> Values \cup {"none"}]
  /\ asked \in [Threads -> Requests \cup {Nothing}]
  /\ panics \in 0..MaxPanics

ObjectsInit ==
  /\ filterIn \in Documents
  /\ cache = [o \in Objects |-> "none"]
  /\ opened = [s \in Streams |-> "none"]
  /\ cell = [s \in Streams |-> "none"]
  /\ stack = [t \in Threads |-> <<>>]
  /\ answer = [t \in Threads |-> "none"]
  /\ asked = [t \in Threads |-> Nothing]
  /\ panics = 0

-----------------------------------------------------------------------------
At(t, kinds, steps) ==
  /\ stack[t] # <<>>
  /\ Head(stack[t]).kind \in kinds
  /\ Head(stack[t]).after \in steps

\* The innermost call of t calls f, to go on with step when f returns.
Call(t, step, f) ==
  /\ stack' = [stack EXCEPT ![t] =
                 <<f, [Head(@) EXCEPT !.after = step]>> \o Tail(@)]
  /\ answer' = [answer EXCEPT ![t] = "none"]

Return(t, v) ==
  /\ stack' = [stack EXCEPT ![t] = Tail(@)]
  /\ answer' = [answer EXCEPT ![t] = v]

\* A page asks for an object or for a derived value.
Request(t) ==
  /\ stack[t] = <<>>
  /\ \E r \in AskedFor :
       /\ stack' = [stack EXCEPT ![t] = <<Calling(r[1], r[2], 0)>>]
       /\ asked' = [asked EXCEPT ![t] = r]
  /\ answer' = [answer EXCEPT ![t] = "none"]
  /\ UNCHANGED <<filterIn, cache, opened, cell, panics>>

-----------------------------------------------------------------------------
(* get_object_at: the cache is locked for the lookup and for the insertion *)
(* and not while the object is parsed.                                     *)
ObjectOf(f) == <<f.kind, f.on>>

Hit(t) ==
  /\ At(t, Kinds, {"enter"})
  /\ cache[ObjectOf(Head(stack[t]))] # "none"
  /\ Return(t, cache[ObjectOf(Head(stack[t]))])
  /\ UNCHANGED <<filterIn, cache, opened, cell, asked, panics>>

\* A mutant of Miss: the stream is cached before its filter is inlined.
MissCachesFirst(t) ==
  /\ At(t, Kinds, {"enter"})
  /\ LET f == Head(stack[t]) IN
       /\ cache[ObjectOf(f)] = "none"
       /\ cache' = IF f.kind = "stream" THEN [cache EXCEPT ![ObjectOf(f)] = "raw"] ELSE cache
       /\ Call(t, "store", Calling("read", f.on, f.depth))
  /\ UNCHANGED <<filterIn, opened, cell, asked, panics>>

\* The stream is parsed and its filter, or the filter asked for, is read.
Miss(t) ==
  /\ At(t, Kinds, {"enter"})
  /\ LET f == Head(stack[t]) IN
       /\ cache[ObjectOf(f)] = "none"
       /\ Call(t, "store", Calling("read", f.on, f.depth))
  /\ UNCHANGED <<filterIn, cache, opened, cell, asked, panics>>

\* A stream whose filter cannot be read, or is no filter, keeps its reference.
Inlined(filter) ==
  CASE filter = "whole" -> {"whole"}
    [] filter = "wrong" -> {"wrong", "raw"}
    [] OTHER            -> {"raw"}

\* A filter that cannot be read is an error and is not cached.
Store(t) ==
  /\ At(t, Kinds, {"store"}) /\ answer[t] # "none"
  /\ LET o == ObjectOf(Head(stack[t])) IN
     \E v \in IF o[1] = "stream" THEN Inlined(answer[t]) ELSE {answer[t]} :
        /\ cache' = IF v = "missing" THEN cache ELSE [cache EXCEPT ![o] = v]
        /\ Return(t, v)
  /\ UNCHANGED <<filterIn, opened, cell, asked, panics>>

-----------------------------------------------------------------------------
(* parse_object_uncached and, for a filter in an object stream,            *)
(* parse_compressed.                                                       *)
ReadDirect(t) ==
  /\ At(t, {"read"}, {"enter"})
  /\ filterIn[Head(stack[t]).on] = File
  /\ Return(t, "whole")
  /\ UNCHANGED <<filterIn, cache, opened, cell, asked, panics>>

ReadCompressed(t) ==
  /\ At(t, {"read"}, {"enter"})
  /\ LET f == Head(stack[t]) IN
       /\ filterIn[f.on] # File
       /\ IF f.depth >= MaxNesting
            THEN Return(t, "missing")
            ELSE Call(t, "open", Calling("stream", filterIn[f.on], f.depth + 1))
  /\ UNCHANGED <<filterIn, cache, opened, cell, asked, panics>>

\* What decoding stream c gives, found as v: a reference for a /Filter is an error, one for
\* /DecodeParms is taken for no parameters, and the bytes are not what was encoded, if the
\* decoder or the object stream's header does not fail on them.
Decodes(c, v) ==
  CASE v = "whole" -> {"whole"}
    [] v = "wrong" \/ (v = "raw" /\ c \in Parms) -> {"wrong", "missing"}
    [] OTHER -> {"missing"}

\* In a wrong decode, whatever its directory says.
Found(decode) == IF decode = "wrong" THEN {"wrong", "missing"} ELSE {decode}

\* get_or_parse: a container opened before is not decoded again; a decode that fails is not
\* remembered, any other is kept for good.
Open(t) ==
  /\ At(t, {"read"}, {"open"}) /\ answer[t] # "none"
  /\ LET c == filterIn[Head(stack[t]).on] IN
     \E decode \in IF opened[c] = "none" THEN Decodes(c, answer[t]) ELSE {opened[c]} :
        /\ opened' = IF decode = "missing" THEN opened ELSE [opened EXCEPT ![c] = decode]
        /\ \E v \in Found(decode) : Return(t, v)
  /\ UNCHANGED <<filterIn, cache, cell, asked, panics>>

-----------------------------------------------------------------------------
(* get_or_derive: the first to come makes the value, from the object and,  *)
(* for some, from another derived value; later ones wait for the cell.     *)
\* A mutant of Claim: the cell is looked at and not held.
ClaimUnheld(t) ==
  /\ At(t, {"derived"}, {"enter"})
  /\ LET s == Head(stack[t]).on IN
       /\ cell[s] \notin Values
       /\ cell' = [cell EXCEPT ![s] = t]
       /\ Call(t, "use", Calling("stream", s, 0))
  /\ UNCHANGED <<filterIn, cache, opened, asked, panics>>

Claim(t) ==
  /\ At(t, {"derived"}, {"enter"})
  /\ LET s == Head(stack[t]).on IN
       /\ cell[s] = "none"
       /\ cell' = [cell EXCEPT ![s] = t]
       /\ Call(t, "use", Calling("stream", s, 0))
  /\ UNCHANGED <<filterIn, cache, opened, asked, panics>>

Shared(t) ==
  /\ At(t, {"derived"}, {"enter"})
  /\ cell[Head(stack[t]).on] \in Values
  /\ Return(t, cell[Head(stack[t]).on])
  /\ UNCHANGED <<filterIn, cache, opened, cell, asked, panics>>

Use(t) ==
  /\ At(t, {"derived"}, {"use"}) /\ answer[t] # "none"
  /\ LET f == Head(stack[t]) IN
       /\ Uses[f.on] # Nothing
       /\ \E decode \in Decodes(f.on, answer[t]) :
            Call(t, decode, Calling("derived", Uses[f.on], 0))
  /\ UNCHANGED <<filterIn, cache, opened, cell, asked, panics>>

\* What a maker comes to when v is the stream or the other value that it was waiting for.
ComesTo(f, v) ==
  CASE f.after = "use"   -> UNION {Found(decode) : decode \in Decodes(f.on, v)}
    [] f.after = "whole" -> {v}
    [] OTHER             -> Found(f.after)

\* A mutant of Publish: a failure is not kept, and the value is tried again.
PublishOrRetry(t) ==
  /\ At(t, {"derived"}, {"use", "whole", "wrong", "missing"})
  /\ answer[t] # "none"
  /\ LET f == Head(stack[t]) IN
       /\ (f.after = "use" /\ answer[t] = "whole") => Uses[f.on] = Nothing
       /\ \E v \in ComesTo(f, answer[t]) :
            /\ cell' = [cell EXCEPT ![f.on] = IF v = "missing" THEN "none" ELSE v]
            /\ IF v # "missing" THEN Return(t, v)
               ELSE stack' = [stack EXCEPT ![t][1].after = "enter"] /\ UNCHANGED answer
  /\ UNCHANGED <<filterIn, cache, opened, asked, panics>>

\* The value, or the failure to make it, is there for good.
Publish(t) ==
  /\ At(t, {"derived"}, {"use", "whole", "wrong", "missing"})
  /\ answer[t] # "none"
  /\ LET f == Head(stack[t]) IN
       /\ (f.after = "use" /\ answer[t] = "whole") => Uses[f.on] = Nothing
       /\ \E v \in ComesTo(f, answer[t]) :
            /\ cell' = [cell EXCEPT ![f.on] = v]
            /\ Return(t, v)
  /\ UNCHANGED <<filterIn, cache, opened, asked, panics>>

\* A panic unwinds to the page: poisoned locks are recovered, and the cells
\* the thread was filling are empty again, for a waiting thread to fill.
Panic(t) ==
  /\ stack[t] # <<>> /\ panics < MaxPanics
  /\ panics' = panics + 1
  /\ stack' = [stack EXCEPT ![t] = <<>>]
  /\ answer' = [answer EXCEPT ![t] = "none"]
  /\ asked' = [asked EXCEPT ![t] = Nothing]
  /\ cell' = [s \in Streams |-> IF cell[s] = t THEN "none" ELSE cell[s]]
  /\ UNCHANGED <<filterIn, cache, opened>>

Step(t) ==
  \/ Hit(t) \/ Miss(t) \/ Store(t)
  \/ ReadDirect(t) \/ ReadCompressed(t) \/ Open(t)
  \/ Claim(t) \/ Shared(t) \/ Use(t) \/ Publish(t)

ObjectsNext == \E t \in Threads : Request(t) \/ Step(t) \/ Panic(t)

ObjectsSpec == ObjectsInit /\ [][ObjectsNext]_objectsVars

\* A thread that has a call on its stack runs it; nothing makes it ask.
ObjectsFairSpec == ObjectsSpec /\ \A t \in Threads : WF_objectsVars(Step(t))

-----------------------------------------------------------------------------
\* An object of s needs the container of the filter of s; a derived value may need another.
Needs(doc, kind, s) ==
  (IF kind = "derived" THEN {doc[s], Uses[s]} ELSE {doc[s]}) \ {File, Nothing}
Closed(doc, kind, C) == \A s \in C : Needs(doc, kind, s) \subseteq C
Within(doc, kind, s) ==
  {C \in SUBSET Streams : s \in C /\ Closed(doc, kind, C)}

\* Some stream leads to s, each held up by the filter of the one before, in d steps; and so
\* many that the nesting limit cuts the chain at s.
Reached(doc, s, d) ==
  \E path \in [0..d -> Streams] :
    path[d] = s /\ \A i \in 1..d : path[i] = doc[path[i - 1]]
CutAt(doc, s) == doc[s] # File /\ Reached(doc, s, MaxNesting)

\* Containers whose filters are stored in one another.
Endless(doc, s) == \E C \in SUBSET Streams : s \in C /\ \A c \in C : doc[c] \in C

\* The object or the derived value r of a document may be found to be v: whole, and nothing
\* else if the limit cuts no chain at anything it needs; wrong, only if some of that is in Parms.
MayBe(doc, r, v) ==
  /\ v = "whole" => ~Endless(doc, r[2])
  /\ v = "wrong" => \A C \in Within(doc, r[1], r[2]) : C \cap Parms # {}
  /\ v # "whole" => \A C \in Within(doc, r[1], r[2]) : \E s \in C : CutAt(doc, s)
Findings == {m \in Documents \X Requests \X Values : MayBe(m[1], m[2], m[3])}

(* Whatever the order in which the threads ask and the nesting at which an *)
(* object is first met (document.rs:469, the last parse to finish is kept; *)
(* objstm.rs:136, a decode is kept for good), the nesting limit only harms *)
(* what needs an object it cuts a chain at, and never makes it whole that  *)
(* cannot be; and an error is not turned into wrong bytes, parameters that *)
(* cannot be read apart.  What an object on such a chain is does depend on *)
(* who asked first: the cache is no memo of parses there (document.rs:458).*)
DamageIsConfined ==
  /\ \A o \in Objects : cache[o] # "none" => <<filterIn, o, cache[o]>> \in Findings
  /\ \A s \in Streams : cell[s] \in Values =>
       <<filterIn, <<"derived", s>>, cell[s]>> \in Findings
  /\ \A t \in Threads : (stack[t] = <<>> /\ asked[t] # Nothing)
       => <<filterIn, asked[t], answer[t]>> \in Findings

(* One thread at a time makes a derived value, the one the cell names, and *)
(* a value made is never made again, panics included (derived.rs:39).      *)
MakersOf(s) ==
  {t \in Threads : \E i \in DOMAIN stack[t] :
     stack[t][i].kind = "derived" /\ stack[t][i].on = s /\ stack[t][i].after # "enter"}
DerivedOnce ==
  /\ ObjectsTypeOK
  /\ \A s \in Streams : MakersOf(s) = (IF cell[s] \in Threads THEN {cell[s]} ELSE {})

(* Every request ends, in a value, an error or a panic: object streams     *)
(* whose filters are stored in one another do not recurse for ever         *)
(* (document.rs:646), and no thread waits for a derived value whose maker  *)
(* has gone or waits for it in turn (derived.rs:39).                       *)
EveryRequestEnds == \A t \in Threads : []<>(stack[t] = <<>>)

=============================================================================
