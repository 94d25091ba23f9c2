---------------------------- MODULE SessionProofs ----------------------------
(***************************************************************************)
(* Proofs about the interactive session and the catalog it loads, for any  *)
(* number of processes, pieces, lines and failures.                        *)
(***************************************************************************)
EXTENDS SessionProperties, FiniteSetTheorems, WellFoundedInduction, TLAPS

-----------------------------------------------------------------------------
\* The airport catalog

\* A download starts with the first piece and ends with the last.
Positioned(l) ==
  /\ l \in Loader
  /\ l.pc \in {"stat", "get", "create"} => l.next = 1
  /\ l.pc = "write" => l.next \in Piece

CatalogType ==
  /\ DOMAIN loader = Starter
  /\ loader = [s \in Starter |-> loader[s]]
  /\ \A s \in Starter : Positioned(loader[s])
  /\ \A s \in Starter : loader[s].pc = "write" => loader[s].file \in DOMAIN files
  /\ \A f \in DOMAIN files : files[f] \subseteq Piece

\* Where a piece of a file is missing, somebody has yet to write it.
MissingIsToCome ==
  \A f \in DOMAIN files \ broken : \A k \in Piece \ files[f] :
    \E s \in Starter :
      loader[s].pc = "write" /\ loader[s].file = f /\ loader[s].next <= k

CatalogInv == CatalogType /\ MissingIsToCome

LEMMA CachedPositioned ==
  ASSUME NEW l, l \in Loader
  PROVE  Positioned(Cached(l)) /\ Cached(l).pc # "write"
BY PiecesAssumption DEF Cached, AtStart, Loader, File, Positioned

LEMMA CatalogInitInv == CatalogInit => CatalogInv
BY PiecesAssumption
DEF CatalogInit, CatalogInv, CatalogType, MissingIsToCome, Positioned, Loader, AtStart, File

\* A step that leaves the files and all who write them alone.
LEMMA CatalogUntouched ==
  ASSUME CatalogInv, NEW s \in Starter, NEW l, Positioned(l),
         loader[s].pc # "write", l.pc # "write",
         loader' = [loader EXCEPT ![s] = l], files' = files, broken' = broken
  PROVE  CatalogInv'
<1>1. CatalogType'
  BY DEF CatalogInv, CatalogType
<1>2. MissingIsToCome'
  <2> SUFFICES ASSUME NEW f \in DOMAIN files \ broken, NEW k \in Piece \ files[f]
               PROVE  \E t \in Starter : /\ loader'[t].pc = "write"
                                         /\ loader'[t].file = f /\ loader'[t].next <= k
    BY DEF MissingIsToCome
  <2>1. PICK t \in Starter : loader[t].pc = "write" /\ loader[t].file = f /\ loader[t].next <= k
    BY DEF CatalogInv, MissingIsToCome
  <2>2. t # s /\ loader'[t] = loader[t]
    BY <2>1 DEF CatalogInv, CatalogType
  <2> QED BY <2>1, <2>2
<1> QED BY <1>1, <1>2 DEF CatalogInv

LEMMA StatInv == ASSUME CatalogInv, NEW s \in Starter, Stat(s) PROVE CatalogInv'
<1> DEFINE l == IF loader[s].file \in DOMAIN files THEN Cached(loader[s])
                ELSE [loader[s] EXCEPT !.pc = "get"]
<1>1. Positioned(loader[s]) /\ loader[s].pc = "stat"
  BY DEF CatalogInv, CatalogType, Stat, LoaderIs
<1>2. Positioned(l) /\ l.pc # "write"
  BY <1>1, CachedPositioned DEF Loader, Positioned
<1> QED BY <1>1, <1>2, CatalogUntouched DEF Stat, LoaderGoes

LEMMA GetInv == ASSUME CatalogInv, NEW s \in Starter, Get(s) PROVE CatalogInv'
<1> DEFINE l == [loader[s] EXCEPT !.pc = "create"]
<1>1. Positioned(loader[s]) /\ loader[s].pc = "get"
  BY DEF CatalogInv, CatalogType, Get, LoaderIs
<1>2. Positioned(l) /\ l.pc # "write"
  BY <1>1 DEF Loader, Positioned
<1> QED BY <1>1, <1>2, CatalogUntouched DEF Get, LoaderGoes

LEMMA StartAgainInv == ASSUME CatalogInv, NEW s \in Starter, StartAgain(s) PROVE CatalogInv'
<1>1. Positioned(AtStart) /\ AtStart.pc # "write"
  BY PiecesAssumption DEF AtStart, Loader, File, Positioned
<1> QED BY <1>1, CatalogUntouched DEF StartAgain, LoaderIs, LoaderGoes

\* The process empties the file and is about to write it from its first piece:
\* all that is missing now is to come from it.
LEMMA CreateInv == ASSUME CatalogInv, NEW s \in Starter, Create(s) PROVE CatalogInv'
<1> DEFINE l == [loader[s] EXCEPT !.pc = "write"]
           g == loader[s].file
<1>1. Positioned(loader[s]) /\ loader[s].pc = "create"
  BY DEF CatalogInv, CatalogType, Create, LoaderIs
<1>2. /\ loader' = [loader EXCEPT ![s] = l] /\ broken' = broken
      /\ files' = [f \in DOMAIN files \cup {g} |-> IF f = g THEN {} ELSE files[f]]
  BY DEF Create, LoaderGoes, EmptyFile
<1>3. Positioned(l) /\ l.pc = "write" /\ l.file = g /\ l.next = 1
  BY <1>1, PiecesAssumption DEF Loader, Positioned, Piece
<1>4. CatalogType'
  BY <1>2, <1>3 DEF CatalogInv, CatalogType
<1>5. MissingIsToCome'
  <2>0. broken' = broken
    BY <1>2
  <2> SUFFICES ASSUME NEW f \in DOMAIN files' \ broken, NEW k \in Piece \ files'[f]
               PROVE  \E t \in Starter : /\ loader'[t].pc = "write"
                                         /\ loader'[t].file = f /\ loader'[t].next <= k
    BY <2>0 DEF MissingIsToCome
  <2>1. CASE f = g
    <3>1. loader'[s] = l
      BY <1>2 DEF CatalogInv, CatalogType
    <3>2. 1 <= k
      BY DEF Piece
    <3> QED BY <1>3, <2>1, <3>1, <3>2
  <2>2. CASE f # g
    <3>1. f \in DOMAIN files \ broken /\ k \in Piece \ files[f]
      BY <1>2, <2>2
    <3>2. PICK t \in Starter : /\ loader[t].pc = "write" /\ loader[t].file = f
                               /\ loader[t].next <= k
      BY <3>1 DEF CatalogInv, MissingIsToCome
    <3>3. t # s /\ loader'[t] = loader[t]
      BY <1>1, <1>2, <3>2 DEF CatalogInv, CatalogType
    <3> QED BY <3>2, <3>3
  <2> QED BY <2>1, <2>2
<1> QED BY <1>4, <1>5 DEF CatalogInv

\* The next piece is there now; the last one to be missing is the last written.
LEMMA WriteInv == ASSUME CatalogInv, NEW s \in Starter, Write(s) PROVE CatalogInv'
<1> DEFINE l == loader[s]
           onward == [l EXCEPT !.next = @ + 1]
           m == IF l.next = Pieces THEN Cached(onward) ELSE onward
<1>1. Positioned(l) /\ l.pc = "write" /\ l.file \in DOMAIN files
  BY DEF CatalogInv, CatalogType, Write, LoaderIs
<1>2. /\ loader' = [loader EXCEPT ![s] = m] /\ broken' = broken
      /\ files' = [files EXCEPT ![l.file] = @ \cup {l.next}]
  BY DEF Write, LoaderGoes
<1>3. onward \in Loader /\ onward.file = l.file /\ onward.pc = "write" /\ onward.next = l.next + 1
  BY <1>1, PiecesAssumption DEF Positioned, Loader, Piece
<1>4. Positioned(m)
  BY <1>1, <1>3, CachedPositioned, PiecesAssumption DEF Positioned, Piece
<1>5. m.pc = "write" => m.file = l.file
  BY <1>3, CachedPositioned
<1>6. CatalogType'
  BY <1>1, <1>2, <1>4, <1>5 DEF CatalogInv, CatalogType, Positioned
<1>7. MissingIsToCome'
  <2> SUFFICES ASSUME NEW f \in DOMAIN files \ broken, NEW k \in Piece \ files'[f]
               PROVE  \E t \in Starter : /\ loader'[t].pc = "write"
                                         /\ loader'[t].file = f /\ loader'[t].next <= k
    BY <1>2 DEF MissingIsToCome
  <2>1. k \in Piece \ files[f] /\ (f = l.file => k # l.next)
    BY <1>1, <1>2
  <2>2. PICK t \in Starter : loader[t].pc = "write" /\ loader[t].file = f /\ loader[t].next <= k
    BY <2>1 DEF CatalogInv, MissingIsToCome
  <2>3. CASE t # s
    <3>1. loader'[t] = loader[t]
      BY <1>2, <2>3 DEF CatalogInv, CatalogType
    <3> QED BY <2>2, <3>1
  <2>4. CASE t = s
    <3>1. l.next # Pieces /\ l.next + 1 <= k
      BY <1>1, <2>1, <2>2, <2>4, PiecesAssumption DEF Positioned, Piece
    <3>2. loader'[s] = onward
      BY <1>2, <3>1 DEF CatalogInv, CatalogType
    <3> QED BY <1>3, <2>2, <2>4, <3>1, <3>2
  <2> QED BY <2>3, <2>4
<1> QED BY <1>6, <1>7 DEF CatalogInv

\* A download that breaks off is on record.
LEMMA FailsInv == ASSUME CatalogInv, NEW s \in Starter, Fails(s) PROVE CatalogInv'
<1> DEFINE l == [loader[s] EXCEPT !.pc = "failed"]
<1>1. Positioned(loader[s])
  BY DEF CatalogInv, CatalogType
<1>2. Positioned(l) /\ l.pc = "failed"
  BY <1>1 DEF Positioned, Loader
<1>3. /\ loader' = [loader EXCEPT ![s] = l] /\ files' = files
      /\ broken \subseteq broken' /\ (loader[s].pc = "write" => loader[s].file \in broken')
  BY DEF Fails, LoaderGoes, LoaderIs
<1>4. CatalogType'
  BY <1>2, <1>3 DEF CatalogInv, CatalogType
<1>5. MissingIsToCome'
  <2> SUFFICES ASSUME NEW f \in DOMAIN files \ broken', NEW k \in Piece \ files[f]
               PROVE  \E t \in Starter : /\ loader'[t].pc = "write"
                                         /\ loader'[t].file = f /\ loader'[t].next <= k
    BY <1>3 DEF MissingIsToCome
  <2>1. PICK t \in Starter : loader[t].pc = "write" /\ loader[t].file = f /\ loader[t].next <= k
    BY <1>3 DEF CatalogInv, MissingIsToCome
  <2>2. t # s /\ loader'[t] = loader[t]
    BY <1>3, <2>1 DEF CatalogInv, CatalogType
  <2> QED BY <2>1, <2>2
<1> QED BY <1>4, <1>5 DEF CatalogInv

LEMMA CatalogStepInv ==
  ASSUME CatalogInv, CatalogNext \/ UNCHANGED catalogVars
  PROVE  CatalogInv'
<1>1. CASE UNCHANGED catalogVars
  BY <1>1 DEF catalogVars, CatalogInv, CatalogType, MissingIsToCome
<1>2. CASE CatalogNext
  BY <1>2, StatInv, GetInv, CreateInv, WriteInv, FailsInv, StartAgainInv DEF CatalogNext, Load
<1> QED BY <1>1, <1>2

LEMMA CatalogInvWhole == CatalogInv => FilesWholeAtRest
BY DEF CatalogInv, CatalogType, MissingIsToCome, FilesWholeAtRest, Writing, LoaderIs

\* However many processes start side by side, a file nobody is writing is whole
\* unless one of its downloads broke off (openflights.go, ensureCached).
THEOREM CatalogWhole == Spec => []FilesWholeAtRest
<1>1. Init => CatalogInv
  BY CatalogInitInv DEF Init
<1>2. CatalogInv /\ [Next]_vars => CatalogInv'
  BY CatalogStepInv DEF Next, SessionStep, Typed, StepFails, vars, catalogVars
<1> QED BY <1>1, <1>2, CatalogInvWhole, PTL DEF Spec

-----------------------------------------------------------------------------
\* What is searched

\* What a formed spec is like.
Sound(s) == s \in Fields /\ InOrder(s) /\ ReturnsLater(s) /\ OneReturnShape(s) /\ s.maxHours # 0

\* r says of the trip what s says, or nothing.
Below(r, s) == \A f \in DOMAIN Blank \ {"maxHours"} : r[f] = Blank[f] \/ r[f] = s[f]

Times == Nat \X Nat
SomeEnds == UNION {Ends(route) : route \in Route}
Result == [status : {"none", "empty", "found"}, chosen : Times, priced : Times,
           ends : SomeEnds \cup {<<>>}]
Round == [action : {"ask_user", "dispatch"}, spec : Fields, request : Fields, result : Result]

AskedBefore(rounds, i) == \E j \in 1 .. i - 1 : Asked(rounds, j)

\* What is claimed of one round by its place in the history.
RoundGrounded(rounds, i) ==
  LET r == rounds[i].request
  IN /\ Sound(rounds[i].spec)
     /\ Asked(rounds, i) => r = Blank
     /\ ~Asked(rounds, i) => r.maxHours # 0 \/ AskedBefore(rounds, i)
     /\ ~Asked(rounds, i) /\ ~FilledFromOlderSpec(rounds, i) => Below(r, rounds[i].spec)

Grounded(rounds) ==
  rounds \in Seq(Round) /\ \A i \in DOMAIN rounds : RoundGrounded(rounds, i)

LEMMA BlankTyped == Blank \in Fields
BY NumbersAssumption DEF Blank, Fields, TripType

\* What the model leaves out of a spec takes nothing from what is left.
LEMMA WithoutBelow ==
  ASSUME NEW s \in Fields, NEW omitted
  PROVE  Without(s, omitted) \in Fields /\ Below(Without(s, omitted), s)
<1>1. Without(s, omitted) \in Fields
  BY NumbersAssumption DEF Without, Fields, Blank, TripType
<1>2. DOMAIN s = DOMAIN Blank
  BY DEF Fields, Blank
<1> QED BY <1>1, <1>2 DEF Without, Below

\* Filled in from something that says no more than s does, it says no more than s.
LEMMA FillFromBelow ==
  ASSUME NEW r \in Fields, NEW b \in Fields
  PROVE  /\ FillFrom(r, b) \in Fields
         /\ FillFrom(r, b).maxHours = OrElse(r.maxHours, b.maxHours)
         /\ \A s : Below(r, s) /\ Below(b, s) => Below(FillFrom(r, b), s)
<1>1. DOMAIN r = DOMAIN Blank /\ "maxHours" \in DOMAIN Blank /\ Blank.maxHours = 0
  BY DEF Fields, Blank
<1>2. FillFrom(r, b) \in Fields
  BY DEF FillFrom, Fields, Blank
<1>3. FillFrom(r, b).maxHours = OrElse(r.maxHours, b.maxHours)
  BY <1>1 DEF FillFrom, OrElse
<1>4. ASSUME NEW s, Below(r, s), Below(b, s) PROVE Below(FillFrom(r, b), s)
  BY <1>1, <1>4 DEF FillFrom, Below
<1> QED BY <1>2, <1>3, <1>4

LEMMA DaysOf ==
  ASSUME NEW s \in Fields
  PROVE  /\ s.minDepart \in Day \cup {0} /\ s.maxDepart \in Day \cup {0}
         /\ s.minReturn \in Day \cup {0} /\ s.maxReturn \in Day \cup {0}
BY DEF Fields

LEMMA DatesAreNat ==
  ASSUME NEW s \in Fields
  PROVE  s.minDepart \in Nat /\ s.maxDepart \in Nat /\ s.minReturn \in Nat /\ s.maxReturn \in Nat
<1>1. \A d \in Day \cup {0} : d \in Nat
  BY DayAssumption
<1> QED BY <1>1, DaysOf

\* Leaving fields out of a sound spec breaks none of its dates.
LEMMA BelowIsOrdered ==
  ASSUME NEW r \in Fields, NEW s, Sound(s), Below(r, s)
  PROVE  InOrder(r) /\ ReturnsLater(r) /\ OneReturnShape(r)
<1>1. /\ r.tripType = "" \/ r.tripType = s.tripType
      /\ r.minDepart = 0 \/ r.minDepart = s.minDepart
      /\ r.maxDepart = 0 \/ r.maxDepart = s.maxDepart
      /\ r.minReturn = 0 \/ r.minReturn = s.minReturn
      /\ r.maxReturn = 0 \/ r.maxReturn = s.maxReturn
      /\ r.length = 0 \/ r.length = s.length
  BY DEF Below, Blank
<1>2. r.minDepart \in Nat /\ r.maxDepart \in Nat /\ r.minReturn \in Nat /\ r.maxReturn \in Nat
  BY DatesAreNat
<1> s.minDepart \in Nat /\ s.maxDepart \in Nat /\ s.minReturn \in Nat /\ s.maxReturn \in Nat
  BY DatesAreNat DEF Sound
<1>3. InOrder(s) /\ ReturnsLater(s) /\ OneReturnShape(s)
  BY DEF Sound
<1>4. InOrder(r)
  <2>1. CASE r.minDepart = 0
    BY <1>2, <2>1 DEF InOrder
  <2>2. CASE r.minDepart # 0 /\ r.maxDepart # 0
    BY <1>1, <1>3, <2>2 DEF InOrder
  <2> QED BY <2>1, <2>2 DEF InOrder
<1>5. ReturnsLater(r)
  BY <1>1, <1>2, <1>3 DEF ReturnsLater
<1>6. OneReturnShape(r)
  BY <1>1, <1>3 DEF OneReturnShape
<1> QED BY <1>4, <1>5, <1>6

LEMMA SaidTyped ==
  ASSUME NEW s \in Fields, NEW message \in Message
  PROVE  Said(s, message) \in Fields
<1>1. Said(Blank, message) \in Fields
  BY MessageAssumption
<1> QED BY <1>1 DEF Said, Fields, Blank

LEMMA NormalizedTyped ==
  ASSUME NEW s \in Fields, NEW existing \in Fields
  PROVE  normalizeDefaults(s, existing) \in Fields /\ normalizeDefaults(s, existing).maxHours # 0
BY NumbersAssumption DEF normalizeDefaults, OrElse, Fields

ReturnInOrder(s) == s.minReturn # 0 /\ s.maxReturn # 0 => s.minReturn <= s.maxReturn

LEMMA DepartOrdered ==
  ASSUME NEW s \in Fields, s.maxHours # 0
  PROVE  OrderedDepart(s) \in Fields /\ OrderedDepart(s).maxHours # 0 /\ InOrder(OrderedDepart(s))
<1>1. CASE Reversed(s.minDepart, s.maxDepart)
  <2> DEFINE t == [s EXCEPT !.minDepart = s.maxDepart, !.maxDepart = s.minDepart]
  <2>1. t \in Fields /\ t.minDepart = s.maxDepart /\ t.maxDepart = s.minDepart /\ t.maxHours # 0
    BY DaysOf DEF Fields
  <2>2. InOrder(t)
    BY <1>1, <2>1, DatesAreNat DEF Reversed, InOrder
  <2> QED BY <1>1, <2>1, <2>2 DEF OrderedDepart
<1>2. CASE ~Reversed(s.minDepart, s.maxDepart)
  BY <1>2, DatesAreNat DEF OrderedDepart, Reversed, InOrder
<1> QED BY <1>1, <1>2

LEMMA ReturnOrdered ==
  ASSUME NEW s \in Fields, s.maxHours # 0, InOrder(s)
  PROVE  /\ OrderedReturn(s) \in Fields /\ OrderedReturn(s).maxHours # 0
         /\ InOrder(OrderedReturn(s)) /\ ReturnInOrder(OrderedReturn(s))
<1>1. CASE Reversed(s.minReturn, s.maxReturn)
  <2> DEFINE t == [s EXCEPT !.minReturn = s.maxReturn, !.maxReturn = s.minReturn]
  <2>1. /\ t \in Fields /\ t.minReturn = s.maxReturn /\ t.maxReturn = s.minReturn /\ t.maxHours # 0
        /\ t.minDepart = s.minDepart /\ t.maxDepart = s.maxDepart
    BY DaysOf DEF Fields
  <2>2. InOrder(t) /\ ReturnInOrder(t)
    BY <1>1, <2>1, DatesAreNat DEF Reversed, InOrder, ReturnInOrder
  <2> QED BY <1>1, <2>1, <2>2 DEF OrderedReturn
<1>2. CASE ~Reversed(s.minReturn, s.maxReturn)
  BY <1>2, DatesAreNat DEF OrderedReturn, Reversed, ReturnInOrder
<1> QED BY <1>1, <1>2

LEMMA ReturnNotTooSoon ==
  ASSUME NEW s \in Fields, s.maxHours # 0, InOrder(s), ReturnInOrder(s)
  PROVE  /\ NoReturnTooSoon(s) \in Fields /\ NoReturnTooSoon(s).maxHours # 0
         /\ InOrder(NoReturnTooSoon(s)) /\ ReturnsLater(NoReturnTooSoon(s))
<1>1. CASE BackTooSoon(s)
  <2> DEFINE t == [s EXCEPT !.minReturn = 0, !.maxReturn = 0]
  <2>1. /\ t \in Fields /\ t.minReturn = 0 /\ t.maxHours # 0
        /\ t.minDepart = s.minDepart /\ t.maxDepart = s.maxDepart
    BY DEF Fields
  <2>2. InOrder(t) /\ ReturnsLater(t)
    BY <2>1 DEF InOrder, ReturnsLater
  <2> QED BY <1>1, <2>1, <2>2 DEF NoReturnTooSoon
<1>2. CASE ~BackTooSoon(s)
  <2>1. ReturnsLater(s)
    BY <1>2, DatesAreNat DEF BackTooSoon, ReturnsLater, ReturnInOrder
  <2> QED BY <1>2, <2>1 DEF NoReturnTooSoon
<1> QED BY <1>1, <1>2

LEMMA ReturnInOneShape ==
  ASSUME NEW s \in Fields, s.maxHours # 0, InOrder(s), ReturnsLater(s)
  PROVE  Sound(OneReturn(s))
<1>1. CASE TwoReturns(s)
  <2> DEFINE t == [s EXCEPT !.length = 0]
  <2>1. /\ t \in Fields /\ t.length = 0 /\ t.maxHours # 0 /\ t.tripType = s.tripType
        /\ t.minReturn = s.minReturn /\ t.maxReturn = s.maxReturn
        /\ t.minDepart = s.minDepart /\ t.maxDepart = s.maxDepart
    BY NumbersAssumption DEF Fields
  <2>2. InOrder(t) /\ ReturnsLater(t) /\ OneReturnShape(t)
    BY <2>1 DEF InOrder, ReturnsLater, OneReturnShape
  <2> QED BY <1>1, <2>1, <2>2 DEF OneReturn, Sound
<1>2. CASE ~TwoReturns(s)
  BY <1>2 DEF OneReturn, TwoReturns, OneReturnShape, Sound
<1> QED BY <1>1, <1>2

LEMMA ValidDates ==
  ASSUME NEW s \in Fields, s.maxHours # 0
  PROVE  Sound(validateDates(s))
BY DepartOrdered, ReturnOrdered, ReturnNotTooSoon, ReturnInOneShape DEF validateDates

\* FormSpec: the four repairs, one after the other, none undone by the next.
LEMMA FormedIsSound ==
  ASSUME NEW existing \in Fields, NEW message \in Message,
         NEW s \in FormSpec(existing, message)
  PROVE  Sound(s)
<1>1. PICK u \in Understandings(existing, message) : s = validateDates(normalizeDefaults(u, existing))
  BY DEF FormSpec
<1>2. u \in Fields
  BY SaidTyped, WithoutBelow DEF Understandings
<1> QED BY <1>1, <1>2, NormalizedTyped, ValidDates
LEMMA NoResultTyped == NoResult \in Result
BY DEF NoResult, Result, Times, SomeEnds

LEMMA SoundIsBelow == ASSUME NEW s PROVE Below(s, s)
BY DEF Below

LEMMA ProposalBelow ==
  ASSUME NEW spec \in Fields, NEW rounds, NEW r \in Proposals(spec, rounds)
  PROVE  r \in Fields /\ Below(r, spec)
<1>1. PICK s \in {spec} \cup {[spec EXCEPT !.maxHours = h] : h \in Hours}, omitted \in Omission :
        r = Without(s, omitted)
  BY DEF Proposals
<1>2. s \in Fields
  BY <1>1 DEF Fields
<1>3. \A f \in DOMAIN Blank \ {"maxHours"} : s[f] = spec[f]
  BY <1>1 DEF Fields, Blank
<1> QED BY <1>1, <1>2, <1>3, WithoutBelow DEF Below

\* What a decision that dispatches is: a proposal, filled in.
LEMMA DispatchedIsFilled ==
  ASSUME NEW spec \in Fields, NEW rounds,
         NEW d \in DecideNextAction(spec, rounds), d.action = "dispatch"
  PROVE  \E r \in Fields : Below(r, spec) /\ d.request = FillFrom(r, Fallback(spec, rounds))
<1>1. CASE \E r \in Proposals(spec, rounds) : d = DispatchOrAsk(r, spec, rounds)
  BY <1>1, ProposalBelow DEF DispatchOrAsk, Decision, fillDispatchDefaults
<1>2. CASE \E action \in {"ask_user", "finalize"} : d = StopOrDispatch(action, spec, rounds)
  <2>1. d.request = FillFrom(spec, Fallback(spec, rounds))
    BY <1>2 DEF StopOrDispatch, Decision, fillDispatchDefaults
  <2> QED BY <2>1, SoundIsBelow
<1> QED BY <1>1, <1>2 DEF DecideNextAction

LEMMA AskedIsBlank ==
  ASSUME NEW spec, NEW rounds,
         NEW d \in DecideNextAction(spec, rounds), d.action = "ask_user"
  PROVE  d.request = Blank
BY DEF DecideNextAction, DispatchOrAsk, StopOrDispatch, Decision

LEMMA WithRoundIs ==
  ASSUME NEW rounds \in Seq(Round), NEW spec, NEW d
  PROVE  /\ Len(WithRound(rounds, spec, d)) = NextRound(rounds)
         /\ DOMAIN WithRound(rounds, spec, d) = 1 .. NextRound(rounds)
         /\ \A i \in DOMAIN rounds : WithRound(rounds, spec, d)[i] = rounds[i]
         /\ WithRound(rounds, spec, d)[NextRound(rounds)] =
              [action |-> d.action, spec |-> spec, request |-> d.request, result |-> NoResult]
BY DEF WithRound, NextRound

\* A later round changes nothing of what holds for an earlier one.
LEMMA GroundedByItsPast ==
  ASSUME NEW rounds, NEW longer, NEW i \in Nat, RoundGrounded(rounds, i),
         \A j \in 1 .. i : /\ longer[j].action = rounds[j].action
                            /\ longer[j].spec = rounds[j].spec
                            /\ longer[j].request = rounds[j].request,
         i >= 1
  PROVE  RoundGrounded(longer, i)
<1>1. i \in 1 .. i /\ \A j \in 1 .. i - 1 : j \in 1 .. i
  OBVIOUS
<1>2. \A j \in 1 .. i : Asked(longer, j) <=> Asked(rounds, j)
  BY DEF Asked
<1>3. AskedBefore(rounds, i) => AskedBefore(longer, i)
  BY <1>1, <1>2 DEF AskedBefore
<1>4. FilledFromOlderSpec(rounds, i) => FilledFromOlderSpec(longer, i)
  BY <1>1, <1>2 DEF FilledFromOlderSpec
<1> QED BY <1>1, <1>2, <1>3, <1>4 DEF RoundGrounded

\* Where a round filled in from no older spec, neither did the one before it.
LEMMA FilledFromSameSpec ==
  ASSUME NEW rounds, NEW n \in Nat, n >= 1,
         ~Asked(rounds, n), ~FilledFromOlderSpec(rounds, n + 1)
  PROVE  rounds[n].spec = rounds[n + 1].spec /\ ~FilledFromOlderSpec(rounds, n)
<1>1. n \in 1 .. n + 1 - 1 /\ \A k \in n .. n + 1 - 1 : k = n
  OBVIOUS
<1>2. rounds[n].spec = rounds[n + 1].spec
  BY <1>1 DEF FilledFromOlderSpec
<1>3. ASSUME NEW j \in 1 .. n - 1, \A k \in j .. n - 1 : ~Asked(rounds, k)
      PROVE  rounds[j].spec = rounds[n].spec
  <2>1. j \in 1 .. n + 1 - 1 /\ \A k \in j .. n + 1 - 1 : k \in j .. n - 1 \/ k = n
    OBVIOUS
  <2> QED BY <1>2, <1>3, <2>1 DEF FilledFromOlderSpec
<1> QED BY <1>2, <1>3 DEF FilledFromOlderSpec

\* The round of a decision: its fallback is what the last round searched for,
\* which says no more than the spec, unless the spec has changed since.
LEMMA DecisionRound ==
  ASSUME NEW rounds, Grounded(rounds), NEW spec, Sound(spec),
         NEW d \in DecideNextAction(spec, rounds), d.action \in {"ask_user", "dispatch"}
  PROVE  Grounded(WithRound(rounds, spec, d))
<1> DEFINE new == WithRound(rounds, spec, d)
           n == NextRound(rounds)
<1>1. /\ rounds \in Seq(Round) /\ Len(rounds) \in Nat /\ n = Len(rounds) + 1
      /\ DOMAIN rounds = 1 .. Len(rounds)
  BY DEF Grounded, NextRound
<1>2. /\ DOMAIN new = 1 .. n
      /\ \A i \in DOMAIN rounds : new[i] = rounds[i]
      /\ new[n] = [action |-> d.action, spec |-> spec, request |-> d.request, result |-> NoResult]
  BY <1>1, WithRoundIs
<1>3. spec \in Fields
  BY DEF Sound
<1>4. ASSUME NEW i \in DOMAIN rounds PROVE RoundGrounded(new, i)
  <2>1. /\ i \in Nat /\ i >= 1 /\ RoundGrounded(rounds, i)
        /\ \A j \in 1 .. i : j \in DOMAIN rounds
    BY <1>1 DEF Grounded
  <2> HIDE DEF new, n
  <2> QED BY <1>2, <2>1, GroundedByItsPast
<1>5. SUFFICES /\ d.request \in Fields /\ RoundGrounded(new, n)
  <2>1. new[n] \in Round
    BY <1>2, <1>3, <1>5, NoResultTyped DEF Round
  <2>2. \A i \in 1 .. n : new[i] \in Round
    <3>1. \A i \in DOMAIN rounds : new[i] \in Round
      BY <1>1, <1>2
    <3> HIDE DEF new, n
    <3> QED BY <1>1, <2>1, <3>1
  <2>3. new \in Seq(Round)
    BY <1>1, <2>1 DEF WithRound
  <2>4. \A i \in DOMAIN new : RoundGrounded(new, i)
    <3> HIDE DEF new, n
    <3> QED BY <1>1, <1>2, <1>4, <1>5
  <2> QED BY <2>3, <2>4 DEF Grounded
<1>6. new[n].action = d.action /\ new[n].spec = spec /\ new[n].request = d.request
  BY <1>2
<1>7. CASE d.action = "ask_user"
  <2>1. d.request = Blank /\ Blank \in Fields
    BY <1>7, AskedIsBlank, BlankTyped
  <2>2. RoundGrounded(new, n)
    <3> HIDE DEF new, n
    <3> QED BY <1>6, <1>7, <2>1 DEF RoundGrounded, Asked
  <2> QED BY <2>1, <2>2
<1>8. CASE d.action = "dispatch"
  <2> DEFINE b == Fallback(spec, rounds)
  <2>1. PICK r \in Fields : Below(r, spec) /\ d.request = FillFrom(r, b)
    BY <1>3, <1>8, DispatchedIsFilled
  <2>2. ~Asked(new, n)
    BY <1>6, <1>8 DEF Asked
  <2>3. SUFFICES /\ b \in Fields
                 /\ b.maxHours # 0 \/ AskedBefore(new, n)
                 /\ ~FilledFromOlderSpec(new, n) => Below(b, spec)
    <3> HIDE DEF b
    <3>1. d.request \in Fields /\ d.request.maxHours = OrElse(r.maxHours, b.maxHours)
      BY <2>1, <2>3, FillFromBelow
    <3>2. ~FilledFromOlderSpec(new, n) => Below(d.request, spec)
      BY <2>1, <2>3, FillFromBelow
    <3> HIDE DEF new, n
    <3> QED BY <1>6, <2>2, <2>3, <3>1, <3>2 DEF RoundGrounded, OrElse
  <2>4. CASE rounds = <<>>
    BY <1>3, <2>4, SoundIsBelow DEF Fallback, Sound
  <2>5. CASE rounds # <<>>
    <3> DEFINE m == Len(rounds)
    <3>1. /\ m \in Nat /\ m >= 1 /\ n = m + 1 /\ m \in DOMAIN rounds /\ m \in 1 .. n - 1
          /\ rounds[m] \in Round /\ new[m] = rounds[m] /\ b = rounds[m].request
          /\ RoundGrounded(new, m)
      BY <1>1, <1>2, <1>4, <2>5 DEF Fallback, Grounded
    <3>2. b \in Fields
      BY <3>1 DEF Round
    <3> HIDE DEF new, n, m, b
    <3>3. CASE Asked(new, m)
      <4>1. b = Blank
        BY <3>1, <3>3 DEF RoundGrounded
      <4>2. AskedBefore(new, n)
        BY <3>1, <3>3 DEF AskedBefore
      <4> QED BY <3>2, <4>1, <4>2 DEF Below
    <3>4. CASE ~Asked(new, m)
      <4>1. b.maxHours # 0 \/ AskedBefore(new, m)
        BY <3>1, <3>4 DEF RoundGrounded
      <4>2. AskedBefore(new, m) => AskedBefore(new, n)
        BY <3>1 DEF AskedBefore
      <4>3. ~FilledFromOlderSpec(new, n) => Below(b, spec)
        BY <1>6, <3>1, <3>4, FilledFromSameSpec DEF RoundGrounded
      <4> QED BY <3>2, <4>1, <4>2, <4>3
    <3> QED BY <3>3, <3>4
  <2> QED BY <2>4, <2>5
<1> QED BY <1>7, <1>8

LEMMA ResultKeepsGrounded ==
  ASSUME NEW rounds, Grounded(rounds), NEW n \in DOMAIN rounds, NEW result \in Result
  PROVE  Grounded([rounds EXCEPT ![n].result = result])
<1> DEFINE new == [rounds EXCEPT ![n].result = result]
<1>1. rounds \in Seq(Round) /\ DOMAIN rounds = 1 .. Len(rounds) /\ Len(rounds) \in Nat
  BY DEF Grounded
<1>2. new \in Seq(Round) /\ DOMAIN new = DOMAIN rounds
  <2>1. rounds[n] \in Round
    BY <1>1
  <2>2. [rounds[n] EXCEPT !.result = result] \in Round
    BY <2>1 DEF Round
  <2>3. new = [rounds EXCEPT ![n] = [rounds[n] EXCEPT !.result = result]]
    OBVIOUS
  <2> QED BY <1>1, <2>2, <2>3
<1>3. \A i \in DOMAIN rounds :
        new[i].action = rounds[i].action /\ new[i].spec = rounds[i].spec /\ new[i].request = rounds[i].request
  BY <1>1 DEF Round
<1>4. ASSUME NEW i \in DOMAIN rounds PROVE RoundGrounded(new, i)
  <2>1. /\ i \in Nat /\ i >= 1 /\ RoundGrounded(rounds, i)
        /\ \A j \in 1 .. i : j \in DOMAIN rounds
    BY <1>1 DEF Grounded
  <2> HIDE DEF new
  <2> QED BY <1>3, <2>1, GroundedByItsPast
<1>5. Grounded(new)
  <2> HIDE DEF new
  <2> QED BY <1>2, <1>4 DEF Grounded
<1> QED BY <1>5

LEMMA GroundedMakesSense == Grounded(row.rounds) => SearchesMakeSense
<1>1. SUFFICES ASSUME Grounded(row.rounds), NEW i \in DOMAIN row.rounds,
                      ~Asked(row.rounds, i), ~FilledFromOlderSpec(row.rounds, i)
               PROVE  LET r == row.rounds[i].request
                      IN /\ InOrder(r) /\ ReturnsLater(r) /\ OneReturnShape(r)
                         /\ r.maxHours # 0 \/ \E j \in 1 .. i - 1 : Asked(row.rounds, j)
  BY DEF SearchesMakeSense
<1>2. RoundGrounded(row.rounds, i) /\ row.rounds[i] \in Round
  BY <1>1 DEF Grounded
<1>3. row.rounds[i].request \in Fields
  BY <1>2 DEF Round
<1> QED BY <1>1, <1>2, <1>3, BelowIsOrdered DEF RoundGrounded, AskedBefore

Complete(r) == missingRequiredFields(r) = {}

LEMMA SearchTyped ==
  ASSUME NEW r \in Fields, Complete(r)
  PROVE  runSearch(r) \subseteq Result
<1>1. /\ r.minDepart \in Nat /\ r.maxDepart \in Nat /\ r.minReturn \in Nat /\ r.maxReturn \in Nat
      /\ r.length \in Nat
  BY DatesAreNat, NumbersAssumption DEF Fields
<1>2. \A from, to \in Nat : Window(from, to) \subseteq Nat
  BY DEF Window
<1>3. Priced(r) \subseteq Times
  <2>1. CASE tripLengthFlex(r)
    BY <1>1, <1>2, <2>1 DEF Priced, Times
  <2>2. CASE ~tripLengthFlex(r) /\ ~independentRangeFlex(r)
    BY <1>1, <2>2 DEF Priced, Times
  <2>3. CASE ~tripLengthFlex(r) /\ independentRangeFlex(r) /\ ~RoundTrip(r)
    BY <1>1, <1>2, <2>3 DEF Priced, Times
  <2>4. CASE ~tripLengthFlex(r) /\ independentRangeFlex(r) /\ RoundTrip(r)
    BY <1>1, <1>2, <2>4 DEF Priced, Times
  <2> QED BY <2>1, <2>2, <2>3, <2>4
<1>4. Ends(r.route) \subseteq SomeEnds
  BY DEF Complete, missingRequiredFields, Blank, Fields, SomeEnds
<1>5. \A dates \in Times, ends \in SomeEnds : Found(r, dates, ends) \in Result
  BY DEF Found, Result, Times
<1>6. NothingFound \in Result
  BY NoResultTyped DEF NothingFound, NoResult, Result
<1> QED BY <1>3, <1>4, <1>5, <1>6 DEF runSearch

\* What was found was priced for dates of the request, between its airports.
Answers(r, result) ==
  result.status = "found" =>
    /\ result.priced \in Priced(r) /\ result.ends \in Ends(r.route)
    /\ result = Found(r, result.priced, result.ends)

Task == [request : Fields, result : Result]

TasksOK ==
  \A n \in DOMAIN tasks :
    /\ tasks[n] \in Task /\ Complete(tasks[n].request)
    /\ Answers(tasks[n].request, tasks[n].result)

\* A round that searched has its task, and no other round has a result.
RoundHasTask(round, i) ==
  /\ Answers(round.request, round.result)
  /\ IF round.action = "dispatch" THEN i \in DOMAIN tasks /\ tasks[i].request = round.request
     ELSE round.result = NoResult

RowOK ==
  /\ DOMAIN row = DOMAIN NoRow
  /\ row.spec \in Fields
  /\ row.status # "absent" => Sound(row.spec)
  /\ Grounded(row.rounds)
  /\ \A i \in DOMAIN row.rounds : RoundHasTask(row.rounds[i], i)
  /\ row.status = "finalized" => row.email.link = bookingLink(row.rounds)

\* What the session holds in its hands between two writes.
ReplOK ==
  /\ repl.pc = "form" => repl.message \in Message
  /\ repl.pc \in {"wake", "decide", "park", "search", "record"} => row.status # "absent"
  /\ repl.pc = "park" =>
       /\ repl.decision.action = "dispatch"
       /\ Grounded(WithRound(row.rounds, row.spec, repl.decision))
       /\ NextRound(row.rounds) \in DOMAIN tasks
       /\ tasks[NextRound(row.rounds)].request = repl.decision.request
  /\ repl.pc \in {"search", "record"} =>
       row.rounds # <<>> /\ row.rounds[Len(row.rounds)].action = "dispatch"

\* The inductive invariant.
SessionInv == TasksOK /\ RowOK /\ ReplOK

LEMMA SessionInitInv == Init => SessionInv
<1> SUFFICES ASSUME Init PROVE SessionInv
  OBVIOUS
<1>1. TasksOK
  BY DEF Init, TasksOK
<1>2. RowOK
  <2>1. row = NoRow /\ row.rounds = <<>> /\ row.spec = Blank /\ row.status = "absent"
    BY DEF Init, NoRow
  <2>2. Grounded(row.rounds)
    BY <2>1 DEF Grounded
  <2> QED BY <2>1, <2>2, BlankTyped DEF RowOK
<1>3. ReplOK
  BY DEF Init, ReplOK, Starting
<1> QED BY <1>1, <1>2, <1>3 DEF SessionInv

\* Going to one of these places asks for nothing in hand.
LEMMA GoneThere ==
  ASSUME NEW pc \in {"prompt", "answer", "ended", "show"}, Go(pc)
  PROVE  ReplOK'
BY DEF Go, At, Starting, ReplOK

LEMMA GoneDecide ==
  ASSUME Go("decide"), row'.status # "absent"
  PROVE  ReplOK'
BY DEF Go, At, Starting, ReplOK

LEMMA RowKept == ASSUME RowOK, TasksOK, UNCHANGED rowVars PROVE RowOK' /\ TasksOK'
BY DEF RowOK, TasksOK, rowVars, RoundHasTask, Grounded, RoundGrounded, Asked, AskedBefore,
       FilledFromOlderSpec

\* A write of SaveAgentRequestState leaves the spec alone.
LEMMA StateSaved ==
  ASSUME RowOK, NEW status, NEW rounds, NEW email, SaveAgentRequestState(status, rounds, email)
  PROVE  /\ DOMAIN row' = DOMAIN NoRow /\ row'.spec = row.spec
         /\ row'.status = status /\ row'.rounds = rounds /\ row'.email = email
BY DEF SaveAgentRequestState, RowOK, NoRow

LEMMA PromptsInv ==
  ASSUME SessionInv,
         Loaded \/ Quit \/ Show \/ UnexpectedStatus \/ NotDue
         \/ (\E message \in Message : Type(message)) \/ StepFails
  PROVE  SessionInv'
<1>1. UNCHANGED rowVars
  BY DEF Loaded, Quit, Show, UnexpectedStatus, NotDue, Type, StepFails
<1>2. RowOK' /\ TasksOK'
  BY <1>1, RowKept DEF SessionInv
<1>3. ReplOK'
  <2>1. CASE Loaded \/ Quit \/ Show \/ UnexpectedStatus \/ NotDue \/ StepFails
    BY <2>1, GoneThere DEF Loaded, Quit, Show, UnexpectedStatus, NotDue, StepFails
  <2>2. CASE \E message \in Message : Type(message)
    BY <2>2 DEF Type, At, Starting, ReplOK
  <2> QED BY <2>1, <2>2
<1> QED BY <1>2, <1>3 DEF SessionInv

LEMMA CreateRequestInv == ASSUME SessionInv, CreateRequest PROVE SessionInv'
<1>1. PICK spec \in FormSpec(Blank, repl.message) :
        row' = [NoRow EXCEPT !.status = "awaiting_decision", !.spec = spec]
  BY DEF CreateRequest
<1>2. Sound(spec) /\ spec \in Fields
  BY BlankTyped, FormedIsSound DEF CreateRequest, SessionInv, ReplOK, Sound
<1>3. /\ DOMAIN row' = DOMAIN NoRow /\ row'.spec = spec /\ row'.status = "awaiting_decision"
      /\ row'.rounds = <<>>
  BY <1>1 DEF NoRow
<1>4. Grounded(<<>>)
  BY DEF Grounded
<1>5. RowOK'
  BY <1>2, <1>3, <1>4 DEF RowOK
<1>6. ReplOK'
  BY <1>3, GoneDecide DEF CreateRequest
<1> QED BY <1>5, <1>6 DEF SessionInv, TasksOK, CreateRequest

LEMMA ApplyFollowUpInv == ASSUME SessionInv, ApplyFollowUp PROVE SessionInv'
<1>1. PICK spec \in FormSpec(row.spec, repl.message) : row' = [row EXCEPT !.spec = spec]
  BY DEF ApplyFollowUp
<1>2. Sound(spec) /\ spec \in Fields
  BY FormedIsSound DEF ApplyFollowUp, SessionInv, ReplOK, RowOK, Sound
<1>3. /\ DOMAIN row' = DOMAIN NoRow /\ row'.spec = spec /\ row'.status = row.status
      /\ row'.rounds = row.rounds /\ row'.email = row.email /\ tasks' = tasks
  BY <1>1 DEF NoRow, SessionInv, RowOK, ApplyFollowUp
<1>4. RowOK'
  BY <1>2, <1>3 DEF SessionInv, RowOK, RoundHasTask
<1>5. ReplOK'
  BY <1>3 DEF ApplyFollowUp, Go, At, Starting, ReplOK
<1> QED BY <1>3, <1>4, <1>5 DEF SessionInv, TasksOK

LEMMA ReawakenInv == ASSUME SessionInv, Reawaken PROVE SessionInv'
<1>1. /\ DOMAIN row' = DOMAIN NoRow /\ row'.spec = row.spec
      /\ row'.status = "awaiting_decision" /\ row'.rounds = row.rounds /\ tasks' = tasks
  BY StateSaved DEF Reawaken, SessionInv
<1>2. row.status # "absent"
  BY DEF Reawaken, SessionInv, ReplOK
<1>3. RowOK'
  BY <1>1, <1>2 DEF SessionInv, RowOK, RoundHasTask
<1>4. ReplOK'
  BY <1>1, GoneDecide DEF Reawaken
<1> QED BY <1>1, <1>3, <1>4 DEF SessionInv, TasksOK

\* Appending the round of a decision gives the new round its task, or none.
LEMMA RoundAppended ==
  ASSUME RowOK, NEW d, d.action = "ask_user" \/ d.action = "dispatch",
         d.action = "dispatch" =>
           /\ NextRound(row.rounds) \in DOMAIN tasks
           /\ tasks[NextRound(row.rounds)].request = d.request
  PROVE  LET new == WithRound(row.rounds, row.spec, d)
         IN /\ \A i \in DOMAIN new : RoundHasTask(new[i], i)
            /\ new # <<>> /\ new[Len(new)].action = d.action
<1> DEFINE new == WithRound(row.rounds, row.spec, d)
           n == NextRound(row.rounds)
<1>1. /\ row.rounds \in Seq(Round) /\ DOMAIN row.rounds = 1 .. Len(row.rounds)
      /\ Len(row.rounds) \in Nat /\ n = Len(row.rounds) + 1
  BY DEF RowOK, Grounded, NextRound
<1>2. /\ Len(new) = n /\ DOMAIN new = 1 .. n
      /\ \A i \in DOMAIN row.rounds : new[i] = row.rounds[i]
      /\ new[n] = [action |-> d.action, spec |-> row.spec, request |-> d.request, result |-> NoResult]
  BY <1>1, WithRoundIs
<1>3. RoundHasTask(new[n], n)
  BY <1>2 DEF RoundHasTask, Answers, NoResult
<1>4. \A i \in DOMAIN row.rounds : RoundHasTask(new[i], i)
  BY <1>2 DEF RowOK
<1>5. new # <<>> /\ new[Len(new)].action = d.action
  BY <1>1, <1>2
<1>6. \A i \in DOMAIN new : RoundHasTask(new[i], i)
  <2> HIDE DEF new, n
  <2> QED BY <1>1, <1>2, <1>3, <1>4
<1> QED BY <1>5, <1>6

LEMMA AskUserInv ==
  ASSUME SessionInv, row.status # "absent",
         NEW d \in DecideNextAction(row.spec, row.rounds), AskUser(d)
  PROVE  SessionInv'
<1> DEFINE new == WithRound(row.rounds, row.spec, d)
<1>1. /\ DOMAIN row' = DOMAIN NoRow /\ row'.spec = row.spec
      /\ row'.status = "awaiting_user" /\ row'.rounds = new /\ tasks' = tasks
  BY StateSaved DEF AskUser, SessionInv
<1>2. d.action = "ask_user" /\ Sound(row.spec) /\ Grounded(row.rounds) /\ RowOK
  BY DEF AskUser, SessionInv, RowOK
<1>3. Grounded(new)
  BY <1>2, DecisionRound
<1>4. \A i \in DOMAIN new : RoundHasTask(new[i], i)
  BY <1>2, RoundAppended
<1>5. RowOK'
  <2> HIDE DEF new
  <2> QED BY <1>1, <1>2, <1>3, <1>4 DEF RowOK, RoundHasTask
<1>6. ReplOK'
  BY GoneThere DEF AskUser
<1> QED BY <1>1, <1>5, <1>6 DEF SessionInv, TasksOK

LEMMA FinalizeInv ==
  ASSUME SessionInv, row.status # "absent", NEW d, Finalize(d)
  PROVE  SessionInv'
<1>1. /\ DOMAIN row' = DOMAIN NoRow /\ row'.spec = row.spec
      /\ row'.status = "finalized" /\ row'.rounds = row.rounds /\ tasks' = tasks
      /\ row'.email = Email(row.spec, bookingLink(row.rounds))
  BY StateSaved DEF Finalize, SessionInv
<1>2. row'.email.link = bookingLink(row'.rounds)
  BY <1>1 DEF Email
<1>3. RowOK'
  BY <1>1, <1>2 DEF SessionInv, RowOK, RoundHasTask
<1>4. ReplOK'
  BY GoneThere DEF Finalize
<1> QED BY <1>1, <1>3, <1>4 DEF SessionInv, TasksOK

\* A dispatch is never for a request with a field missing.
LEMMA DispatchedIsComplete ==
  ASSUME NEW spec, Sound(spec), NEW rounds, Grounded(rounds),
         NEW d \in DecideNextAction(spec, rounds), d.action = "dispatch"
  PROVE  d.request \in Fields /\ Complete(d.request)
<1>1. spec \in Fields
  BY DEF Sound
<1>2. Fallback(spec, rounds) \in Fields
  <2>1. rounds # <<>> => rounds[Len(rounds)] \in Round
    BY DEF Grounded
  <2> QED BY <1>1, <2>1 DEF Fallback, Round
<1>3. d.request \in Fields
  BY <1>1, <1>2, DispatchedIsFilled, FillFromBelow
<1>4. CASE \E r \in Proposals(spec, rounds) : d = DispatchOrAsk(r, spec, rounds)
  <2>1. Complete(d.request)
    BY <1>4 DEF DispatchOrAsk, Decision, Complete
  <2> QED BY <1>3, <2>1
<1>5. CASE \E action \in {"ask_user", "finalize"} : d = StopOrDispatch(action, spec, rounds)
  <2>1. missingRequiredFields(spec) = {} /\ d.request = FillFrom(spec, Fallback(spec, rounds))
    BY <1>5 DEF StopOrDispatch, Decision, fillDispatchDefaults, BogusStop
  <2> DEFINE r == FillFrom(spec, Fallback(spec, rounds))
  <2>2. \A f \in DOMAIN spec : spec[f] # Blank[f] => r[f] = spec[f]
    BY DEF FillFrom
  <2>3. DOMAIN spec = DOMAIN Blank
    BY <1>1 DEF Fields, Blank
  <2> HIDE DEF r
  <2>4. /\ spec.route # NoRoute /\ spec.tripType # "" /\ spec.minDepart # 0
        /\ spec.tripType = "round_trip" => spec.minReturn # 0 \/ spec.length # 0
    BY <2>1 DEF missingRequiredFields, Blank
  <2>5. /\ r.route = spec.route /\ r.tripType = spec.tripType /\ r.minDepart = spec.minDepart
        /\ spec.minReturn # 0 => r.minReturn # 0
        /\ spec.length # 0 => r.length # 0
    BY <2>2, <2>3, <2>4 DEF Blank
  <2>6. missingRequiredFields(r) = {}
    <3>1. r["route"] # NoRoute /\ r["tripType"] # "" /\ r["minDepart"] # 0
      BY <2>4, <2>5
    <3>2. \A f \in {"route", "tripType", "minDepart"} : r[f] # Blank[f]
      <4>1. Blank["route"] = NoRoute /\ Blank["tripType"] = "" /\ Blank["minDepart"] = 0
        BY DEF Blank
      <4> QED BY <3>1, <4>1
    <3>3. ~(r.tripType = "round_trip" /\ r.minReturn = 0 /\ r.length = 0)
      BY <2>4, <2>5
    <3>4. {f \in {"route", "tripType", "minDepart"} : r[f] = Blank[f]} = {}
      BY <3>2
    <3> QED BY <3>3, <3>4 DEF missingRequiredFields
  <2> QED BY <1>3, <2>1, <2>6 DEF r, Complete
<1> QED BY <1>3, <1>4, <1>5 DEF DecideNextAction

LEMMA CreateTaskInv ==
  ASSUME SessionInv, row.status # "absent",
         NEW d \in DecideNextAction(row.spec, row.rounds), CreateTask(d)
  PROVE  SessionInv'
<1> DEFINE n == NextRound(row.rounds)
           t == [request |-> d.request, result |-> NoResult]
<1>1. /\ row' = row /\ n \notin DOMAIN tasks /\ d.action = "dispatch"
      /\ tasks' = [k \in DOMAIN tasks \cup {n} |-> IF k \in DOMAIN tasks THEN tasks[k] ELSE t]
  BY DEF CreateTask
<1>2. Sound(row.spec) /\ Grounded(row.rounds)
  BY DEF SessionInv, RowOK
<1>3. d.request \in Fields /\ Complete(d.request)
  BY <1>1, <1>2, DispatchedIsComplete
<1>4. t \in Task /\ t.request = d.request /\ Answers(t.request, t.result)
  BY <1>3, NoResultTyped DEF Task, Answers, NoResult
<1>5. /\ DOMAIN tasks' = DOMAIN tasks \cup {n} /\ tasks'[n] = t
      /\ \A k \in DOMAIN tasks : tasks'[k] = tasks[k]
  BY <1>1
<1> HIDE DEF n, t
<1>6. TasksOK'
  BY <1>3, <1>4, <1>5 DEF SessionInv, TasksOK
<1>7. RowOK'
  BY <1>1, <1>5 DEF SessionInv, RowOK, RoundHasTask
<1>8. Grounded(WithRound(row.rounds, row.spec, d))
  BY <1>1, <1>2, DecisionRound
<1>9. /\ repl'.pc = "park" /\ repl'.decision = d
  BY DEF CreateTask, At, Starting
<1>10. ReplOK'
  BY <1>1, <1>4, <1>5, <1>8, <1>9 DEF ReplOK, n
<1> QED BY <1>6, <1>7, <1>10 DEF SessionInv

LEMMA TaskConflictInv == ASSUME SessionInv, NEW d, TaskConflict(d) PROVE SessionInv'
<1>1. UNCHANGED rowVars /\ Go("prompt")
  BY DEF TaskConflict
<1> QED BY <1>1, RowKept, GoneThere DEF SessionInv

LEMMA DecideInv == ASSUME SessionInv, Decide PROVE SessionInv'
<1>1. row.status # "absent"
  BY DEF Decide, Due
<1>2. PICK d \in DecideNextAction(row.spec, row.rounds) :
        AskUser(d) \/ Finalize(d) \/ CreateTask(d) \/ TaskConflict(d)
  BY DEF Decide
<1> QED BY <1>1, <1>2, AskUserInv, FinalizeInv, CreateTaskInv, TaskConflictInv

LEMMA ParkDispatchedInv == ASSUME SessionInv, ParkDispatched PROVE SessionInv'
<1> DEFINE new == WithRound(row.rounds, row.spec, repl.decision)
<1>1. /\ DOMAIN row' = DOMAIN NoRow /\ row'.spec = row.spec
      /\ row'.status = "dispatched" /\ row'.rounds = new /\ tasks' = tasks
  BY StateSaved DEF ParkDispatched, SessionInv
<1>2. /\ repl.decision.action = "dispatch" /\ Sound(row.spec) /\ RowOK /\ Grounded(new)
      /\ NextRound(row.rounds) \in DOMAIN tasks
      /\ tasks[NextRound(row.rounds)].request = repl.decision.request
  BY DEF ParkDispatched, SessionInv, RowOK, ReplOK
<1>3. /\ \A i \in DOMAIN new : RoundHasTask(new[i], i)
      /\ new # <<>> /\ new[Len(new)].action = "dispatch"
  BY <1>2, RoundAppended
<1> HIDE DEF new
<1>4. RowOK'
  BY <1>1, <1>2, <1>3 DEF RowOK, RoundHasTask
<1>5. ReplOK'
  BY <1>1, <1>3 DEF ParkDispatched, Go, At, Starting, ReplOK
<1> QED BY <1>1, <1>4, <1>5 DEF SessionInv, TasksOK

LEMMA FoundAnswers ==
  ASSUME NEW r, NEW result \in runSearch(r)
  PROVE  Answers(r, result)
BY DEF runSearch, Answers, Found, NothingFound, NoResult

LEMMA RunTaskInv == ASSUME SessionInv, RunTask PROVE SessionInv'
<1> DEFINE n == Len(row.rounds)
<1>1. PICK result \in runSearch(tasks[n].request) : tasks' = [tasks EXCEPT ![n].result = result]
  BY DEF RunTask
<1>2. n \in DOMAIN row.rounds /\ row.rounds[n].action = "dispatch"
  BY DEF RunTask, SessionInv, RowOK, Grounded, ReplOK
<1>3. n \in DOMAIN tasks /\ tasks[n] \in Task /\ Complete(tasks[n].request)
  BY <1>2 DEF SessionInv, RowOK, RoundHasTask, TasksOK
<1>4. result \in Result /\ Answers(tasks[n].request, result)
  BY <1>1, <1>3, SearchTyped, FoundAnswers DEF Task
<1>5. /\ DOMAIN tasks' = DOMAIN tasks /\ tasks'[n] \in Task
      /\ tasks'[n].request = tasks[n].request /\ tasks'[n].result = result
      /\ \A k \in DOMAIN tasks \ {n} : tasks'[k] = tasks[k]
  BY <1>1, <1>3, <1>4 DEF Task
<1> HIDE DEF n
<1>6. TasksOK'
  BY <1>3, <1>4, <1>5 DEF SessionInv, TasksOK
<1>7. row' = row /\ row.status # "absent"
  BY DEF RunTask, SessionInv, ReplOK
<1>8. RowOK'
  BY <1>5, <1>7 DEF SessionInv, RowOK, RoundHasTask
<1>9. ReplOK'
  BY <1>2, <1>7 DEF RunTask, SessionInv, Go, At, Starting, ReplOK
<1> QED BY <1>6, <1>8, <1>9 DEF SessionInv

LEMMA RecordTaskResultInv == ASSUME SessionInv, RecordTaskResult PROVE SessionInv'
<1> DEFINE n == Len(row.rounds)
           result == tasks[n].result
           new == [row.rounds EXCEPT ![n].result = result]
<1>1. /\ DOMAIN row' = DOMAIN NoRow /\ row'.spec = row.spec
      /\ row'.status = "awaiting_decision" /\ row'.rounds = new /\ tasks' = tasks
  BY StateSaved DEF RecordTaskResult, SessionInv
<1>2. /\ n \in DOMAIN row.rounds /\ row.rounds[n].action = "dispatch"
      /\ row.rounds[n] \in Round /\ Grounded(row.rounds)
      /\ row.status # "absent"
  BY DEF RecordTaskResult, SessionInv, RowOK, Grounded, ReplOK
<1>3. /\ n \in DOMAIN tasks /\ result \in Result /\ tasks[n].request = row.rounds[n].request
      /\ Answers(tasks[n].request, result)
  BY <1>2 DEF SessionInv, RowOK, RoundHasTask, TasksOK, Task
<1>4. Grounded(new)
  BY <1>2, <1>3, ResultKeepsGrounded
<1>5. RoundHasTask(new[n], n)
  BY <1>2, <1>3 DEF RoundHasTask, Round
<1>6. /\ DOMAIN new = DOMAIN row.rounds
      /\ \A i \in DOMAIN row.rounds \ {n} : new[i] = row.rounds[i]
  OBVIOUS
<1> HIDE DEF new, n, result
<1>7. \A i \in DOMAIN new : RoundHasTask(new[i], i)
  BY <1>5, <1>6 DEF SessionInv, RowOK
<1>8. RowOK'
  BY <1>1, <1>2, <1>4, <1>7 DEF SessionInv, RowOK, RoundHasTask
<1>9. ReplOK'
  BY <1>1, GoneDecide DEF RecordTaskResult
<1> QED BY <1>1, <1>8, <1>9 DEF SessionInv, TasksOK

LEMMA SessionStepInv == SessionInv /\ [Next]_vars => SessionInv'
<1> SUFFICES ASSUME SessionInv, [Next]_vars PROVE SessionInv'
  OBVIOUS
<1>1. CASE UNCHANGED sessionVars
  <2>1. UNCHANGED rowVars /\ repl' = repl
    BY <1>1 DEF sessionVars, rowVars
  <2>2. row' = row /\ tasks' = tasks
    BY <2>1 DEF rowVars
  <2> QED BY <2>1, <2>2, RowKept DEF SessionInv, ReplOK
<1>2. CASE SessionStep
  BY <1>2, PromptsInv, CreateRequestInv, ApplyFollowUpInv, ReawakenInv, DecideInv,
     ParkDispatchedInv, RunTaskInv, RecordTaskResultInv DEF SessionStep, Drive
<1>3. CASE Typed \/ StepFails
  BY <1>3, PromptsInv DEF Typed
<1> QED BY <1>1, <1>2, <1>3 DEF Next, vars, sessionVars

\* Whatever is said, understood, left out and refused, in any order, what is
\* searched is in order wherever it was not filled in from an older spec
\* (formspec.go, validateDates; decide.go, fillDispatchDefaults).
THEOREM SearchesAlwaysMakeSense == Spec => []SearchesMakeSense
<1>1. SessionInv => SearchesMakeSense
  BY GroundedMakesSense DEF SessionInv, RowOK
<1> QED BY <1>1, SessionInitInv, SessionStepInv, PTL DEF Spec

-----------------------------------------------------------------------------
\* The link

\* Among finitely many round numbers there is a last one.
LEMMA LastExists ==
  ASSUME NEW n \in Nat, NEW T \in SUBSET (1 .. n), T # {}
  PROVE  \E i \in T : \A j \in T : j <= i
<1> DEFINE R == {ss \in Nat \X Nat : ss[1] < ss[2]}
           From == {n - i : i \in T}
<1>1. IsWellFoundedOn(R, Nat)
  BY NatLessThanWellFounded DEF OpToRel
<1>2. From \subseteq Nat /\ From # {}
  <2>1. \A i \in T : n - i \in Nat
    OBVIOUS
  <2>2. PICK i \in T : TRUE
    OBVIOUS
  <2>3. n - i \in From
    OBVIOUS
  <2> QED BY <2>1, <2>3
<1>3. \E x \in From : \A y \in From : <<y, x>> \notin R
  <2> HIDE DEF R, From
  <2> QED BY <1>1, <1>2, WFMin, Zenon
<1>4. PICK i \in T : \A y \in From : <<y, n - i>> \notin R
  BY <1>3
<1>5. ASSUME NEW j \in T PROVE j <= i
  <2>1. <<n - j, n - i>> \notin R /\ n - j \in Nat /\ n - i \in Nat
    BY <1>2, <1>4
  <2> QED BY <2>1
<1> QED BY <1>5

\* Only a flexible search reports its dates; for the others they are those of
\* the request, and either way the link has the dates that were priced.
LEMMA LinkDates ==
  ASSUME NEW r \in Fields, Complete(r), NEW dates \in Priced(r), NEW ends
  PROVE  LET chosen == Found(r, dates, ends).chosen
         IN <<OrElse(chosen[1], r.minDepart),
              IF r.tripType = "round_trip" THEN OrElse(chosen[2], r.minReturn) ELSE 0>> = dates
<1>1. /\ r.minDepart \in Nat /\ r.maxDepart \in Nat /\ r.minReturn \in Nat /\ r.maxReturn \in Nat
      /\ r.length \in Nat
  BY DatesAreNat, NumbersAssumption DEF Fields
<1>2. r.minDepart # 0 /\ (RoundTrip(r) <=> r.tripType = "round_trip")
  BY DEF Complete, missingRequiredFields, RoundTrip, Blank
<1>3. CASE tripLengthFlex(r)
  <2>1. PICK d \in Window(r.minDepart, r.maxDepart) : dates = <<d, d + r.length>>
    BY <1>3 DEF Priced
  <2>2. d \in Nat /\ d # 0 /\ r.length # 0
    BY <1>1, <1>2, <1>3, <2>1 DEF Window, tripLengthFlex, RoundTrip
  <2>3. Found(r, dates, ends).chosen = dates
    BY <1>3 DEF Found, Flexible
  <2> QED BY <1>1, <1>2, <1>3, <2>1, <2>2, <2>3 DEF OrElse, tripLengthFlex
<1>4. CASE ~Flexible(r)
  <2>1. dates = <<r.minDepart, IF RoundTrip(r) THEN r.minReturn ELSE 0>>
    BY <1>4 DEF Priced, Flexible
  <2>2. Found(r, dates, ends).chosen = <<0, 0>>
    BY <1>4 DEF Found
  <2> QED BY <1>2, <2>1, <2>2 DEF OrElse
<1>5. CASE ~tripLengthFlex(r) /\ independentRangeFlex(r) /\ ~RoundTrip(r)
  <2>1. PICK d \in Window(r.minDepart, r.maxDepart) : dates = <<d, 0>>
    BY <1>5 DEF Priced
  <2>2. d \in Nat /\ d # 0
    BY <1>1, <1>2, <2>1 DEF Window
  <2>3. Found(r, dates, ends).chosen = dates
    BY <1>5 DEF Found, Flexible
  <2> QED BY <1>2, <1>5, <2>1, <2>2, <2>3 DEF OrElse
<1>6. CASE ~tripLengthFlex(r) /\ independentRangeFlex(r) /\ RoundTrip(r)
  <2>1. /\ dates \in Window(r.minDepart, r.maxDepart) \X Window(r.minReturn, r.maxReturn)
        /\ dates[1] < dates[2]
    BY <1>6 DEF Priced
  <2>2. /\ dates[1] \in Nat /\ dates[2] \in Nat /\ dates[1] # 0 /\ dates[2] # 0
        /\ dates = <<dates[1], dates[2]>>
    BY <1>1, <1>2, <2>1 DEF Window
  <2>3. Found(r, dates, ends).chosen = dates
    BY <1>6 DEF Found, Flexible
  <2> QED BY <1>2, <1>6, <2>2, <2>3 DEF OrElse
<1> QED BY <1>3, <1>4, <1>5, <1>6 DEF Flexible

LEMMA LinkFollowsResult == SessionInv => LinkIsOfWhatWasFound
<1> SUFFICES ASSUME SessionInv, row.status = "finalized", FoundRounds(row.rounds) # {}
             PROVE  LET i == lastOffer(row.rounds)
                    IN /\ row.email.link.dates = row.rounds[i].result.priced
                       /\ row.email.link.dates \in Priced(tasks[i].request)
                       /\ row.email.link.ends \in Ends(tasks[i].request.route)
  BY DEF LinkIsOfWhatWasFound, SessionInv, RowOK, bookingLink
<1> DEFINE i == lastOffer(row.rounds)
           round == row.rounds[i]
           r == round.request
<1>1. i \in FoundRounds(row.rounds)
  <2>1. FoundRounds(row.rounds) \in SUBSET (1 .. Len(row.rounds)) /\ Len(row.rounds) \in Nat
    BY DEF FoundRounds, SessionInv, RowOK, Grounded
  <2> QED BY <2>1, LastExists DEF lastOffer
<1>2. /\ i \in DOMAIN row.rounds /\ round.result.status = "found" /\ round \in Round
      /\ RoundHasTask(round, i)
  BY <1>1 DEF FoundRounds, SessionInv, RowOK, Grounded
<1>3. /\ i \in DOMAIN tasks /\ tasks[i].request = r
      /\ round.result.priced \in Priced(r) /\ round.result.ends \in Ends(r.route)
      /\ round.result = Found(r, round.result.priced, round.result.ends)
  BY <1>2 DEF RoundHasTask, Answers, NoResult
<1>4. r \in Fields /\ Complete(r)
  BY <1>2, <1>3 DEF Round, SessionInv, TasksOK
<1>5. row.email.link = bookingLink(row.rounds)
  BY DEF SessionInv, RowOK
<1>6. /\ bookingLink(row.rounds).ends = round.result.ends
      /\ bookingLink(row.rounds).dates =
           <<OrElse(round.result.chosen[1], r.minDepart),
             IF r.tripType = "round_trip" THEN OrElse(round.result.chosen[2], r.minReturn) ELSE 0>>
  BY DEF bookingLink
<1> HIDE DEF round, r, i
<1>7. bookingLink(row.rounds).dates = round.result.priced
  BY <1>3, <1>4, <1>6, LinkDates
<1> QED BY <1>3, <1>5, <1>6, <1>7 DEF i, round, r

\* The link of a reply is for the dates the latest search that found anything
\* was priced for, between its airports (booking_link.go, bookingLink).
THEOREM LinkAlwaysOfWhatWasFound == Spec => []LinkIsOfWhatWasFound
BY LinkFollowsResult, SessionInitInv, SessionStepInv, PTL DEF Spec

-----------------------------------------------------------------------------
\* The life cycle

\* Between two writes the request is where its next write expects it.
Expected ==
  /\ row.status = "absent" => row.rounds = <<>>
  /\ repl.pc = "wake" => row.status \in Parked
  /\ repl.pc = "park" => row.status = "awaiting_decision" /\ UnderCap(row.rounds)
  /\ repl.pc \in {"search", "record"} =>
       row.status = "dispatched" /\ row.rounds[Len(row.rounds)].result = NoResult
  /\ repl.pc = "record" => tasks[Len(row.rounds)].result.status # "none"

LEMMA ExpectedGone ==
  ASSUME NEW pc \in {"prompt", "answer", "ended", "show", "decide"}, Go(pc),
         row'.status # "absent" \/ row'.rounds = <<>>
  PROVE  Expected'
BY DEF Go, At, Starting, Expected

LEMMA SomethingComesBack ==
  ASSUME NEW r, NEW result \in runSearch(r) PROVE result.status # "none"
BY DEF runSearch, Found, NothingFound, NoResult

LEMMA ExpectedStep == SessionInv /\ Expected /\ [Next]_vars => Expected'
<1> SUFFICES ASSUME SessionInv, Expected, [Next]_vars PROVE Expected'
  OBVIOUS
<1>1. CASE UNCHANGED sessionVars
  <2>1. row' = row /\ tasks' = tasks /\ repl' = repl
    BY <1>1 DEF sessionVars, rowVars
  <2> QED BY <2>1 DEF Expected
<1>2. CASE Loaded \/ Quit \/ Show \/ UnexpectedStatus \/ NotDue \/ StepFails
  <2>1. row' = row
    BY <1>2 DEF Loaded, Quit, Show, UnexpectedStatus, NotDue, StepFails, rowVars
  <2>2. row'.status # "absent" \/ row'.rounds = <<>>
    BY <2>1 DEF Expected
  <2> QED BY <1>2, <2>2, ExpectedGone DEF Loaded, Quit, Show, UnexpectedStatus, NotDue, StepFails
<1>3. CASE \E message \in Message : Type(message)
  BY <1>3 DEF Type, At, Starting, Expected, rowVars
<1>4. CASE CreateRequest
  <2>1. row'.rounds = <<>>
    BY <1>4 DEF CreateRequest, NoRow
  <2> QED BY <1>4, <2>1, ExpectedGone DEF CreateRequest
<1>5. CASE ApplyFollowUp
  <2>1. row'.status = row.status /\ row'.rounds = row.rounds /\ row.status # "absent"
    BY <1>5 DEF ApplyFollowUp, SessionInv, RowOK, NoRow
  <2> QED BY <1>5, <2>1 DEF ApplyFollowUp, Go, At, Starting, Expected, Waken
<1>6. CASE Reawaken
  <2>1. row'.status = "awaiting_decision"
    BY <1>6, StateSaved DEF Reawaken, SessionInv
  <2> QED BY <1>6, <2>1, ExpectedGone DEF Reawaken
<1>7. CASE Decide
  <2>1. row.status = "awaiting_decision"
    BY <1>7 DEF Decide, Due
  <2>2. PICK d \in DecideNextAction(row.spec, row.rounds) :
          AskUser(d) \/ Finalize(d) \/ CreateTask(d) \/ TaskConflict(d)
    BY <1>7 DEF Decide
  <2>3. CASE AskUser(d)
    <3>1. row'.status = "awaiting_user"
      BY <2>3, StateSaved DEF AskUser, SessionInv
    <3> QED BY <2>3, <3>1, ExpectedGone DEF AskUser
  <2>4. CASE Finalize(d)
    <3>1. row'.status = "finalized"
      BY <2>4, StateSaved DEF Finalize, SessionInv
    <3> QED BY <2>4, <3>1, ExpectedGone DEF Finalize
  <2>5. CASE CreateTask(d)
    BY <2>1, <2>5 DEF CreateTask, At, Starting, Expected
  <2>6. CASE TaskConflict(d)
    BY <2>1, <2>6, ExpectedGone DEF TaskConflict, rowVars
  <2> QED BY <2>2, <2>3, <2>4, <2>5, <2>6
<1>8. CASE ParkDispatched
  <2> DEFINE new == WithRound(row.rounds, row.spec, repl.decision)
  <2>1. row'.status = "dispatched" /\ row'.rounds = new
    BY <1>8, StateSaved DEF ParkDispatched, SessionInv
  <2>2. new[Len(new)].result = NoResult
    <3>1. row.rounds \in Seq(Round)
      BY DEF SessionInv, RowOK, Grounded
    <3>2. /\ Len(new) = NextRound(row.rounds)
          /\ new[NextRound(row.rounds)] =
               [action |-> repl.decision.action, spec |-> row.spec,
                request |-> repl.decision.request, result |-> NoResult]
      BY <3>1, WithRoundIs
    <3> HIDE DEF new
    <3> QED BY <3>2
  <2> HIDE DEF new
  <2> QED BY <1>8, <2>1, <2>2 DEF ParkDispatched, Go, At, Starting, Expected
<1>9. CASE RunTask
  <2> DEFINE n == Len(row.rounds)
  <2>1. PICK result \in runSearch(tasks[n].request) : tasks' = [tasks EXCEPT ![n].result = result]
    BY <1>9 DEF RunTask
  <2>2. n \in DOMAIN row.rounds /\ row.rounds[n].action = "dispatch" /\ repl.pc = "search"
    BY <1>9 DEF RunTask, SessionInv, RowOK, Grounded, ReplOK
  <2>3. n \in DOMAIN tasks /\ tasks[n] \in Task
    BY <2>2 DEF SessionInv, RowOK, RoundHasTask, TasksOK
  <2>4. tasks'[n].result.status # "none"
    BY <2>1, <2>3, SomethingComesBack DEF Task
  <2> HIDE DEF n
  <2>5. row' = row
    BY <1>9 DEF RunTask
  <2> QED BY <1>9, <2>2, <2>4, <2>5 DEF RunTask, Go, At, Starting, Expected, n
<1>10. CASE RecordTaskResult
  <2>1. row'.status = "awaiting_decision"
    BY <1>10, StateSaved DEF RecordTaskResult, SessionInv
  <2> QED BY <1>10, <2>1, ExpectedGone DEF RecordTaskResult
<1> QED BY <1>1, <1>2, <1>3, <1>4, <1>5, <1>6, <1>7, <1>8, <1>9, <1>10
        DEF Next, SessionStep, Typed, Drive, vars, sessionVars

Dispatches(rounds) == {i \in DOMAIN rounds : rounds[i].action = "dispatch"}
Reports(rounds) == {i \in DOMAIN rounds : rounds[i].result.status # "none"}

LEMMA CountsAreNat ==
  ASSUME NEW rounds \in Seq(Round)
  PROVE  /\ IsFiniteSet(Dispatches(rounds)) /\ IsFiniteSet(Reports(rounds))
         /\ dispatchCount(rounds) \in Nat /\ reportedCount(rounds) \in Nat
<1>1. IsFiniteSet(1 .. Len(rounds)) /\ DOMAIN rounds = 1 .. Len(rounds)
  BY FS_Interval
<1>2. IsFiniteSet(Dispatches(rounds)) /\ IsFiniteSet(Reports(rounds))
  BY <1>1, FS_Subset DEF Dispatches, Reports
<1>3. /\ dispatchCount(rounds) = Cardinality(Dispatches(rounds))
      /\ reportedCount(rounds) = Cardinality(Reports(rounds))
  BY DEF dispatchCount, reportedCount, Dispatches, Reports
<1> QED BY <1>2, <1>3, FS_CardinalityType

\* A round adds one to the searches if it is one, and nothing to the reports.
LEMMA RoundCounted ==
  ASSUME NEW rounds \in Seq(Round), NEW spec, NEW d
  PROVE  LET new == WithRound(rounds, spec, d)
         IN /\ reportedCount(new) = reportedCount(rounds)
            /\ dispatchCount(new) = dispatchCount(rounds) + (IF d.action = "dispatch" THEN 1 ELSE 0)
<1> DEFINE new == WithRound(rounds, spec, d)
           n == NextRound(rounds)
<1>1. DOMAIN rounds = 1 .. Len(rounds) /\ Len(rounds) \in Nat /\ n = Len(rounds) + 1
  BY DEF NextRound
<1>2. /\ DOMAIN new = 1 .. n
      /\ \A i \in DOMAIN rounds : new[i] = rounds[i]
      /\ new[n].action = d.action /\ new[n].result = NoResult
  <2>1. new[n] = [action |-> d.action, spec |-> spec, request |-> d.request, result |-> NoResult]
    BY WithRoundIs
  <2>2. DOMAIN new = 1 .. n /\ \A i \in DOMAIN rounds : new[i] = rounds[i]
    BY <1>1 DEF WithRound, NextRound
  <2> HIDE DEF new, n
  <2> QED BY <2>1, <2>2
<1>3. NoResult.status = "none"
  BY DEF NoResult
<1> HIDE DEF new, n
<1>4. DOMAIN new = DOMAIN rounds \cup {n} /\ n \notin DOMAIN rounds
  BY <1>1, <1>2
<1>5. Reports(new) = Reports(rounds)
  BY <1>2, <1>3, <1>4 DEF Reports
<1>6. /\ n \notin Dispatches(rounds)
      /\ Dispatches(new) = IF d.action = "dispatch" THEN Dispatches(rounds) \cup {n} ELSE Dispatches(rounds)
  BY <1>2, <1>4 DEF Dispatches
<1>7. Cardinality(Dispatches(new)) =
        Cardinality(Dispatches(rounds)) + (IF d.action = "dispatch" THEN 1 ELSE 0)
  <2>1. IsFiniteSet(Dispatches(rounds)) /\ Cardinality(Dispatches(rounds)) \in Nat
    BY CountsAreNat, FS_CardinalityType
  <2>2. Cardinality(Dispatches(rounds) \cup {n}) = Cardinality(Dispatches(rounds)) + 1
    BY <1>6, <2>1, FS_AddElement
  <2> QED BY <1>6, <2>1, <2>2
<1>8. /\ dispatchCount(new) = Cardinality(Dispatches(new))
      /\ dispatchCount(rounds) = Cardinality(Dispatches(rounds))
      /\ reportedCount(new) = Cardinality(Reports(new))
      /\ reportedCount(rounds) = Cardinality(Reports(rounds))
  BY DEF dispatchCount, reportedCount, Dispatches, Reports
<1>9. /\ reportedCount(new) = reportedCount(rounds)
      /\ dispatchCount(new) = dispatchCount(rounds) + (IF d.action = "dispatch" THEN 1 ELSE 0)
  BY <1>5, <1>7, <1>8
<1> QED BY <1>9 DEF new

\* A result adds one to the reports, of which there are never more than searches.
LEMMA ReportCounted ==
  ASSUME NEW rounds \in Seq(Round), NEW n \in DOMAIN rounds, NEW result,
         rounds[n].action = "dispatch", rounds[n].result.status = "none", result.status # "none",
         \A i \in DOMAIN rounds : rounds[i].action # "dispatch" => rounds[i].result.status = "none"
  PROVE  LET new == [rounds EXCEPT ![n].result = result]
         IN /\ reportedCount(rounds) < dispatchCount(rounds)
            /\ reportedCount(new) = reportedCount(rounds) + 1
            /\ dispatchCount(new) = dispatchCount(rounds)
<1> DEFINE new == [rounds EXCEPT ![n].result = result]
<1>1. rounds[n] \in Round
  OBVIOUS
<1>2. /\ DOMAIN new = DOMAIN rounds /\ new[n].result = result /\ new[n].action = rounds[n].action
      /\ \A i \in DOMAIN rounds \ {n} : new[i] = rounds[i]
  BY <1>1 DEF Round
<1> HIDE DEF new
<1>3. Dispatches(new) = Dispatches(rounds)
  BY <1>2 DEF Dispatches
<1>4. Reports(new) = Reports(rounds) \cup {n} /\ n \notin Reports(rounds)
  BY <1>2 DEF Reports
<1>5. Reports(new) \subseteq Dispatches(rounds)
  BY <1>4 DEF Reports, Dispatches
<1>6. IsFiniteSet(Dispatches(rounds)) /\ IsFiniteSet(Reports(rounds))
  BY CountsAreNat
<1>7. /\ Cardinality(Reports(new)) = Cardinality(Reports(rounds)) + 1
      /\ Cardinality(Reports(new)) <= Cardinality(Dispatches(rounds))
      /\ Cardinality(Reports(rounds)) \in Nat /\ Cardinality(Dispatches(rounds)) \in Nat
  BY <1>4, <1>5, <1>6, FS_AddElement, FS_Subset, FS_CardinalityType
<1>8. /\ dispatchCount(new) = Cardinality(Dispatches(new))
      /\ dispatchCount(rounds) = Cardinality(Dispatches(rounds))
      /\ reportedCount(new) = Cardinality(Reports(new))
      /\ reportedCount(rounds) = Cardinality(Reports(rounds))
  BY DEF dispatchCount, reportedCount, Dispatches, Reports
<1>9. /\ reportedCount(rounds) < dispatchCount(rounds)
      /\ reportedCount(new) = reportedCount(rounds) + 1
      /\ dispatchCount(new) = dispatchCount(rounds)
  BY <1>3, <1>7, <1>8
<1> QED BY <1>9 DEF new

LEMMA LifeStutters ==
  ASSUME row'.status = row.status, row'.rounds = row.rounds
  PROVE  Lifecycle!vars' = Lifecycle!vars
BY DEF Lifecycle!vars, dispatchCount, reportedCount

\* One step of the life cycle for each write of agent_requests.
LEMMA LifeStep == SessionInv /\ Expected /\ [Next]_vars => [Lifecycle!Next]_(Lifecycle!vars)
<1> SUFFICES ASSUME SessionInv, Expected, [Next]_vars
             PROVE  Lifecycle!vars' = Lifecycle!vars \/ Lifecycle!Next
  OBVIOUS
<1> DEFINE status == [r \in {Repl} |-> row.status]
           searched == [r \in {Repl} |-> dispatchCount(row.rounds)]
           reported == [r \in {Repl} |-> reportedCount(row.rounds)]
<1>1. row.rounds \in Seq(Round) /\ Grounded(row.rounds)
  BY DEF SessionInv, RowOK, Grounded
<1>2. CASE UNCHANGED row
  BY <1>2, LifeStutters
<1>3. CASE CreateRequest
  <2>1. /\ row'.rounds = <<>> /\ row'.status = "awaiting_decision"
        /\ row.rounds = <<>> /\ row.status = "absent"
    BY <1>3 DEF CreateRequest, NoRow, Expected
  <2>2. Lifecycle!Create(Repl)
    BY <2>1 DEF Lifecycle!Create, Lifecycle!Become, dispatchCount, reportedCount
  <2> QED BY <2>2 DEF Lifecycle!Next
<1>4. CASE ApplyFollowUp
  <2>1. row'.status = row.status /\ row'.rounds = row.rounds
    BY <1>4 DEF ApplyFollowUp, SessionInv, RowOK, NoRow
  <2> QED BY <2>1, LifeStutters
<1>5. CASE Reawaken
  <2>1. /\ row'.status = "awaiting_decision" /\ row'.rounds = row.rounds
        /\ row.status \in Parked
    BY <1>5, StateSaved DEF Reawaken, SessionInv, Expected
  <2>2. Lifecycle!Reply(Repl)
    BY <2>1 DEF Lifecycle!Reply, Lifecycle!Become, dispatchCount, reportedCount, Parked
  <2> QED BY <2>2 DEF Lifecycle!Next
<1>6. CASE Decide /\ ~UNCHANGED row
  <2>1. row.status = "awaiting_decision"
    BY <1>6 DEF Decide, Due
  <2>2. PICK d \in DecideNextAction(row.spec, row.rounds) : AskUser(d) \/ Finalize(d)
    BY <1>6 DEF Decide, CreateTask, TaskConflict, rowVars
  <2>3. CASE AskUser(d)
    <3>1. /\ d.action = "ask_user" /\ row'.status = "awaiting_user"
          /\ row'.rounds = WithRound(row.rounds, row.spec, d)
      BY <2>3, StateSaved DEF AskUser, SessionInv
    <3>2. /\ dispatchCount(row'.rounds) = dispatchCount(row.rounds)
          /\ reportedCount(row'.rounds) = reportedCount(row.rounds)
      BY <1>1, <3>1, RoundCounted, CountsAreNat
    <3>3. Lifecycle!Ask(Repl)
      BY <2>1, <3>1, <3>2 DEF Lifecycle!Ask, Lifecycle!Become
    <3> QED BY <3>3 DEF Lifecycle!Next, Lifecycle!Decide
  <2>4. CASE Finalize(d)
    <3>1. row'.status = "finalized" /\ row'.rounds = row.rounds
      BY <2>4, StateSaved DEF Finalize, SessionInv
    <3>2. Lifecycle!Finalize(Repl)
      BY <2>1, <3>1 DEF Lifecycle!Finalize, Lifecycle!Become, dispatchCount, reportedCount
    <3> QED BY <3>2 DEF Lifecycle!Next, Lifecycle!Decide
  <2> QED BY <2>2, <2>3, <2>4
<1>7. CASE ParkDispatched
  <2>1. /\ row'.status = "dispatched" /\ row.status = "awaiting_decision"
        /\ row'.rounds = WithRound(row.rounds, row.spec, repl.decision)
        /\ repl.decision.action = "dispatch"
        /\ dispatchCount(row.rounds) < RedispatchCap
    BY <1>7, StateSaved DEF ParkDispatched, SessionInv, ReplOK, Expected, UnderCap
  <2>2. /\ dispatchCount(row'.rounds) = dispatchCount(row.rounds) + 1
        /\ reportedCount(row'.rounds) = reportedCount(row.rounds)
    BY <1>1, <2>1, RoundCounted
  <2>3. Lifecycle!Search(Repl)
    BY <2>1, <2>2 DEF Lifecycle!Search, Lifecycle!Become
  <2> QED BY <2>3 DEF Lifecycle!Next, Lifecycle!Decide
<1>8. CASE RecordTaskResult
  <2> DEFINE n == Len(row.rounds)
             result == tasks[n].result
  <2>1. /\ row'.status = "awaiting_decision" /\ row.status = "dispatched"
        /\ row'.rounds = [row.rounds EXCEPT ![n].result = result]
    BY <1>8, StateSaved DEF RecordTaskResult, SessionInv, Expected
  <2>2. /\ n \in DOMAIN row.rounds /\ row.rounds[n].action = "dispatch"
        /\ row.rounds[n].result.status = "none" /\ result.status # "none"
    BY <1>1, <1>8 DEF RecordTaskResult, SessionInv, ReplOK, Expected, NoResult
  <2>3. \A i \in DOMAIN row.rounds :
          row.rounds[i].action # "dispatch" => row.rounds[i].result.status = "none"
    BY DEF SessionInv, RowOK, RoundHasTask, NoResult
  <2> HIDE DEF n, result
  <2>4. /\ reportedCount(row.rounds) < dispatchCount(row.rounds)
        /\ reportedCount(row'.rounds) = reportedCount(row.rounds) + 1
        /\ dispatchCount(row'.rounds) = dispatchCount(row.rounds)
    <3> DEFINE new == [row.rounds EXCEPT ![n].result = result]
    <3>1. /\ reportedCount(row.rounds) < dispatchCount(row.rounds)
          /\ reportedCount(new) = reportedCount(row.rounds) + 1
          /\ dispatchCount(new) = dispatchCount(row.rounds)
      BY <1>1, <2>2, <2>3, ReportCounted
    <3> QED BY <2>1, <3>1
  <2>5. Lifecycle!Report(Repl)
    BY <2>1, <2>4 DEF Lifecycle!Report, Lifecycle!Become
  <2> QED BY <2>5 DEF Lifecycle!Next
<1>9. \/ UNCHANGED row
      \/ CreateRequest \/ ApplyFollowUp \/ Reawaken \/ (Decide /\ ~UNCHANGED row)
      \/ ParkDispatched \/ RecordTaskResult
  BY DEF Next, SessionStep, Typed, Drive, vars, sessionVars, rowVars, Loaded, Quit, Show,
         UnexpectedStatus, NotDue, Type, StepFails, RunTask
<1> QED BY <1>2, <1>3, <1>4, <1>5, <1>6, <1>7, <1>8, <1>9

LEMMA LifeInit == Init => Lifecycle!Init /\ Expected
<1> SUFFICES ASSUME Init PROVE Lifecycle!Init /\ Expected
  OBVIOUS
<1>1. row.status = "absent" /\ row.rounds = <<>>
  BY DEF Init, NoRow
<1>2. dispatchCount(<<>>) = 0 /\ reportedCount(<<>>) = 0
  BY FS_EmptySet DEF dispatchCount, reportedCount
<1>3. Lifecycle!Init
  BY <1>1, <1>2 DEF Lifecycle!Init
<1>4. Expected
  BY <1>1 DEF Init, Starting, Expected
<1> QED BY <1>3, <1>4

\* A session implements the life cycle: each of its writes is one step of it or
\* none, and an error between two writes leaves the request where it was.
THEOREM SessionAlwaysFollowsLifecycle == Spec => SessionFollowsLifecycle
<1>1. Init => SessionInv /\ Expected /\ Lifecycle!Init
  BY SessionInitInv, LifeInit
<1>2. SessionInv /\ Expected /\ [Next]_vars => SessionInv' /\ Expected'
  BY SessionStepInv, ExpectedStep
<1> QED BY <1>1, <1>2, LifeStep, PTL DEF Spec, SessionFollowsLifecycle, Lifecycle!Spec

-----------------------------------------------------------------------------
\* What is shown

\* A request that nobody is searching for, or whose answer is old, is there to
\* be shown only after a failure.
ShownInv ==
  /\ faults \in Nat
  /\ row.status \in {"absent", "awaiting_decision", "dispatched"} \cup Parked
  /\ row.status = "dispatched" /\ repl.pc \notin {"search", "record"} => faults > 0
  /\ repl.pc = "decide" => row.status \in {"awaiting_decision", "dispatched"}
  /\ repl.pc = "show" =>
       \/ row.status = "dispatched"
       \/ row.status \in Parked /\ row.email.spec = row.spec

LEMMA ShownEnough == ShownInv => ShownIsForTheLastLine
BY DEF ShownInv, ShownIsForTheLastLine, Parked

LEMMA FaultsGrow ==
  ASSUME faults \in Nat, [Next]_vars
  PROVE  faults' \in Nat /\ faults' >= faults
<1>1. CASE CatalogNext
  BY <1>1 DEF CatalogNext, Load, Stat, Get, Create, Write, Fails, StartAgain, Failure
<1>2. CASE SessionStep \/ Typed \/ StepFails \/ UNCHANGED vars
  BY <1>2 DEF SessionStep, Typed, StepFails, Failure, vars
<1> QED BY <1>1, <1>2 DEF Next

LEMMA ShownStep == SessionInv /\ Expected /\ ShownInv /\ [Next]_vars => ShownInv'
<1> SUFFICES ASSUME SessionInv, Expected, ShownInv, [Next]_vars PROVE ShownInv'
  OBVIOUS
<1>0. /\ faults \in Nat /\ faults' \in Nat /\ faults' >= faults
      /\ faults > 0 => faults' > 0
  BY FaultsGrow DEF ShownInv
<1>1. CASE UNCHANGED sessionVars
  BY <1>0, <1>1 DEF sessionVars, rowVars, ShownInv
<1>2. CASE Loaded \/ Quit \/ Show \/ UnexpectedStatus \/ (\E message \in Message : Type(message))
  <2>1. row' = row /\ repl'.pc \in {"prompt", "answer", "ended", "form"} /\ repl.pc \notin {"search", "record"}
    BY <1>2 DEF Loaded, Quit, Show, UnexpectedStatus, Type, rowVars, Go, At, Starting
  <2>2. repl'.pc \notin {"decide", "show", "search", "record"}
    BY <2>1
  <2> QED BY <1>0, <2>1, <2>2 DEF ShownInv
<1>3. CASE StepFails
  <2>1. row' = row /\ repl'.pc = "prompt" /\ faults' > 0
    BY <1>0, <1>3 DEF StepFails, rowVars, Go, At, Starting, Failure
  <2> QED BY <1>0, <2>1 DEF ShownInv
<1>4. CASE NotDue
  <2>1. row' = row /\ repl'.pc = "show" /\ row.status = "dispatched" /\ repl.pc = "decide"
    BY <1>4 DEF NotDue, Due, rowVars, Go, At, Starting, ShownInv
  <2> QED BY <1>0, <2>1 DEF ShownInv
<1>5. CASE CreateRequest \/ Reawaken \/ RecordTaskResult
  <2>1. row'.status = "awaiting_decision"
    <3>1. CASE CreateRequest
      BY <3>1 DEF CreateRequest, NoRow
    <3>2. CASE Reawaken \/ RecordTaskResult
      BY <3>2, StateSaved DEF Reawaken, RecordTaskResult, SessionInv
    <3> QED BY <1>5, <3>1, <3>2
  <2>2. repl'.pc = "decide"
    BY <1>5 DEF CreateRequest, Reawaken, RecordTaskResult, Go, At, Starting
  <2> QED BY <1>0, <2>1, <2>2 DEF ShownInv, Parked
<1>6. CASE ApplyFollowUp
  <2>1. /\ row'.status = row.status /\ row.status # "absent" /\ repl.pc = "form"
        /\ repl'.pc = IF Waken(row.status) THEN "wake" ELSE "decide"
    BY <1>6 DEF ApplyFollowUp, SessionInv, RowOK, NoRow, Go, At, Starting
  <2>2. repl'.pc \in {"wake", "decide"}
    BY <2>1
  <2>3. repl'.pc = "decide" => row'.status \in {"awaiting_decision", "dispatched"}
    BY <2>1 DEF ShownInv, Waken, Parked
  <2> QED BY <1>0, <2>1, <2>2, <2>3 DEF ShownInv
<1>7. CASE Decide
  <2>1. row.status = "awaiting_decision" /\ repl.pc = "decide"
    BY <1>7 DEF Decide, Due
  <2>2. PICK d \in DecideNextAction(row.spec, row.rounds) :
          AskUser(d) \/ Finalize(d) \/ CreateTask(d) \/ TaskConflict(d)
    BY <1>7 DEF Decide
  <2>3. CASE AskUser(d) \/ Finalize(d)
    <3>1. /\ row'.status \in Parked /\ row'.spec = row.spec /\ row'.email.spec = row.spec
      <4>1. CASE AskUser(d)
        BY <4>1, StateSaved DEF AskUser, SessionInv, Email, Parked
      <4>2. CASE Finalize(d)
        BY <4>2, StateSaved DEF Finalize, SessionInv, Email, Parked
      <4> QED BY <2>3, <4>1, <4>2
    <3>2. repl'.pc = "show"
      BY <2>3 DEF AskUser, Finalize, Go, At, Starting
    <3> QED BY <1>0, <3>1, <3>2 DEF ShownInv, Parked
  <2>4. CASE CreateTask(d) \/ TaskConflict(d)
    <3>1. row' = row /\ repl'.pc \in {"park", "prompt"}
      BY <2>4 DEF CreateTask, TaskConflict, rowVars, Go, At, Starting
    <3> QED BY <1>0, <2>1, <3>1 DEF ShownInv
  <2> QED BY <2>2, <2>3, <2>4
<1>8. CASE ParkDispatched
  <2>1. row'.status = "dispatched" /\ repl'.pc = "search"
    BY <1>8, StateSaved DEF ParkDispatched, SessionInv, Go, At, Starting
  <2> QED BY <1>0, <2>1 DEF ShownInv
<1>9. CASE RunTask
  <2>1. row' = row /\ repl'.pc = "record" /\ repl.pc = "search"
    BY <1>9 DEF RunTask, Go, At, Starting
  <2> QED BY <1>0, <2>1 DEF ShownInv
<1> QED BY <1>1, <1>2, <1>3, <1>4, <1>5, <1>6, <1>7, <1>8, <1>9
        DEF Next, SessionStep, Typed, Drive, vars, sessionVars

\* What a session shows was written for the last line it was told, and it never
\* stops with a search under way unless a call has failed (main.go, converse).
THEOREM ShownAlwaysForTheLastLine == Spec => []ShownIsForTheLastLine
<1>1. Init => SessionInv /\ Expected /\ ShownInv
  <2>1. Init => ShownInv
    <3>1. Init => row = NoRow /\ repl = Starting /\ faults = 0
      BY DEF Init
    <3>2. NoRow.status = "absent" /\ Starting.pc = "load"
      BY DEF NoRow, Starting
    <3> QED BY <3>1, <3>2 DEF ShownInv
  <2> QED BY <2>1, SessionInitInv, LifeInit
<1>2. SessionInv /\ Expected /\ ShownInv /\ [Next]_vars => SessionInv' /\ Expected' /\ ShownInv'
  BY SessionStepInv, ExpectedStep, ShownStep
<1> QED BY <1>1, <1>2, ShownEnough, PTL DEF Spec
=============================================================================
