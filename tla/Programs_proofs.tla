--------------------------- MODULE Programs_proofs ---------------------------
(* The invariants of programs that share nothing: each part below is about the *)
(* specification of one of them, in the order of their modules.               *)
EXTENDS JupyterKernel, SystemdCalendar, InstanceParameters, Publication, UserConfiguration,
        PartitionConfiguration, GeneratedValues, TracSite, SignalTranslation,
        PostgresPartition, FiniteSetTheorems, TLAPS

------------------------------------------------------------------------------
(* The ERP5 kernel of jupyter (JupyterKernel)                               *)

\* While a cell is sent to ERP5 nothing is shown for it, and it has not run more often
\* than it was sent before.
Sending ==
  /\ kernel \in {"code", "again"} => shown = "nothing"
  /\ kernel = "code" => runs = 0
  /\ kernel = "again" => runs <= 1

KernelInv == runs \in Nat /\ Sending /\ ResultIsOwn

\* A reply says at most that the code has run once, and says so if it has a result.
LEMMA AnswersTyped ==
  \A reply \in Answers :
    /\ reply.ran \in {0, 1}
    /\ reply.status \in {"lost", "401", "500", "200"}
    /\ reply.content \in {"text", "result", "error"}
    /\ reply.content # "text" => reply.ran = 1
  BY DEF Answers, Contents

\* A response with a result comes from a reply that has one.
LEMMA ResponseSound ==
  ASSUME NEW reply \in Answers, MakeRequest(reply, FALSE)
  PROVE  response' \in {"result", "error"} => reply.ran = 1
  BY AnswersTyped DEF MakeRequest

LEMMA KernelInvInit == KernelInit => KernelInv
  BY DEF KernelInit, KernelInv, Sending, ResultIsOwn

LEMMA KernelInvStep == KernelInv /\ [KernelNext]_kernelVars => KernelInv'
<1> SUFFICES ASSUME KernelInv, [KernelNext]_kernelVars
             PROVE  KernelInv'
  OBVIOUS
<1> USE DEF KernelInv, Sending, ResultIsOwn
<1>1. ASSUME NEW a \in Attributes, NEW value \in Values \cup {Unset}, SetMagic(a, value)
      PROVE  KernelInv'
  BY <1>1 DEF SetMagic
<1>2. CASE MyNotebooks
  BY <1>2 DEF MyNotebooks
<1>3. CASE MagicRequest
  BY <1>3 DEF MagicRequest
<1>4. CASE Execute
  BY <1>4 DEF Execute
<1>5. CASE Code
  <2>1. PICK reply \in Answers : MakeRequest(reply, FALSE) /\ runs' = runs + reply.ran
    BY <1>5 DEF Code
  <2>2. response' \in {"result", "error"} => reply.ran = 1
    BY <2>1, ResponseSound
  <2>3. response' # "nothing" /\ reply.ran \in {0, 1} /\ runs = 0
    BY <1>5, <2>1, AnswersTyped DEF Code, MakeRequest
  <2> QED
    BY <1>5, <2>1, <2>2, <2>3 DEF Code
<1>6. CASE CodeAgain
  <2>1. PICK reply \in Answers : runs' = runs + reply.ran
    BY <1>6 DEF CodeAgain
  <2> QED
    BY <1>6, <2>1, AnswersTyped DEF CodeAgain
<1>7. CASE Interrupt
  <2>1. CASE runs' = runs
    BY <1>7, <2>1 DEF Interrupt
  <2>2. ASSUME NEW reply \in Answers, kernel \in {"code", "again"}, runs' = runs + reply.ran
        PROVE  KernelInv'
    BY <1>7, <2>2, AnswersTyped DEF Interrupt
  <2> QED
    BY <1>7, <2>1, <2>2 DEF Interrupt
<1>8. CASE Restart
  BY <1>8 DEF Restart
<1>9. CASE UNCHANGED kernelVars
  BY <1>9 DEF kernelVars
<1> QED
  BY <1>1, <1>2, <1>3, <1>4, <1>5, <1>6, <1>7, <1>8, <1>9 DEF KernelNext

\* For any number of cells, answers, interruptions and restarts: a result that is shown
\* is that of its cell, which was run once.
THEOREM ResultsAreOwn == KernelSpec => []ResultIsOwn
<1>1. KernelInv => ResultIsOwn
  BY DEF KernelInv
<1> QED
  BY <1>1, KernelInvInit, KernelInvStep, PTL DEF KernelSpec

------------------------------------------------------------------------------
(* The conversion of calendars of systemd (SystemdCalendar)                 *)

\* The lists of a calendar, and those that the conversion of a step makes.
AllElements == {<<x>> : x \in Nat} \cup {<<x, b>> : x, b \in Nat}
AllLists == {<<>>} \cup {<<e>> : e \in AllElements} \cup {<<e, d>> : e, d \in AllElements}
SteppedLists == {<<<<x, y, b>>>> : x, y, b \in Nat}

\* What the property excepts otherwise: a step beside another element.
Plain(list) == Len(list) > 1 => \A k \in DOMAIN list : Len(list[k]) = 1

\* The times of a list, whatever the state.
CronOf(list, f) ==
  IF list = <<>> THEN TimesOf(f) ELSE UNION {Covered(list[k]) : k \in DOMAIN list}

SystemdOf(list, f) ==
  {v \in TimesOf(f) : list = <<>> \/ \E k \in DOMAIN list : Matches(v, list[k])}

LEMMA TimesAre ==
  /\ \A f : CronTimes(f) = CronOf(cron[f], f)
  /\ \A f : SystemdTimes(f) = SystemdOf(Meant(f), f)
  BY DEF CronTimes, CronOf, SystemdTimes, SystemdOf

LEMMA FieldNumbers == \A f \in Fields : Low[f] \in Nat /\ Size[f] \in Nat
  BY DEF Fields, Low, Size

LEMMA StarSame == \A f : CronOf(<<>>, f) = SystemdOf(<<>>, f)
  BY DEF CronOf, SystemdOf

LEMMA NumbersSame ==
  ASSUME NEW f \in Fields, NEW list \in AllLists,
         \A k \in DOMAIN list : Len(list[k]) = 1 /\ list[k][1] \in TimesOf(f)
  PROVE  CronOf(list, f) = SystemdOf(list, f)
  BY DEF CronOf, SystemdOf, Covered, Matches

\* The last multiple of b up to m.
LEMMA Multiples ==
  ASSUME NEW m \in Nat, NEW b \in Nat, b > 0, NEW d \in Nat, d % b = 0
  PROVE  d <= m <=> d <= (m \div b) * b
<1> DEFINE q == d \div b
<1> DEFINE p == m \div b
<1>1. d = q * b /\ q \in Nat
  OBVIOUS
<1>2. p * b <= m /\ m < p * b + b /\ p \in Nat
  OBVIOUS
<1>3. ASSUME q > p PROVE q * b >= p * b + b
  <2>1. PICK r \in Nat : q = p + 1 + r
    <3>1. q - p - 1 \in Nat
      BY <1>1, <1>2, <1>3
    <3> QED BY <3>1, <1>1, <1>2
  <2> HIDE DEF q, p
  <2>2. q * b = p * b + b + r * b /\ r * b \in Nat
    BY <2>1, <1>2
  <2> QED BY <2>2, <1>2
<1>4. ASSUME q <= p PROVE q * b <= p * b
  <2>1. PICK r \in Nat : p = q + r
    <3>1. p - q \in Nat
      BY <1>1, <1>2, <1>4
    <3> QED BY <3>1, <1>1, <1>2
  <2> HIDE DEF q, p
  <2>2. p * b = q * b + r * b /\ r * b \in Nat /\ q * b \in Nat
    BY <2>1, <1>1
  <2> QED BY <2>2
<1> HIDE DEF q, p
<1>5. q > p \/ q <= p
  BY <1>1, <1>2
<1>6. d <= m <=> d <= p * b
  <2>1. p * b \in Nat
    BY <1>2
  <2> QED BY <1>1, <1>2, <1>3, <1>4, <1>5, <2>1
<1> QED BY <1>6 DEF p

LEMMA OneElement == \A y : DOMAIN <<y>> = {1} /\ <<y>>[1] = y /\ <<y>> # <<>>
  OBVIOUS

LEMMA InRangeIs == field \in Fields => \A x \in Nat : InRange(x) <=> x \in TimesOf(field)
  BY FieldNumbers DEF InRange, TimesOf

LEMMA ExtentIsNumber ==
  ASSUME NEW f \in Fields, NEW x \in Nat, NEW b \in Nat, b > 0, x \in TimesOf(f)
  PROVE  /\ Size[f] - (x - Low[f]) - 1 \in Nat
         /\ ((Size[f] - (x - Low[f]) - 1) \div b) * b \in Nat
<1>1. PICK m : m = Size[f] - (x - Low[f]) - 1
  OBVIOUS
<1>2. m \in Nat
  BY <1>1, FieldNumbers DEF TimesOf
<1>3. m \div b \in Nat
  BY <1>2
<1>4. (m \div b) * b \in Nat
  BY <1>3
<1> QED BY <1>1, <1>2, <1>4

\* A step becomes a range with a step that has the same times.
LEMMA StepSame ==
  ASSUME NEW f \in Fields, NEW x \in Nat, NEW b \in Nat, b > 0, x \in TimesOf(f),
         NEW e, e = ((Size[f] - (x - Low[f]) - 1) \div b) * b
  PROVE  CronOf(<<<<x, x + e, b>>>>, f) = SystemdOf(<<<<x, b>>>>, f)
<1> DEFINE m == Size[f] - (x - Low[f]) - 1
<1>1. m \in Nat
  BY ExtentIsNumber
<1>2. e \in Nat
  BY ExtentIsNumber
<1>3. CronOf(<<<<x, x + e, b>>>>, f) = {v \in x..(x + e) : (v - x) % b = 0}
  <2>1. PICK y : y = <<x, x + e, b>>
    OBVIOUS
  <2>2. Len(y) # 1 /\ y[1] = x /\ y[2] = x + e /\ y[3] = b
    BY <2>1
  <2>3. CronOf(<<y>>, f) = Covered(y)
    BY OneElement DEF CronOf
  <2>4. Covered(y) = {v \in y[1]..y[2] : (v - y[1]) % y[3] = 0}
    BY <2>2 DEF Covered
  <2> QED BY <2>1, <2>2, <2>3, <2>4
<1>4. SystemdOf(<<<<x, b>>>>, f) = {v \in TimesOf(f) : v >= x /\ (v - x) % b = 0}
  <2>1. PICK y : y = <<x, b>>
    OBVIOUS
  <2>2. Len(y) # 1 /\ y[1] = x /\ y[2] = b
    BY <2>1
  <2>3. SystemdOf(<<y>>, f) = {v \in TimesOf(f) : Matches(v, y)}
    BY OneElement DEF SystemdOf
  <2>4. \A v : Matches(v, y) <=> v >= y[1] /\ (v - y[1]) % y[2] = 0
    BY <2>2 DEF Matches
  <2> QED BY <2>1, <2>2, <2>3, <2>4
<1>5. ASSUME NEW v \in Nat, v >= x, (v - x) % b = 0
      PROVE  v \in TimesOf(f) <=> v <= x + e
  <2>1. v - x \in Nat
    BY <1>5
  <2>2. v - x <= m <=> v - x <= e
    <3> HIDE DEF m
    <3>1. v - x <= m <=> v - x <= (m \div b) * b
      BY <1>1, <1>5, <2>1, Multiples
    <3> QED BY <3>1 DEF m
  <2>3. v \in TimesOf(f) <=> v - x <= m
    BY <1>5, FieldNumbers DEF TimesOf
  <2> QED BY <2>1, <2>2, <2>3, <1>2
<1>6. TimesOf(f) \subseteq Nat
  BY FieldNumbers DEF TimesOf
<1>7. \A v : v \in x..(x + e) <=> v \in Nat /\ v >= x /\ v <= x + e
  BY <1>2
<1> QED BY <1>3, <1>4, <1>5, <1>6, <1>7

CalendarTypeOK ==
  /\ calendar \in [symbol : {"none"} \cup Symbols, date : BOOLEAN, time : BOOLEAN, year : BOOLEAN,
                   seconds : BOOLEAN, fields : [Fields -> AllLists], dow : Days]
  /\ calendar.symbol # "none" => calendar.dow = {} /\ ~calendar.date /\ ~calendar.time
  /\ cron \in [Fields -> AllLists \cup SteppedLists]
  /\ field \in 0..5 /\ outcome \in {"words", "reading", "converted", "raised"}

\* The fields that are left to convert are those of the calendar; the others mean the same.
FieldsSame ==
  /\ outcome = "words" => field = 0
  /\ outcome = "reading" =>
       /\ calendar.symbol = "none" /\ field <= 4
       /\ \A f \in Fields : f >= field => cron[f] = Meant(f)
       /\ \A f \in Fields :
            f < field /\ Plain(Meant(f)) => CronOf(cron[f], f) = SystemdOf(Meant(f), f)
  /\ outcome = "converted" =>
       \A f \in Fields : Plain(Meant(f)) => CronOf(cron[f], f) = SystemdOf(Meant(f), f)

\* The days of the week are those of the calendar, which has then no day of the month.
DaysSame ==
  /\ outcome \in {"reading", "converted"} /\ calendar.symbol # "weekly" => cronDow = calendar.dow
  /\ outcome = "reading" /\ field > 0 /\ calendar.dow # {} => Meant(3) = <<>>
  /\ outcome = "converted" /\ calendar.dow # {} => Meant(3) = <<>>

CalendarInv == CalendarTypeOK /\ FieldsSame /\ DaysSame

LEMMA ListsTyped ==
  /\ <<>> \in AllLists
  /\ \A f \in Fields : Lists(f) \subseteq AllLists
  /\ \A x \in Nat : At(x) \in AllLists
<1>1. <<>> \in AllLists
  BY DEF AllLists
<1>2. \A x \in Nat : At(x) \in AllLists
  <2> TAKE x \in Nat
  <2>1. <<x>> \in AllElements
    BY DEF AllElements
  <2> QED BY <2>1 DEF AllLists, At
<1>3. ASSUME NEW f \in Fields PROVE Lists(f) \subseteq AllLists
  <2>1. \A S \in SUBSET Nat : Elements(S) \subseteq AllElements
    BY DEF Elements, AllElements
  <2>2. 0..(Low[f] + Size[f]) \subseteq Nat
    OBVIOUS
  <2>3. /\ Elements(0..(Low[f] + Size[f])) \subseteq AllElements
        /\ Elements(Listed) \subseteq AllElements
    BY <2>1, <2>2, CalendarAssumption
  <2> QED BY <2>3 DEF Lists, AllLists
<1> QED BY <1>1, <1>2, <1>3

LEMMA SpecsTyped ==
  ASSUME NEW s \in Specs
  PROVE  /\ s \in [symbol : {"none"} \cup Symbols, date : BOOLEAN, time : BOOLEAN, year : BOOLEAN,
                   seconds : BOOLEAN, fields : [Fields -> AllLists], dow : Days]
         /\ s.symbol # "none" => s.dow = {} /\ ~s.date /\ ~s.time
<1>1. Star \in [Fields -> AllLists]
  BY ListsTyped DEF Star
<1>2. \A f \in Fields, list \in AllLists : [Star EXCEPT ![f] = list] \in [Fields -> AllLists]
  BY <1>1
<1>3. \A lists \in SUBSET AllLists : OneField(lists) \subseteq [Fields -> AllLists]
  BY <1>2 DEF OneField
<1> DEFINE F1 == OneField(UNION {Lists(f) : f \in Fields})
<1> DEFINE F2 == OneField({At(x) : x \in Listed})
<1> DEFINE Typed(F, D) == [symbol : {"none"} \cup Symbols, date : BOOLEAN, time : BOOLEAN,
                           year : BOOLEAN, seconds : BOOLEAN, fields : F, dow : D]
<1>4. F1 \subseteq [Fields -> AllLists]
  BY <1>3, ListsTyped
<1>5. F2 \subseteq [Fields -> AllLists]
  <2>1. {At(x) : x \in Listed} \subseteq AllLists
    BY ListsTyped, CalendarAssumption
  <2> QED BY <1>3, <2>1
<1>6. {Star} \subseteq [Fields -> AllLists]
  BY <1>1
<1> HIDE DEF F1, F2
<1>7. PICK F \in SUBSET [Fields -> AllLists], D \in SUBSET Days :
        s \in Typed(F, D) /\ (s.symbol # "none" => s.dow = {} /\ ~s.date /\ ~s.time)
  <2>1. \/ s \in [symbol : {"none"}, date : {TRUE}, time : {TRUE}, year : {FALSE},
                  seconds : {FALSE}, fields : F1, dow : {{}}]
        \/ s \in [symbol : {"none"}, date : BOOLEAN, time : BOOLEAN, year : BOOLEAN,
                  seconds : BOOLEAN, fields : F2, dow : Days]
        \/ s \in [symbol : Symbols, date : {FALSE}, time : {FALSE}, year : {FALSE},
                  seconds : {FALSE}, fields : {Star}, dow : {{}}]
    BY DEF Specs, F1, F2
  <2>2. {{}} \subseteq Days
    BY DEF Days
  <2>3. \/ s \in Typed(F1, {{}}) \/ s \in Typed(F2, Days) \/ s \in Typed({Star}, {{}})
    BY <2>1
  <2>4. s.symbol # "none" => s.dow = {} /\ ~s.date /\ ~s.time
    BY <2>1
  <2> HIDE DEF Typed
  <2> QED BY <2>2, <2>3, <2>4, <1>4, <1>5, <1>6
<1>8. s \in Typed([Fields -> AllLists], Days)
  BY <1>7
<1> QED
  BY <1>7, <1>8

LEMMA MeantTyped ==
  ASSUME CalendarTypeOK, NEW f \in Fields
  PROVE  Meant(f) \in AllLists
<1>1. Star \in [Fields -> AllLists] /\ At(0) \in AllLists /\ At(1) \in AllLists
  BY ListsTyped DEF Star
<1>2. ASSUME calendar.symbol # "none" PROVE Meant(f) \in AllLists
  <2>1. calendar.symbol \in Symbols
    BY <1>2 DEF CalendarTypeOK
  <2>2. \A s \in Symbols : Symbolic(s)[f] \in AllLists
    BY <1>1 DEF Symbolic, Symbols, Fields
  <2> QED BY <1>2, <2>1, <2>2 DEF Meant
<1>3. ASSUME calendar.symbol = "none" PROVE Meant(f) \in AllLists
  BY <1>1, <1>3, ListsTyped DEF Meant, CalendarTypeOK, Fields
<1> QED BY <1>2, <1>3

LEMMA CalendarInvInit == CalendarInit => CalendarInv
<1> SUFFICES ASSUME CalendarInit PROVE CalendarInv
  OBVIOUS
<1>1. Star \in [Fields -> AllLists]
  BY ListsTyped DEF Star
<1>2. CalendarTypeOK
  BY <1>1, SpecsTyped DEF CalendarInit, CalendarTypeOK
<1> QED BY <1>2 DEF CalendarInv, CalendarInit, FieldsSame, DaysSame

LEMMA SymbolicTyped ==
  ASSUME NEW symbol \in Symbols
  PROVE  /\ Symbolic(symbol) \in [Fields -> AllLists]
         /\ \A f \in Fields : Symbolic(symbol)[f] \in {<<>>, IF f <= 2 THEN At(0) ELSE At(1)}
<1> DEFINE Good(s) == /\ s \in [Fields -> AllLists]
                      /\ \A f \in Fields : s[f] \in {<<>>, IF f <= 2 THEN At(0) ELSE At(1)}
<1>1. At(0) \in AllLists /\ At(1) \in AllLists /\ <<>> \in AllLists
  BY ListsTyped
<1>2. Good(Star)
  BY <1>1 DEF Star
<1>3. Good([Star EXCEPT ![1] = At(0)])
  BY <1>1 DEF Star, Fields
<1>4. Good([Star EXCEPT ![1] = At(0), ![2] = At(0)])
  BY <1>1 DEF Star, Fields
<1>5. Good([Star EXCEPT ![1] = At(0), ![2] = At(0), ![3] = At(1)])
  BY <1>1 DEF Star, Fields
<1>6. Good(<<At(0), At(0), At(1), At(1)>>)
  <2> DEFINE s == <<At(0), At(0), At(1), At(1)>>
  <2>1. s \in [1..4 -> AllLists]
    BY <1>1
  <2>2. s[1] = At(0) /\ s[2] = At(0) /\ s[3] = At(1) /\ s[4] = At(1)
    OBVIOUS
  <2> QED BY <2>1, <2>2 DEF Fields
<1> HIDE DEF Good
<1>7. Good(Symbolic(symbol))
  BY <1>2, <1>3, <1>4, <1>5, <1>6 DEF Symbolic, Symbols
<1> QED BY <1>7 DEF Good

\* A symbol means the fields that it is converted to.
LEMMA MeantOf ==
  ASSUME CalendarTypeOK, NEW f \in Fields
  PROVE  calendar.symbol # "none" =>
           /\ Meant(f) = Symbolic(calendar.symbol)[f]
           /\ CronOf(Meant(f), f) = SystemdOf(Meant(f), f)
<1> SUFFICES ASSUME calendar.symbol # "none"
             PROVE  /\ Meant(f) = Symbolic(calendar.symbol)[f]
                    /\ CronOf(Meant(f), f) = SystemdOf(Meant(f), f)
  OBVIOUS
<1>1. Meant(f) = Symbolic(calendar.symbol)[f] /\ calendar.symbol \in Symbols
  BY DEF Meant, CalendarTypeOK
<1>2. Meant(f) \in {<<>>, IF f <= 2 THEN At(0) ELSE At(1)}
  BY <1>1, SymbolicTyped
<1>3. \A x \in TimesOf(f) \cap Nat : CronOf(At(x), f) = SystemdOf(At(x), f)
  <2> TAKE x \in TimesOf(f) \cap Nat
  <2>1. At(x) \in AllLists
    BY ListsTyped
  <2>2. \A k \in DOMAIN At(x) : Len(At(x)[k]) = 1 /\ At(x)[k][1] \in TimesOf(f)
    BY OneElement DEF At
  <2> QED BY <2>1, <2>2, NumbersSame
<1>4. (f <= 2 => 0 \in TimesOf(f)) /\ (f > 2 => 1 \in TimesOf(f))
  BY DEF TimesOf, Fields, Low, Size
<1>5. 0 \in Nat /\ 1 \in Nat /\ (f <= 2 \/ f > 2)
  BY DEF Fields
<1>6. CronOf(Meant(f), f) = SystemdOf(Meant(f), f)
  <2>1. CASE Meant(f) = <<>>
    BY <2>1, StarSame
  <2>2. CASE f <= 2 /\ Meant(f) = At(0)
    BY <2>2, <1>3, <1>4, <1>5
  <2>3. CASE f > 2 /\ Meant(f) = At(1)
    BY <2>3, <1>3, <1>4, <1>5
  <2> QED BY <1>2, <1>5, <2>1, <2>2, <2>3
<1> QED BY <1>1, <1>6

LEMMA SymbolStep == CalendarInv /\ ReadSymbol => CalendarInv'
<1> SUFFICES ASSUME CalendarInv, ReadSymbol PROVE CalendarInv'
  OBVIOUS
<1> USE DEF CalendarInv
<1>1. calendar.symbol # "none" /\ calendar' = calendar /\ field' = field /\ outcome' = "converted"
      /\ cron' = Symbolic(calendar.symbol) /\ cronDow' = SymbolicDow(calendar.symbol)
      /\ calendar.symbol \in Symbols /\ calendar.dow = {}
  BY DEF ReadSymbol, CalendarTypeOK
<1>2. \A f \in Fields : cron'[f] = Meant(f) /\ CronOf(cron'[f], f) = SystemdOf(Meant(f), f)
                       /\ Meant(f) \in AllLists
  BY <1>1, MeantOf, MeantTyped
<1>3. cron' \in [Fields -> AllLists]
  BY <1>1, SymbolicTyped
<1>4. CalendarTypeOK'
  BY <1>1, <1>3 DEF CalendarTypeOK
<1>5. \A f \in Fields : Meant(f)' = Meant(f)
  BY <1>1 DEF Meant
<1>6. FieldsSame'
  BY <1>1, <1>2, <1>5 DEF FieldsSame
<1>7. DaysSame'
  BY <1>1 DEF DaysSame, SymbolicDow, CalendarTypeOK
<1> QED BY <1>4, <1>6, <1>7

LEMMA WordsStep == CalendarInv /\ ReadWords => CalendarInv'
<1> SUFFICES ASSUME CalendarInv, ReadWords PROVE CalendarInv'
  OBVIOUS
<1> USE DEF CalendarInv
<1>1. calendar.symbol = "none" /\ calendar' = calendar /\ field' = field
      /\ outcome' \in {"reading", "raised"} /\ cronDow' = calendar.dow
  BY DEF ReadWords
<1>2. cron' = [f \in Fields |-> Meant(f)]
  BY <1>1 DEF ReadWords, Meant
<1>3. \A f \in Fields : Meant(f) \in AllLists /\ Meant(f)' = Meant(f)
  BY <1>1, MeantTyped DEF Meant
<1>4. CalendarTypeOK'
  BY <1>1, <1>2, <1>3 DEF CalendarTypeOK
<1>5. field = 0
  BY DEF ReadWords, FieldsSame
<1>6. FieldsSame'
  BY <1>1, <1>2, <1>3, <1>5 DEF FieldsSame, Fields
<1>7. DaysSame'
  BY <1>1, <1>5 DEF DaysSame
<1> QED BY <1>4, <1>6, <1>7

LEMMA CheckStep == CalendarInv /\ CheckSpec => CalendarInv'
<1> SUFFICES ASSUME CalendarInv, CheckSpec PROVE CalendarInv'
  OBVIOUS
<1> USE DEF CalendarInv
<1>1. calendar' = calendar /\ field = 0 /\ field' = 1 /\ cron' = cron /\ cronDow' = cronDow
      /\ outcome = "reading" /\ outcome' \in {"reading", "raised"}
  BY DEF CheckSpec
<1>2. \A f \in Fields : Meant(f)' = Meant(f)
  BY <1>1 DEF Meant
<1>3. CalendarTypeOK'
  BY <1>1 DEF CalendarTypeOK
<1>4. FieldsSame'
  BY <1>1, <1>2 DEF FieldsSame, Fields
<1>5. DaysSame'
  BY <1>1, <1>2 DEF CheckSpec, DaysSame, FieldsSame, Fields
<1> QED BY <1>3, <1>4, <1>5

LEMMA FieldStep == CalendarInv /\ ConvertField => CalendarInv'
<1> SUFFICES ASSUME CalendarInv, ConvertField PROVE CalendarInv'
  OBVIOUS
<1> USE DEF CalendarInv
<1> DEFINE list == cron[field]
           stepped == {k \in DOMAIN list : Len(list[k]) = 2}
           last == list[CHOOSE k \in stepped : \A j \in stepped : j <= k]
<1>1. calendar' = calendar /\ cronDow' = cronDow /\ outcome = "reading" /\ field \in Fields
  BY DEF ConvertField
<1>2. \A f \in Fields : Meant(f)' = Meant(f)
  BY <1>1 DEF Meant
<1>3. list = Meant(field) /\ list \in AllLists
  BY <1>1, MeantTyped DEF FieldsSame, Fields
<1>4. CASE \E k \in DOMAIN list : ~Converts(list[k])
  <2>1. outcome' = "raised" /\ cron' = cron /\ field' = field
    BY <1>4 DEF ConvertField
  <2> QED BY <1>1, <2>1 DEF CalendarTypeOK, FieldsSame, DaysSame
<1>5. CASE ~\E k \in DOMAIN list : ~Converts(list[k])
  <2> DEFINE new == <<<<last[1], last[1] + Extent(last[1], last[2]), last[2]>>>>
  <2>1. /\ cron' = IF stepped = {} THEN cron ELSE [cron EXCEPT ![field] = new]
        /\ field' = field + 1
        /\ outcome' = IF field = 4 THEN "converted" ELSE outcome
    BY <1>5 DEF ConvertField
  <2>2. \A k \in DOMAIN list : /\ list[k] \in AllElements /\ Converts(list[k])
                               /\ Len(list[k]) = 2 <=> k \in stepped
    BY <1>3, <1>5 DEF AllLists
  <2>3. ASSUME stepped # {}
        PROVE  /\ new \in SteppedLists
               /\ Plain(list) => CronOf(new, field) = SystemdOf(list, field)
    <3> DEFINE k == CHOOSE k \in stepped : \A j \in stepped : j <= k
    <3>1. k \in stepped
      <4>0. stepped # {}
        BY <2>3
      <4>1. stepped \subseteq {1, 2}
        BY <1>3 DEF AllLists
      <4>2. \E i \in stepped : \A j \in stepped : j <= i
        <5> HIDE DEF stepped
        <5>1. CASE 2 \in stepped
          BY <4>1, <5>1
        <5>2. CASE 2 \notin stepped
          <6>1. 1 \in stepped
            BY <4>0, <4>1, <5>2
          <6>2. \A j \in stepped : j <= 1
            BY <4>1, <5>2
          <6> QED BY <6>1, <6>2
        <5> QED BY <5>1, <5>2
      <4> HIDE DEF stepped
      <4> QED BY <4>2
    <3>2. last = list[k] /\ Len(last) = 2 /\ last \in AllElements /\ Converts(last)
      <4>1. last = list[k]
        OBVIOUS
      <4>2. k \in DOMAIN list /\ (Len(list[k]) = 2 <=> k \in stepped)
        BY <3>1
      <4> HIDE DEF k, last
      <4> QED BY <2>2, <3>1, <4>1, <4>2
    <3> HIDE DEF k
    <3>3. PICK x \in Nat, b \in Nat : last = <<x, b>>
      <4> HIDE DEF last
      <4> QED BY <3>2 DEF AllElements
    <3>4. last[1] = x /\ last[2] = b
      BY <3>3
    <3> HIDE DEF last
    <3>5. b > 0 /\ InRange(x)
      BY <3>2, <3>4 DEF Converts
    <3>6. x \in TimesOf(field)
      BY <1>1, <3>5, InRangeIs
    <3>7. PICK e : e = Extent(x, b)
      OBVIOUS
    <3>8. e = ((Size[field] - (x - Low[field]) - 1) \div b) * b
      BY <3>7 DEF Extent
    <3>9. e \in Nat
      BY <1>1, <3>5, <3>6, <3>8, ExtentIsNumber
    <3>10. new = <<<<x, x + e, b>>>>
      BY <3>4, <3>7
    <3> HIDE DEF new
    <3>11. new \in SteppedLists
      <4>1. x + e \in Nat
        BY <3>9
      <4> QED BY <3>10, <4>1 DEF SteppedLists
    <3>12. ASSUME Plain(list) PROVE list = <<<<x, b>>>>
      <4>1. k \in DOMAIN list /\ Len(list[k]) # 1
        BY <3>1
      <4> HIDE DEF list, stepped
      <4>2. ~(Len(list) > 1)
        BY <3>12, <4>1 DEF Plain
      <4>3. PICK element \in AllElements : list = <<element>>
        BY <1>3, <4>1, <4>2 DEF AllLists
      <4>4. last = element
        BY <3>2, <4>1, <4>3
      <4> QED BY <3>3, <4>3, <4>4
    <3>13. CronOf(new, field) = SystemdOf(<<<<x, b>>>>, field)
      BY <1>1, <3>5, <3>6, <3>8, <3>10, StepSame
    <3> HIDE DEF list
    <3> QED BY <3>11, <3>12, <3>13
  <2>4. /\ cron' \in [Fields -> AllLists \cup SteppedLists]
        /\ \A f \in Fields \ {field} : cron'[f] = cron[f]
    <3> HIDE DEF list, last, new, stepped
    <3>1. cron \in [Fields -> AllLists \cup SteppedLists]
      BY DEF CalendarTypeOK
    <3>2. CASE stepped = {}
      BY <2>1, <3>1, <3>2
    <3>3. CASE stepped # {}
      BY <2>1, <2>3, <3>1, <3>3
    <3> QED BY <3>2, <3>3
  <2>5. Plain(list) => CronOf(cron'[field], field) = SystemdOf(list, field)
    <3>1. CASE stepped = {}
      <4>1. \A k \in DOMAIN list : Len(list[k]) = 1 /\ list[k][1] \in TimesOf(field)
        <5> TAKE k \in DOMAIN list
        <5>1. Len(list[k]) # 2 /\ list[k] \in AllElements /\ InRange(list[k][1])
          BY <2>2, <3>1 DEF Converts
        <5>2. PICK x \in Nat : list[k] = <<x>>
          BY <5>1 DEF AllElements
        <5> QED BY <1>1, <5>1, <5>2, InRangeIs
      <4>2. cron'[field] = list
        <5> HIDE DEF new, last
        <5> QED BY <2>1, <3>1
      <4> HIDE DEF list
      <4> QED BY <1>1, <1>3, <4>1, <4>2, NumbersSame
    <3>2. CASE stepped # {}
      <4> HIDE DEF new, stepped, list
      <4>1. cron'[field] = new
        BY <1>1, <2>1, <3>2 DEF CalendarTypeOK
      <4> QED BY <2>3, <3>2, <4>1
    <3> QED BY <3>1, <3>2
  <2>6. CalendarTypeOK'
    <3> HIDE DEF new, stepped, list
    <3>1. field' \in 0..5 /\ outcome' \in {"words", "reading", "converted", "raised"}
      BY <1>1, <2>1 DEF Fields
    <3> QED BY <1>1, <2>4, <3>1 DEF CalendarTypeOK
  <2>7. FieldsSame'
    <3> HIDE DEF list, new, stepped
    <3>1. \A f \in Fields : f >= field + 1 => cron'[f] = Meant(f)
      BY <1>1, <2>4 DEF FieldsSame, Fields
    <3>2. \A f \in Fields : f < field + 1 /\ Plain(Meant(f)) =>
                              CronOf(cron'[f], f) = SystemdOf(Meant(f), f)
      <4> SUFFICES ASSUME NEW f \in Fields, f < field + 1, Plain(Meant(f))
                   PROVE  CronOf(cron'[f], f) = SystemdOf(Meant(f), f)
        OBVIOUS
      <4>1. CASE f = field
        BY <4>1, <1>3, <2>5
      <4>2. CASE f # field
        BY <4>2, <1>1, <2>4 DEF FieldsSame, Fields
      <4> QED BY <4>1, <4>2
    <3> QED BY <1>1, <1>2, <2>1, <3>1, <3>2 DEF FieldsSame, Fields
  <2>8. DaysSame'
    BY <1>1, <1>2, <2>1 DEF DaysSame, Fields
  <2> QED BY <2>6, <2>7, <2>8
<1> QED BY <1>4, <1>5

LEMMA CalendarInvStep == CalendarInv /\ [CalendarNext]_calendarVars => CalendarInv'
<1> SUFFICES ASSUME CalendarInv, UNCHANGED calendarVars PROVE CalendarInv'
  BY SymbolStep, WordsStep, CheckStep, FieldStep DEF CalendarNext
<1>1. \A f \in Fields : Meant(f)' = Meant(f)
  BY DEF Meant, calendarVars
<1> QED BY <1>1 DEF CalendarInv, CalendarTypeOK, FieldsSame, DaysSame, Fields, calendarVars

LEMMA SameTimesHold == CalendarInv => SameTimes
<1> SUFFICES ASSUME CalendarInv, outcome = "converted", calendar.symbol # "weekly",
                    \A d \in calendar.dow : 0 \in {d[1], d[Len(d)]} => Len(d) = 1,
                    \A f \in Fields : LET list == calendar.fields[f] IN
                       Len(list) > 1 => \A k \in DOMAIN list : Len(list[k]) = 1
             PROVE  (\A f \in Fields : CronTimes(f) = SystemdTimes(f)) /\ CronDays = SystemdDays
  BY DEF SameTimes
<1> USE DEF CalendarInv
<1>1. \A f \in Fields : CronTimes(f) = SystemdTimes(f)
  <2> SUFFICES ASSUME NEW f \in Fields PROVE Plain(Meant(f))
    BY TimesAre DEF FieldsSame
  <2>1. CASE calendar.symbol # "none"
    BY <2>1, SymbolicTyped DEF Meant, CalendarTypeOK, Plain, At
  <2>2. CASE calendar.symbol = "none"
    BY <2>2 DEF Meant, Plain, At
  <2> QED BY <2>1, <2>2
<1>2. 3 \in Fields
  BY DEF Fields
<1>3. CASE calendar.dow = {}
  BY <1>1, <1>2, <1>3 DEF CronDays, SystemdDays, DaysSame
<1>4. CASE calendar.dow # {}
  <2>1. TimesOf(3) = SystemdTimes(3)
    BY <1>4 DEF DaysSame, SystemdTimes
  <2> DEFINE C == UNION {d[1]..d[Len(d)] : d \in calendar.dow}
             S == {w \in Weekdays :
                    \E d \in calendar.dow : Place(w) \in Place(d[1])..Place(d[Len(d)])}
  <2>2. calendar.dow \in Days \ {{}, {<<5, 0>>}, {<<0, 2>>}}
    <3>1. calendar.dow \in Days
      BY DEF CalendarTypeOK
    <3>2. calendar.dow # {<<5, 0>>}
      <4> SUFFICES ASSUME calendar.dow = {<<5, 0>>} PROVE FALSE
        OBVIOUS
      <4>1. PICK d : d = <<5, 0>>
        OBVIOUS
      <4>2. d[Len(d)] = 0 /\ Len(d) = 2
        BY <4>1
      <4> QED BY <4>1, <4>2
    <3>3. calendar.dow # {<<0, 2>>}
      <4> SUFFICES ASSUME calendar.dow = {<<0, 2>>} PROVE FALSE
        OBVIOUS
      <4>1. PICK d : d = <<0, 2>>
        OBVIOUS
      <4>2. d[1] = 0 /\ Len(d) = 2
        BY <4>1
      <4> QED BY <4>1, <4>2
    <3> QED BY <1>4, <3>1, <3>2, <3>3
  <2>3. \A w \in Weekdays : w \in C <=> w \in S
    <3> SUFFICES ASSUME NEW w \in Weekdays PROVE w \in C <=> w \in S
      OBVIOUS
    <3>1. /\ Place(0) = 6 /\ Place(1) = 0 /\ Place(2) = 1 /\ Place(3) = 2
          /\ Place(4) = 3 /\ Place(5) = 4 /\ Place(6) = 5
      BY DEF Place
    <3>5. w = 0 \/ w = 1 \/ w = 2 \/ w = 3 \/ w = 4 \/ w = 5 \/ w = 6
      BY DEF Weekdays
    <3>2. CASE calendar.dow = {<<0>>}
      <4>1. PICK d : d = <<0>>
        OBVIOUS
      <4>2. Len(d) = 1 /\ d[1] = 0
        BY <4>1
      <4>3. calendar.dow = {d}
        BY <3>2, <4>1
      <4>4. w \in C <=> w \in 0..0
        BY <4>2, <4>3
      <4>5. w \in S <=> Place(w) \in Place(0)..Place(0)
        BY <4>2, <4>3
      <4> HIDE DEF C, S
      <4> QED BY <3>1, <3>5, <4>4, <4>5
    <3>3. CASE calendar.dow = {<<1>>, <<6>>}
      <4>1. PICK d, e : d = <<1>> /\ e = <<6>>
        OBVIOUS
      <4>2. Len(d) = 1 /\ d[1] = 1 /\ Len(e) = 1 /\ e[1] = 6
        BY <4>1
      <4>3. calendar.dow = {d, e}
        BY <3>3, <4>1
      <4>4. w \in C <=> w \in 1..1 \/ w \in 6..6
        BY <4>2, <4>3
      <4>5. w \in S <=> Place(w) \in Place(1)..Place(1) \/ Place(w) \in Place(6)..Place(6)
        BY <4>2, <4>3
      <4> HIDE DEF C, S
      <4> QED BY <3>1, <3>5, <4>4, <4>5
    <3>4. CASE calendar.dow = {<<1, 4>>, <<0>>}
      <4>1. PICK d, e : d = <<1, 4>> /\ e = <<0>>
        OBVIOUS
      <4>2. Len(d) = 2 /\ d[1] = 1 /\ d[2] = 4 /\ Len(e) = 1 /\ e[1] = 0
        BY <4>1
      <4>3. calendar.dow = {d, e}
        BY <3>4, <4>1
      <4>4. w \in C <=> w \in 1..4 \/ w \in 0..0
        BY <4>2, <4>3
      <4>5. w \in S <=> Place(w) \in Place(1)..Place(4) \/ Place(w) \in Place(0)..Place(0)
        BY <4>2, <4>3
      <4> HIDE DEF C, S
      <4> QED BY <3>1, <3>5, <4>4, <4>5
    <3> QED BY <2>2, <3>2, <3>3, <3>4 DEF Days
  <2>4. CronDays = {date \in TimesOf(3) \X Weekdays : date[2] \in C}
    <3> HIDE DEF S
    <3> QED BY <1>4 DEF CronDays, DaysSame
  <2>5. SystemdDays = {date \in TimesOf(3) \X Weekdays : date[1] \in TimesOf(3) /\ date[2] \in S}
    <3> HIDE DEF C
    <3> QED BY <1>4, <2>1 DEF SystemdDays
  <2> HIDE DEF C, S
  <2>6. CronDays = SystemdDays
    BY <2>3, <2>4, <2>5
  <2> QED BY <1>1, <2>6
<1> QED BY <1>1, <1>3, <1>4

\* For any numbers in the lists of two elements: a calendar that is converted keeps its
\* times, in each field, and its days.
THEOREM CalendarIsKept == CalendarSpec => []SameTimes
<1>1. CalendarSpec => []CalendarInv
  BY CalendarInvInit, CalendarInvStep, PTL DEF CalendarSpec
<1> QED
  BY <1>1, SameTimesHold, PTL

------------------------------------------------------------------------------
(* Parameters of an instance (InstanceParameters)                           *)

GivenAnswers ==
  [schema : Schemas, hasShared : BOOLEAN, setDefault : Switches, validate : Switches,
   shared : [References -> Instances], main : MainInstances]

\* The branches of a schema that an instance is of, and Conforms of a schema.
Branches(instance, schema) ==
  {kind \in Kinds : PropertiesHold(instance, kind) /\ (schema.required => instance.kind # Absent)}
Fits(instance, schema) ==
  /\ Branches(instance, schema) # {}
  /\ schema.any \/ Cardinality(Branches(instance, schema)) = 1

ParametersTypeOK ==
  /\ given \in GivenAnswers
  /\ step \in {"shared", "main", "end", "raised"} /\ done \in 0..SharedCount

\* The lists that are made, in the words of the schema of the answer.
ListsSound ==
  /\ DOMAIN valid \cap DOMAIN invalid = {} /\ DOMAIN valid \cup DOMAIN invalid = 1..done
  /\ \A r \in DOMAIN valid : Fits(valid[r], given.schema) /\ Extends(valid[r], given.shared[r])
  /\ \A r \in DOMAIN invalid :
       ~Fits(invalid[r], given.schema) /\ Extends(invalid[r], given.shared[r])

AllChecked == done = SharedCount \/ ~For(given.validate, "shared")

\* What may have failed the recipe.
Raised ==
  /\ step \in {"main", "end"} => AllChecked
  /\ step = "raised" /\ given.hasShared =>
       \/ For(given.validate, "main") /\ AllChecked
       \/ For(given.setDefault, "shared") /\ given.schema.any /\ ~given.schema.required
          /\ given.shared[done + 1].kind = Absent

ParametersInv == ParametersTypeOK /\ ListsSound /\ Raised

LEMMA ConformsFits == \A instance : Conforms(instance) <=> Fits(instance, given.schema)
  BY DEF Conforms, Fits, Branches

\* No default is in conflict with another if the kind of the instance is given, or if one
\* branch only may hold.
LEMMA ConflictOfDefaults ==
  ASSUME NEW instance \in Instances, given \in GivenAnswers, instance.value = Absent,
         Fits(instance, given.schema), Cardinality(Defaults(instance)) > 1
  PROVE  given.schema.any /\ ~given.schema.required /\ instance.kind = Absent
<1> DEFINE B == Branches(instance, given.schema)
<1>1. instance.kind = Absent
  <2> SUFFICES ASSUME instance.kind # Absent PROVE FALSE
    OBVIOUS
  <2> DEFINE d == given.schema.default[instance.kind]
  <2>1. Defaults(instance) \subseteq {d}
    BY DEF Defaults, PropertiesHold
  <2>2. IsFiniteSet({d}) /\ Cardinality({d}) = 1
    BY FS_Singleton
  <2>3. Cardinality(Defaults(instance)) <= 1
    BY <2>1, <2>2, FS_Subset
  <2>4. Cardinality(Defaults(instance)) \in Nat
    BY <2>1, <2>2, FS_Subset, FS_CardinalityType
  <2> QED
    BY <2>3, <2>4
<1>2. ~given.schema.required
  BY <1>1 DEF Fits, Branches
<1>3. B = Kinds
  BY <1>1, <1>2 DEF Branches, PropertiesHold
<1>4. B = {"a"} \cup {"b"}
  BY <1>3 DEF Kinds
<1>5. Cardinality(B) # 1
  <2>1. IsFiniteSet({"b"}) /\ Cardinality({"b"}) = 1
    BY FS_Singleton
  <2>2. Cardinality({"b"} \cup {"a"}) = Cardinality({"b"}) + 1
    BY <2>1, FS_AddElement
  <2>3. {"b"} \cup {"a"} = B
    BY <1>4
  <2> QED
    BY <2>1, <2>2, <2>3
<1> QED
  BY <1>1, <1>2, <1>5 DEF Fits

\* What Validate says of an instance of the answer.
LEMMA ValidateSound ==
  ASSUME NEW instance \in Instances, NEW default \in BOOLEAN, given \in GivenAnswers
  PROVE  LET checked == Validate(instance, default) IN
         /\ checked.result \in {"errors", "raises", "valid"}
         /\ Extends(checked.instance, instance)
         /\ checked.result = "valid" => Fits(checked.instance, given.schema)
         /\ checked.result = "errors" => ~Fits(checked.instance, given.schema)
         /\ checked.result = "raises" =>
              default /\ given.schema.any /\ ~given.schema.required /\ instance.kind = Absent
<1> DEFINE defaults == IF default /\ instance.value = Absent THEN Defaults(instance) ELSE {}
           updated == IF defaults = {} THEN instance
                      ELSE [instance EXCEPT !.value = CHOOSE d \in defaults : TRUE]
<1>1. Extends(instance, instance)
  BY DEF Extends
<1>2. Extends(updated, instance)
  BY DEF Extends, Instances
<1> HIDE DEF updated
<1>3. CASE ~Conforms(instance)
  BY <1>1, <1>3, ConformsFits DEF Validate
<1>4. CASE Conforms(instance) /\ Cardinality(defaults) > 1
  <2>1. Cardinality({}) = 0
    BY FS_EmptySet
  <2>2. default /\ instance.value = Absent /\ Cardinality(Defaults(instance)) > 1
    BY <1>4, <2>1
  <2>3. given.schema.any /\ ~given.schema.required /\ instance.kind = Absent
    BY <1>4, <2>2, ConflictOfDefaults, ConformsFits
  <2> QED
    BY <1>1, <1>4, <2>2, <2>3 DEF Validate
<1>5. CASE Conforms(instance) /\ ~(Cardinality(defaults) > 1)
  <2>1. Validate(instance, default) =
          [result |-> IF Conforms(updated) THEN "valid" ELSE "errors", instance |-> updated]
    BY <1>5 DEF Validate, updated
  <2> QED
    BY <1>2, <2>1, ConformsFits
<1> QED
  BY <1>3, <1>4, <1>5

LEMMA ParametersInvInit == ParametersInit => ParametersInv
<1> SUFFICES ASSUME ParametersInit PROVE ParametersInv
  OBVIOUS
<1>1. ParametersTypeOK
  BY ParametersAssumption DEF ParametersInit, ParametersTypeOK, GivenAnswers
<1>2. ListsSound
  BY DEF ParametersInit, ListsSound, Nobody
<1> QED
  BY <1>1, <1>2 DEF ParametersInit, ParametersInv, Raised

LEMMA ParametersInvStep == ParametersInv /\ [ParametersNext]_parametersVars => ParametersInv'
<1> SUFFICES ASSUME ParametersInv, [ParametersNext]_parametersVars
             PROVE  ParametersInv'
  OBVIOUS
<1> USE ParametersAssumption DEF ParametersInv, ParametersTypeOK
<1>1. CASE NoSharedSchema
  BY <1>1 DEF NoSharedSchema, ListsSound, Raised, AllChecked
<1>2. CASE ParseShared
  <2> DEFINE r == done + 1
             checked == Validate(given.shared[r], For(given.setDefault, "shared"))
             Add(list) == [k \in DOMAIN list \cup {r} |->
                           IF k = r THEN checked.instance ELSE list[k]]
  <2>1. /\ step = "shared" /\ For(given.validate, "shared") /\ done < SharedCount
        /\ given.hasShared /\ given' = given
    BY <1>2 DEF ParseShared
  <2>2. given.shared[r] \in Instances /\ r \in 1..SharedCount /\ r \notin 1..done
    BY <2>1 DEF GivenAnswers, References
  <2> PICK default \in BOOLEAN : default = For(given.setDefault, "shared")
    <3>1. CASE For(given.setDefault, "shared")
      BY <3>1 DEF For
    <3>2. CASE ~For(given.setDefault, "shared")
      <4>1. For(given.setDefault, "shared") = FALSE
        BY <3>2 DEF For
      <4> QED
        BY <4>1, Zenon
    <3> QED
      BY <3>1, <3>2
  <2> PICK instance \in Instances : instance = given.shared[r]
    BY <2>2
  <2> PICK new : new = Validate(instance, default)
    OBVIOUS
  <2>3. /\ new.result \in {"errors", "raises", "valid"}
        /\ Extends(new.instance, instance)
        /\ new.result = "valid" => Fits(new.instance, given.schema)
        /\ new.result = "errors" => ~Fits(new.instance, given.schema)
        /\ new.result = "raises" =>
             default /\ given.schema.any /\ ~given.schema.required /\ instance.kind = Absent
    BY ValidateSound
  <2>4. new = checked
    OBVIOUS
  <2>6. \/ /\ new.result = "raises" /\ step' = "raised" /\ UNCHANGED <<done, valid, invalid>>
        \/ /\ new.result = "valid" /\ done' = r /\ UNCHANGED <<step, invalid>>
           /\ valid' = [k \in DOMAIN valid \cup {r} |-> IF k = r THEN new.instance ELSE valid[k]]
        \/ /\ new.result = "errors" /\ done' = r /\ UNCHANGED <<step, valid>>
           /\ invalid' = [k \in DOMAIN invalid \cup {r} |->
                           IF k = r THEN new.instance ELSE invalid[k]]
    BY <1>2, <2>3, <2>4 DEF ParseShared
  <2> HIDE DEF checked
  <2>7. ParametersTypeOK'
    BY <2>1, <2>2, <2>6
  <2>8. 1..(done + 1) = 1..done \cup {done + 1}
    OBVIOUS
  <2>9. ListsSound'
    BY <2>1, <2>2, <2>3, <2>6, <2>8 DEF ListsSound
  <2>10. Raised'
    BY <2>1, <2>3, <2>6 DEF Raised, AllChecked
  <2> QED
    BY <2>7, <2>9, <2>10
<1>3. CASE SharedDone
  BY <1>3 DEF SharedDone, ListsSound, Raised, AllChecked
<1>4. CASE ParseMain
  <2>1. /\ step = "main" /\ UNCHANGED <<given, done, valid, invalid>>
        /\ step' \in {"end", "raised"} /\ (step' = "raised" => For(given.validate, "main"))
    BY <1>4 DEF ParseMain
  <2> QED
    BY <2>1 DEF ListsSound, Raised, AllChecked
<1>5. CASE UNCHANGED parametersVars
  BY <1>5 DEF parametersVars, ListsSound, Raised, AllChecked
<1> QED
  BY <1>1, <1>2, <1>3, <1>4, <1>5 DEF ParametersNext

\* For any number of shared instances, schema and switches: each shared instance that was
\* checked is in the list where it belongs, and one that is wrong keeps no other from being
\* served.
THEOREM EachIsSorted == ParametersSpec => []SharedSorted
<1>1. ParametersInv => SharedSorted
  BY ConformsFits DEF ParametersInv, ListsSound, Raised, AllChecked, SharedSorted
<1> QED
  BY <1>1, ParametersInvInit, ParametersInvStep, PTL DEF ParametersSpec

------------------------------------------------------------------------------
(* Publication of the parameters of shared instances (Publication)          *)

Steps == {"idle", "uninstall", "forget", "parts", "call", "failed", "succeeded", "record"}

\* A part is being installed or updated.
AtPart == run.at \in {"call", "failed", "succeeded", "record"}

RunTyped ==
  /\ run \in [at : Steps, s : Shared \cup {"nobody"}, todo : SUBSET Shared,
              options : [Shared -> Nat] \cup {<<>>}]
  /\ run.at # "idle" => run.options \in [Shared -> Nat]
  /\ AtPart \/ run.at = "forget" => run.s \in Shared

PublicationTypeOK ==
  /\ information \in [Shared -> Nat] /\ public \in [Shared -> Nat]
  /\ recorded \in [Shared -> Nat] /\ statusFile \subseteq Shared /\ cut \subseteq Shared
  /\ RunTyped

\* Once a pass has uninstalled what it had to, no part is recorded with other options.
RecordsCurrent ==
  /\ run.at \in {"uninstall", "forget"} =>
       \A s \in Shared \ run.todo : recorded[s] \in {0, run.options[s]}
  /\ run.at \in {"parts"} \/ AtPart => \A s \in Shared : recorded[s] \in {0, run.options[s]}

\* A part that calls the master is new, or has its error status file until it succeeds;
\* the one that is about to be recorded has been published, or has that file.
CallsSound ==
  /\ run.at \in {"call", "failed", "succeeded"} => recorded[run.s] = 0 \/ run.s \in statusFile
  /\ run.at = "succeeded" => public[run.s] = run.options[run.s]
  /\ run.at = "record" => public[run.s] = run.options[run.s] \/ run.s \in statusFile

PublicationInv == PublicationTypeOK /\ RecordsCurrent /\ CallsSound /\ PublishedOrRetried

LEMMA PublicationInvInit == PublicationInit => PublicationInv
  BY DEF PublicationInit, NoRun, PublicationInv, PublicationTypeOK, RunTyped, AtPart, Steps,
         RecordsCurrent, CallsSound, PublishedOrRetried

LEMMA PublicationInvStep == PublicationInv /\ [PublicationNext]_publicationVars => PublicationInv'
<1> SUFFICES ASSUME PublicationInv, [PublicationNext]_publicationVars
             PROVE  PublicationInv'
  OBVIOUS
<1> USE DEF PublicationInv, PublicationTypeOK, RunTyped, AtPart, Steps, RecordsCurrent,
            CallsSound, PublishedOrRetried
<1>1. CASE StartRun
  <2>1. /\ UNCHANGED <<information, public, statusFile, recorded, cut>>
        /\ run.at = "idle"
    BY <1>1 DEF StartRun
  <2>2. run' = [at |-> "uninstall", s |-> "nobody", options |-> information,
                todo |-> {s \in Shared : recorded[s] \notin {0, information[s]}}]
    BY <1>1 DEF StartRun, NoRun
  <2> QED
    BY <2>1, <2>2
<1>2. CASE UninstalledAll
  BY <1>2 DEF UninstalledAll
<1>3. CASE WriteStatus
  BY <1>3 DEF WriteStatus
<1>4. CASE RecordPart
  BY <1>4 DEF RecordPart
<1>5. CASE EndRun
  BY <1>5 DEF EndRun, NoRun
<1>6. CASE KillRun
  BY <1>6 DEF KillRun, NoRun
<1>7. ASSUME NEW fails \in BOOLEAN, NEW sent \in BOOLEAN, SetConnection(fails, sent)
      PROVE  PublicationInv'
  \* The master has what it had, or the options of the part, which no other part has.
  <2>1. /\ run.s \in Shared /\ run.at = "call" /\ run.options[run.s] \in Nat
        /\ UNCHANGED <<information, statusFile, recorded, cut>>
        /\ run' = [run EXCEPT !.at = IF fails THEN "failed" ELSE "succeeded"]
        /\ public' \in {public, [public EXCEPT ![run.s] = run.options[run.s]]}
        /\ ~fails => public' = [public EXCEPT ![run.s] = run.options[run.s]]
    BY <1>7 DEF SetConnection
  <2> QED
    BY <2>1
<1>8. ASSUME NEW s \in Shared, UninstallPart(s)
      PROVE  PublicationInv'
  BY <1>8 DEF UninstallPart
<1>9. ASSUME NEW s \in Shared, InstallPart(s)
      PROVE  PublicationInv'
  BY <1>9 DEF InstallPart
<1>10. ASSUME NEW s \in Shared, UpdatePart(s)
       PROVE  PublicationInv'
  BY <1>10 DEF UpdatePart
<1>11. ASSUME NEW s \in Shared, NEW new \in 1..MaxInformation, NewInformation(s, new)
       PROVE  PublicationInv'
  BY <1>11 DEF NewInformation
<1>12. ASSUME NEW s \in Shared, DestroyShared(s)
       PROVE  PublicationInv'
  BY <1>12 DEF DestroyShared
<1>13. CASE ForgetPart
  <2>1. /\ run.at = "forget" /\ run.s \in Shared /\ run.options \in [Shared -> Nat]
        /\ UNCHANGED <<information, public, statusFile>>
        /\ recorded' = [recorded EXCEPT ![run.s] = 0] /\ cut' = cut \ {run.s}
    BY <1>13 DEF ForgetPart
  <2>2. run' = [at |-> "uninstall", s |-> "nobody", todo |-> run.todo \ {run.s},
                options |-> run.options]
    BY <1>13 DEF ForgetPart
  <2> QED
    BY <2>1, <2>2
<1>14. CASE UNCHANGED publicationVars
  BY <1>14 DEF publicationVars
<1> QED
  BY <1>1, <1>2, <1>3, <1>4, <1>5, <1>6, <1>7, <1>8, <1>9, <1>10, <1>11, <1>12,
     <1>13, <1>14
  DEF PublicationNext

\* For any number of shared instances, errors of the master, kills and changes: what is
\* recorded of a shared instance is published, or its part tries again, or it is being
\* uninstalled, or a pass was killed in that.
THEOREM PublishedInTheEnd == PublicationSpec => []PublishedOrRetried
<1>1. PublicationInv => PublishedOrRetried
  BY DEF PublicationInv
<1> QED
  BY <1>1, PublicationInvInit, PublicationInvStep, PTL DEF PublicationSpec

------------------------------------------------------------------------------
(* What a user keeps in the partition (UserConfiguration)                   *)

KnownValues == {"profile", "user", "nobody"} \X Nat

UserTypeOK ==
  /\ profile \in [ProfileKeys -> KnownValues] /\ knowledge \in [ProfileKeys -> KnownValues]
  /\ configured \in [ProfileKeys -> KnownValues]
  /\ chosen \in [ProfileKeys -> KnownValues] /\ seen \in [ProfileKeys -> KnownValues]
  /\ parser \in [values : [ProfileKeys -> KnownValues], section : BOOLEAN, full : BOOLEAN]
  /\ section \in BOOLEAN
  /\ writer \in {"idle", "read", "installing", "opened"}
  /\ count \in [edits : Nat, upgrades : Nat, kills : Nat, errors : Nat]

\* What the user has set is what a pass is about to write, and there is a section to write
\* it in: a file without one has nothing of his. While a file is opened it has none.
ParserKeeps ==
  /\ writer = "opened" => ~section
  /\ writer \in {"installing", "opened"} =>
       \A k \in ProfileKeys \ Mixed :
         chosen[k] # Unknown => parser.values[k] = chosen[k] /\ parser.section
  /\ writer # "opened" /\ ~section => \A k \in ProfileKeys \ Mixed : chosen[k] = Unknown

UserInv == UserTypeOK /\ ParserKeeps /\ UserKeeps

LEMMA UserNotUnknown == \A n : <<"user", n>> # Unknown
<1> SUFFICES ASSUME NEW n, NEW v, v = <<"user", n>>, v = Unknown PROVE FALSE
  OBVIOUS
<1>1. v[1] = "user"
  OBVIOUS
<1>2. v[1] = "nobody"
  BY DEF Unknown
<1> QED
  BY <1>1, <1>2

LEMMA UserInvInit == UserInit => UserInv
<1> SUFFICES ASSUME UserInit PROVE UserInv
  OBVIOUS
<1>1. Unknown \in KnownValues /\ <<"profile", 1>> \in KnownValues
  BY DEF Unknown, KnownValues
<1>2. None \in [ProfileKeys -> KnownValues] /\ \A k \in ProfileKeys : None[k] = Unknown
  BY <1>1 DEF None
<1> QED
  BY <1>1, <1>2 DEF UserInit, UserInv, UserTypeOK, ParserKeeps, UserKeeps, EmptyParser

LEMMA UserInvStep == UserInv /\ [UserNext]_userVars => UserInv'
<1> SUFFICES ASSUME UserInv, [UserNext]_userVars
             PROVE  UserInv'
  OBVIOUS
<1>0. Unknown \in KnownValues /\ None = [k \in ProfileKeys |-> Unknown]
  BY DEF Unknown, None, KnownValues
<1> USE <1>0 DEF UserInv, UserTypeOK, ParserKeeps, UserKeeps
<1>01. \A p \in {Full, EmptyParser} :
         p \in [values : [ProfileKeys -> KnownValues], section : BOOLEAN, full : BOOLEAN]
  <2>1. None \in [ProfileKeys -> KnownValues] /\ profile \in [ProfileKeys -> KnownValues]
    OBVIOUS
  <2>2. \A values \in [ProfileKeys -> KnownValues] : \A b \in BOOLEAN :
          [values |-> values, section |-> b, full |-> b]
            \in [values : [ProfileKeys -> KnownValues], section : BOOLEAN, full : BOOLEAN]
    BY ONLY TRUE
  <2> QED
    BY ONLY <2>1, <2>2 DEF Full, EmptyParser
<1>1. CASE ReadOptions
  BY <1>1 DEF ReadOptions, IOFails
<1>2. CASE InstallRead
  BY <1>2 DEF InstallRead, Kept
<1>3. CASE FullInstall
  <2>1. /\ writer = "read" /\ writer' = "installing"
        /\ UNCHANGED <<profile, knowledge, section, configured, seen>>
        /\ \/ ~section /\ chosen' = chosen
           \/ chosen' = [k \in ProfileKeys |-> Unknown]
    BY <1>3 DEF FullInstall
  <2>2. parser' \in [values : [ProfileKeys -> KnownValues], section : BOOLEAN, full : BOOLEAN]
    <3>1. parser' \in {Full, EmptyParser}
      BY <1>3 DEF FullInstall
    <3> QED
      BY <3>1, <1>01
  <2>3. count' \in [edits : Nat, upgrades : Nat, kills : Nat, errors : Nat]
    BY <1>3 DEF FullInstall, IOFails
  <2> QED
    BY <2>1, <2>2, <2>3
<1>4. CASE OpenKnowledge
  BY <1>4 DEF OpenKnowledge
<1>5. CASE WriteKnowledge
  BY <1>5 DEF WriteKnowledge
<1>6. CASE KillWriter
  BY <1>6 DEF KillWriter
<1>7. ASSUME NEW k \in ProfileKeys, Edit(k)
      PROVE  UserInv'
  <2>1. count'.edits \in Nat
    BY <1>7 DEF Edit
  <2>2. <<"user", count'.edits>> \in KnownValues
    BY <2>1 DEF KnownValues
  <2>3. <<"user", count'.edits>> # Unknown
    BY UserNotUnknown
  <2>4. UserTypeOK'
    BY <1>7, <2>1, <2>2 DEF Edit
  <2> QED
    BY <1>7, <2>3, <2>4 DEF Edit
<1>8. ASSUME NEW k \in ProfileKeys, Upgrade(k)
      PROVE  UserInv'
  <2>1. <<"profile", count'.upgrades + 1>> \in KnownValues
    BY <1>8 DEF Upgrade, KnownValues
  <2> QED
    BY <1>8, <2>1 DEF Upgrade
<1>9. CASE FailWrite
  <2>1. /\ writer \in {"installing", "opened"}
        /\ UNCHANGED <<profile, knowledge, section, configured, seen>>
        /\ \/ writer = "installing" /\ writer' = "idle" /\ chosen' = chosen
           \/ writer' \in {"idle", "installing"} /\ chosen' = [k \in ProfileKeys |-> Unknown]
    BY <1>9 DEF FailWrite
  <2>2. parser' \in [values : [ProfileKeys -> KnownValues], section : BOOLEAN, full : BOOLEAN]
    <3>1. parser' \in {Full, parser}
      BY <1>9 DEF FailWrite
    <3> QED
      BY <3>1, <1>01
  <2>3. count' \in [edits : Nat, upgrades : Nat, kills : Nat, errors : Nat]
    BY <1>9 DEF FailWrite, IOFails
  <2> QED
    BY <2>1, <2>2, <2>3
<1>10. CASE UNCHANGED userVars
  BY <1>10 DEF userVars
<1> QED
  BY <1>1, <1>2, <1>3, <1>4, <1>5, <1>6, <1>7, <1>8, <1>9, <1>10 DEF UserNext

\* For any keys, edits, upgrades, kills and errors of the file system: what a user sets
\* stays, but for what the property excepts.
THEOREM UserIsHeard == UserSpec => []UserKeeps
<1>1. UserInv => UserKeeps
  BY DEF UserInv
<1> QED
  BY <1>1, UserInvInit, UserInvStep, PTL DEF UserSpec

------------------------------------------------------------------------------
(* Configuration of a partition (PartitionConfiguration)                    *)

\* Records of these fields; what the names are does not matter here.
OptionsTyped(o) ==
  /\ o = [number |-> o.number, type |-> o.type, storage |-> o.storage, names |-> o.names]
  /\ o.storage \subseteq Volumes

PartitionSteps == {"idle", "list", "storage", "switch", "sub", "uninstall", "end"}

PartitionTypeOK ==
  /\ conf = [at |-> conf.at, options |-> conf.options, todo |-> conf.todo,
             profile |-> conf.profile, sub |-> conf.sub]
  /\ conf.at \in PartitionSteps
  /\ OptionsTyped(conf.options)
  /\ parts = [p \in DOMAIN parts |-> parts[p]]

\* What was read of the volumes is linked for good; the parts are those of the software type
\* that was read, and each is given what was read.
PassOfOneAnswer ==
  /\ conf.options.storage \subseteq dataLinks
  /\ conf.at \in {"sub", "uninstall", "end"} => conf.profile = Profile(conf.options.type)
  /\ conf.at \in {"uninstall", "end"} => conf.sub = conf.options

\* At the end no part is missing, or left of another pass.
AllInstalled ==
  conf.at = "end" =>
    DOMAIN parts = Parts(conf.profile) /\ \A p \in DOMAIN parts : parts[p] = conf.sub

PartitionInv == PartitionTypeOK /\ PassOfOneAnswer /\ AllInstalled

LEMMA PartitionInvInit == PartitionInit => PartitionInv
  BY DEF PartitionInit, PartitionInv, PartitionTypeOK, OptionsTyped, PassOfOneAnswer, AllInstalled,
         Rest, NoOptions, PartitionSteps

LEMMA PartitionInvStep == PartitionInv /\ [PartitionNext]_partitionVars => PartitionInv'
<1> SUFFICES ASSUME PartitionInv, [PartitionNext]_partitionVars
             PROVE  PartitionInv'
  OBVIOUS
<1> USE DEF PartitionInv, PartitionTypeOK, OptionsTyped, PassOfOneAnswer, AllInstalled,
            PartitionSteps
<1>1. CASE Fetch
  BY <1>1 DEF Fetch, Rest, NoOptions
<1>2. CASE ListStorage
  BY <1>2 DEF ListStorage
<1>3. ASSUME NEW v \in Volumes, LinkStorage(v)
      PROVE  PartitionInv'
  BY <1>3 DEF LinkStorage
<1>4. CASE AddResources
  BY <1>4 DEF AddResources
<1>5. CASE Switch
  BY <1>5 DEF Switch, Rest, NoOptions
<1>6. CASE SubBuildout
  BY <1>6 DEF SubBuildout, NoOp
<1>7. ASSUME NEW p \in {"common", "program", "importer"}, UninstallStale(p) \/ InstallMissing(p)
      PROVE  PartitionInv'
  BY <1>7 DEF UninstallStale, InstallMissing
<1>8. CASE EndPass
  BY <1>8 DEF EndPass, Stale
<1>9. CASE NewAnswer \/ ChangeVolumes
  BY <1>9 DEF NewAnswer, ChangeVolumes
<1>10. CASE KillPartition
  BY <1>10 DEF KillPartition, Rest, NoOptions
<1>11. CASE UNCHANGED partitionVars
  BY <1>11 DEF partitionVars
<1> QED
  BY <1>1, <1>2, <1>3, <1>4, <1>5, <1>6, <1>7, <1>8, <1>9, <1>10, <1>11 DEF PartitionNext

LEMMA InvOneConfiguration == PartitionInv => OneConfiguration
<1> SUFFICES ASSUME PartitionInv, conf.at = "end"
             PROVE  \E o \in {parts[p] : p \in DOMAIN parts} :
                      /\ parts = [p \in Parts(Profile(o.type)) |-> o]
                      /\ o.number = conf.options.number
                      /\ o.storage \subseteq dataLinks
  BY DEF OneConfiguration
<1> DEFINE o == conf.options
<1>1. /\ DOMAIN parts = Parts(Profile(o.type)) /\ \A p \in DOMAIN parts : parts[p] = o
      /\ o.storage \subseteq dataLinks
  BY DEF PartitionInv, PassOfOneAnswer, AllInstalled
<1>2. "common" \in DOMAIN parts
  BY <1>1 DEF Parts
<1>3. parts = [p \in Parts(Profile(o.type)) |-> o]
  BY <1>1 DEF PartitionInv, PartitionTypeOK
<1>4. o \in {parts[p] : p \in DOMAIN parts}
  BY <1>1, <1>2
<1> QED
  BY <1>1, <1>3, <1>4

\* For any volumes, answers, changes and kills: a pass that ends has one configuration.
THEOREM ConfiguredOnce == PartitionSpec => []OneConfiguration
  BY PartitionInvInit, PartitionInvStep, InvOneConfiguration, PTL DEF PartitionSpec

------------------------------------------------------------------------------
(* Values that are generated once (GeneratedValues)                         *)

GenerationSteps == {"idle", "early", "uninstall", "open", "write", "cron", "entry", "end"}
GenerationOptions == [mac : Nat, release : Nat]

GenerationTypeOK ==
  /\ macFile \in Int /\ macPart \in GenerationOptions /\ vm \in Nat
  /\ published \in Nat /\ cronEntry \in Nat /\ made \in Nat
  /\ generation \in [at : GenerationSteps, mac : Nat, time : Nat, release : Nat]
  /\ release \in Nat /\ macLost \in BOOLEAN /\ killed \in Nat

\* Outside a pass, and until it removes the file, the file has the address that the machine
\* started with; and from when it is written on.
MacKept ==
  vm # Blank /\ ~macLost /\ generation.at \notin {"open", "write"} => macFile = vm

\* What a pass goes with was made, and what it is to write is what is in the file when its
\* part is not installed again.
PassSound ==
  generation.at # "idle" =>
    /\ generation.mac > 0 /\ generation.time > 0
    /\ generation.at \in {"cron", "entry", "end"} => macFile = generation.mac
    /\ generation.at # "early" => published = generation.time

\* A part that is installed has its file, and is not while the file is written.
PartHasFile ==
  /\ generation.at \in {"open", "write"} => macPart = NoPart
  /\ macPart # NoPart => macFile = macPart.mac /\ macFile > 0

\* The entry of dcron has a time that is published.
TimePublished == cronEntry # Blank => published = cronEntry

GenerationInv ==
  GenerationTypeOK /\ MacKept /\ PassSound /\ PartHasFile /\ TimePublished /\ NeverRegenerated

LEMMA GenerationInvInit == GenerationInit => GenerationInv
<1> SUFFICES ASSUME GenerationInit PROVE GenerationInv
  OBVIOUS
<1> USE DEF GenerationInit, NoStorage, NoPart, NoPass, Blank
<1>1. GenerationTypeOK
  <2>1. NoPart \in GenerationOptions
    BY DEF GenerationOptions
  <2>2. NoPass \in [at : GenerationSteps, mac : Nat, time : Nat, release : Nat]
    BY DEF GenerationSteps
  <2>3. macFile \in Int
    OBVIOUS
  <2> QED
    BY <2>1, <2>2, <2>3 DEF GenerationTypeOK
<1>2. MacKept /\ PassSound /\ PartHasFile
  BY DEF MacKept, PassSound, PartHasFile
<1>3. TimePublished /\ NeverRegenerated
  BY DEF TimePublished, NeverRegenerated
<1> QED
  BY <1>1, <1>2, <1>3 DEF GenerationInv

LEMMA GenerationInvStep == GenerationInv /\ [GenerationNext]_generatedVars => GenerationInv'
<1> SUFFICES ASSUME GenerationInv, [GenerationNext]_generatedVars
             PROVE  GenerationInv'
  OBVIOUS
<1> USE DEF GenerationInv, GenerationTypeOK, GenerationSteps, GenerationOptions, MacKept,
            PassSound, PartHasFile, TimePublished, NeverRegenerated, NoStorage, NoPart, NoPass,
            Blank
<1>1. CASE BeginGeneration
  BY <1>1 DEF BeginGeneration, Mac, Time
<1>2. CASE PublishTime
  BY <1>2 DEF PublishTime
<1>3. CASE UninstallMac
  BY <1>3 DEF UninstallMac, Options
<1>4. CASE OpenMac
  BY <1>4 DEF OpenMac
<1>5. CASE InstallMac
  BY <1>5 DEF InstallMac, Options
<1>6. CASE WriteEntry
  BY <1>6 DEF WriteEntry
<1>7. CASE EndGeneration
  BY <1>7 DEF EndGeneration
<1>8. CASE KillGeneration
  <2>1. GenerationTypeOK'
    BY <1>8 DEF KillGeneration
  <2>2. MacKept'
    BY <1>8 DEF KillGeneration
  <2>3. PassSound'
    BY <1>8 DEF KillGeneration
  <2>4. PartHasFile'
    BY <1>8 DEF KillGeneration
  <2>5. TimePublished'
    BY <1>8 DEF KillGeneration
  <2>6. NeverRegenerated'
    BY <1>8 DEF KillGeneration
  <2> QED
    BY <2>1, <2>2, <2>3, <2>4, <2>5, <2>6
<1>9. CASE NewRelease
  BY <1>9, GenerationAssumption DEF NewRelease
<1>10. CASE UNCHANGED generatedVars
  BY <1>10 DEF generatedVars
<1> QED
  BY <1>1, <1>2, <1>3, <1>4, <1>5, <1>6, <1>7, <1>8, <1>9, <1>10 DEF GenerationNext

\* For any number of releases and kills: what a service depends on is not made again.
THEOREM ValuesAreKept == GenerationSpec => []NeverRegenerated
<1>1. GenerationInv => NeverRegenerated
  BY DEF GenerationInv
<1> QED
  BY <1>1, GenerationInvInit, GenerationInvStep, PTL DEF GenerationSpec

------------------------------------------------------------------------------
(* Site of trac (TracSite)                                                  *)

TracSteps == {"idle", "init", "copy", "list", "grant", "plugins", "copying", "svn", "hooks", "git",
              "add", "users", "user", "done"}

TracTypeOK ==
  /\ wishes \in SUBSET Wishes /\ granted \in BOOLEAN
  /\ site \in {"none", "bare", "whole"}
  /\ items \in [Items -> {"none", "bare", "whole"}]
  /\ trac \in [at : TracSteps, asked : SUBSET Wishes]
  /\ interrupted \subseteq Items \cup {"site", "users"} /\ finished \in BOOLEAN

\* What is half made is what the pass is making, or was left so by a kill or a failure.
HalfMade ==
  /\ site = "bare" => trac.at = "copy" \/ "site" \in interrupted
  /\ items["plugin"] = "bare" => trac.at = "copying" \/ "plugin" \in interrupted
  /\ items["svn"] = "bare" => trac.at = "hooks" \/ "svn" \in interrupted
  /\ items["git"] = "bare" => trac.at = "add" \/ "git" \in interrupted

Answered(i) == i \in trac.asked => items[i] # "none"

\* What each step of a pass finds made by those before, or half made.
MadeSoFar ==
  /\ trac.at \notin {"idle", "init"} => site # "none"
  /\ trac.at \notin {"idle", "init", "copy", "list", "grant"} => granted
  /\ trac.at \in {"svn", "hooks", "git", "add", "users", "user", "done"} =>
       items["plugin"] # "none"
  /\ trac.at \in {"hooks", "git", "add", "users", "user", "done"} => Answered("svn")
  /\ trac.at \in {"add", "users", "user", "done"} => Answered("git")
  /\ trac.at = "user" /\ "users" \notin interrupted => users = {"admin"}
  /\ trac.at = "done" /\ "users" \notin interrupted =>
       users = {"admin"} \cup ({"user"} \cap trac.asked)

\* The file of a pass that is done is removed by the next, and nothing changes between.
FinishedIsDone ==
  finished => trac.at = "idle"

TracInv == TracTypeOK /\ FinishedIsDone /\ HalfMade /\ MadeSoFar /\ DoneIsComplete

LEMMA TracInvInit == TracInit => TracInv
<1> SUFFICES ASSUME TracInit
             PROVE  TracInv
  OBVIOUS
<1>1. TracTypeOK
  BY DEF TracInit, TracTypeOK, Items, Repositories, Wishes, Outside, TracSteps
<1>2. FinishedIsDone /\ DoneIsComplete
  BY DEF TracInit, FinishedIsDone, DoneIsComplete
<1>3. HalfMade /\ MadeSoFar
  BY DEF TracInit, HalfMade, MadeSoFar, Items, Repositories, Outside
<1> QED
  BY <1>1, <1>2, <1>3 DEF TracInv

LEMMA TracInvStep == TracInv /\ [TracNext]_tracVars => TracInv'
<1> SUFFICES ASSUME TracInv, [TracNext]_tracVars
             PROVE  TracInv'
  OBVIOUS
<1> USE DEF TracInv, TracTypeOK, FinishedIsDone, HalfMade, MadeSoFar, DoneIsComplete, Items,
            Repositories, TracSteps, Answered, Wishes, TracGoto, Fails, FailsWithin
<1>1. CASE CheckSite
  BY <1>1 DEF CheckSite
<1>2. CASE InitSite
  BY <1>2 DEF InitSite
<1>3. CASE CopyFiles
  BY <1>3 DEF CopyFiles
<1>4. CASE ListRepositories
  BY <1>4 DEF ListRepositories
<1>5. CASE Grant
  BY <1>5 DEF Grant
<1>6. CASE CopyPlugins
  BY <1>6 DEF CopyPlugins
<1>7. CASE MakeSvn
  BY <1>7 DEF MakeSvn, Todo
<1>8. CASE MakeGit
  <2>1. TracTypeOK'
    BY <1>8 DEF MakeGit
  <2>2. FinishedIsDone' /\ DoneIsComplete'
    BY <1>8 DEF MakeGit
  <2>3. HalfMade'
    BY <1>8 DEF MakeGit
  <2>4. MadeSoFar'
    BY <1>8 DEF MakeGit, Todo
  <2> QED
    BY <2>1, <2>2, <2>3, <2>4
<1>9. CASE AddUsers
  <2>1. TracTypeOK'
    BY <1>9 DEF AddUsers
  <2>2. FinishedIsDone' /\ DoneIsComplete'
    BY <1>9 DEF AddUsers
  <2>3. HalfMade'
    BY <1>9 DEF AddUsers
  <2>4. MadeSoFar'
    BY <1>9 DEF AddUsers
  <2> QED
    BY <2>1, <2>2, <2>3, <2>4
<1>10. CASE WriteStatusFile
  BY <1>10 DEF WriteStatusFile
<1>11. CASE KillTrac
  BY <1>11 DEF KillTrac
<1>12. CASE ChangeWishes
  BY <1>12 DEF ChangeWishes
<1>13. CASE UNCHANGED tracVars
  BY <1>13 DEF tracVars
<1> QED
  BY <1>1, <1>2, <1>3, <1>4, <1>5, <1>6, <1>7, <1>8, <1>9, <1>10, <1>11, <1>12, <1>13 DEF TracNext

\* For any wishes, failures, kills and changes of the wishes: a site that is finished has
\* everything it was asked for, and is half made only where a kill or a failure left it so.
THEOREM SiteIsComplete == TracSpec => []DoneIsComplete
<1>1. TracInv => DoneIsComplete
  BY DEF TracInv
<1> QED
  BY <1>1, TracInvInit, TracInvStep, PTL DEF TracSpec

------------------------------------------------------------------------------
(* Translation of signals (SignalTranslation)                               *)

Phases == {"start", "started", "known", "paused", "handler", "pausedHandler", "finally", "ended"}
States == {"none", "runs", "hup", "term", "gone"}

TranslationTypeOK ==
  /\ current \in Scripts
  /\ phase \in Phases
  /\ group \in [Scripts -> States]
  /\ orphaned \in BOOLEAN

\* A script makes its group after the ones before it, and only once.
NotYetMade ==
  \A p \in Scripts : (p > current \/ (p = current /\ phase = "start")) => group[p] = "none"

TranslationInv == TranslationTypeOK /\ NotYetMade /\ NoneLeft

LEMMA TranslationInvInit == TranslationInit => TranslationInv
<1> SUFFICES ASSUME TranslationInit PROVE TranslationInv
  OBVIOUS
<1>1. \A p \in Scripts : group[p] = "none"
  BY DEF TranslationInit
<1>2. current = 1 /\ phase = "start" /\ orphaned = FALSE
  BY DEF TranslationInit
<1>3. 1 \in Scripts
  BY TranslationAssumption DEF Scripts
<1>4. group \in [Scripts -> States]
  BY DEF TranslationInit, States
<1> QED
  BY <1>1, <1>2, <1>3, <1>4 DEF TranslationInv, TranslationTypeOK, NotYetMade, NoneLeft, Phases

LEMMA TranslationInvStep == TranslationInv /\ [TranslationNext]_translationVars => TranslationInv'
<1> SUFFICES ASSUME TranslationInv, [TranslationNext]_translationVars
             PROVE  TranslationInv'
  OBVIOUS
<1> USE TranslationAssumption
    DEF TranslationInv, TranslationTypeOK, NotYetMade, NoneLeft, Scripts, Phases, States, Enter
<1>1. CASE StartGroup
  <2>1. CASE phase' = "started"
    <3>1. /\ phase = "start" /\ UNCHANGED <<current, orphaned>>
          /\ group' = [group EXCEPT ![current] = "runs"]
      BY <1>1, <2>1 DEF StartGroup
    <3> QED
      BY <3>1, <2>1
  <2>2. CASE phase' = "ended"
    BY <1>1, <2>2 DEF StartGroup
  <2> QED
    BY <1>1, <2>1, <2>2 DEF StartGroup
<1>2. CASE KnowGroup
  BY <1>2 DEF KnowGroup
<1>3. CASE SigHandler
  \* A script that is only starting has no group; one that has is in orphaned.
  <2>1. /\ UNCHANGED <<current, group>>
        /\ phase \in {"start", "started", "known", "paused"}
        /\ phase' \in {"handler", "pausedHandler", "ended"}
        /\ orphaned' = (orphaned \/ phase = "started")
        /\ phase' = "ended" => phase \in {"start", "started"}
    BY <1>3 DEF SigHandler
  <2> QED
    BY <2>1
<1>4. CASE KillGroup
  <2>1. Told \in States /\ Told # "runs" /\ (group[current] = "none" => Told = "none")
    BY DEF Told
  <2>2. /\ group' = [group EXCEPT ![current] = Told] /\ UNCHANGED <<current, orphaned>>
        /\ phase \in {"handler", "pausedHandler", "finally"}
        /\ phase' \in {phase, "finally", "ended"}
        /\ phase' = "ended" => Told # "hup"
    BY <1>4 DEF KillGroup
  <2>3. TranslationTypeOK' /\ NotYetMade'
    BY <2>1, <2>2
  <2>4. NoneLeft'
    BY <2>1, <2>2
  <2> QED
    BY <2>3, <2>4
<1>5. CASE KillScript
  BY <1>5 DEF KillScript
<1>6. CASE RestartScript
  BY <1>6 DEF RestartScript
<1>7. ASSUME NEW p \in Scripts, ServiceEnds(p)
      PROVE  TranslationInv'
  BY <1>7 DEF ServiceEnds
<1>8. CASE UNCHANGED translationVars
  BY <1>8 DEF translationVars
<1> QED
  BY <1>1, <1>2, <1>3, <1>4, <1>5, <1>6, <1>7, <1>8 DEF TranslationNext

\* However many scripts run, whatever moment each one is stopped at and whenever the
\* service ends, no service outlives its script unless that was killed, or got its signal
\* between Popen and child_pg.
THEOREM NoServiceLeft == TranslationSpec => []NoneLeft
<1>1. TranslationInv => NoneLeft
  BY DEF TranslationInv
<1> QED
  BY <1>1, TranslationInvInit, TranslationInvStep, PTL DEF TranslationSpec

------------------------------------------------------------------------------
(* Partition of a PostgreSQL server (PostgresPartition)                     *)

\* Steps in which the port is recorded and the password stored, and those that find a
\* cluster with the port in its configuration.
Recorded == {"postgres", "initdb", "config", "database", "script", "status", "stale", "psql",
             "single", "end"}
Configured == {"database", "script", "status", "stale", "psql", "single", "end"}

PostgresTypeOK ==
  /\ pass = [at |-> pass.at, port |-> pass.port, password |-> pass.password,
             creates |-> pass.creates]
  /\ pass.at \in {"idle", "password", "port", "open", "write"} \cup Recorded
  /\ pass.creates \in BOOLEAN /\ passwords \in Nat
  /\ pg = [exists |-> pg.exists, database |-> pg.database, password |-> pg.password,
           port |-> pg.port]
  /\ pg.exists \in BOOLEAN /\ pg.database \in BOOLEAN
  /\ ok \in BOOLEAN /\ spoilt \in BOOLEAN

\* A port that is recorded once is that of every later pass, of the cluster and of the
\* server.
OnePort ==
  /\ pass.at \in {"password", "port"} /\ installed # NoPort => pass.port = installed
  /\ pass.at \in {"open", "write"} \cup Recorded => pass.port = installed
  /\ pg.port # NoPort => pg.port = installed
  /\ server # NoPort => server = installed
  /\ pass.at \in Configured => pg.port = installed

\* The password of a pass is stored before it is used.
PasswordStored ==
  /\ pass.at \notin {"idle", "password"} => pass.password # Nothing
  /\ pass.at \in Recorded => storage = pass.password
  /\ pass.at = "port" => storage \in {Nothing, pass.password}

\* A cluster that is not being made has its database, and after its superuser was updated
\* the password.
ClusterWhole ==
  /\ pass.at \in Configured \cup {"config"} => pg.exists
  /\ pass.at \in {"initdb", "database"} => pass.creates
  /\ ~spoilt =>
       /\ pg.exists /\ ~(pass.creates /\ pass.at \in {"config", "database"}) => pg.database
       /\ pass.at = "end" \/ (pass.at = "script" /\ pass.creates) => pg.password = pass.password

PostgresInv ==
  /\ PostgresTypeOK /\ OnePort /\ PasswordStored /\ ClusterWhole /\ UrlWorks
  /\ ok => pass.at = "idle"

LEMMA PostgresInvInit == Init => PostgresInv
<1> SUFFICES ASSUME Init PROVE PostgresInv
  OBVIOUS
<1> USE DEF Init, Resting, NoCluster, Recorded, Configured, NoPort, Nothing
<1>1. PostgresTypeOK
  BY DEF PostgresTypeOK
<1>2. OnePort /\ PasswordStored
  BY DEF OnePort, PasswordStored
<1>3. ClusterWhole /\ UrlWorks
  BY DEF ClusterWhole, UrlWorks
<1> QED
  BY <1>1, <1>2, <1>3 DEF PostgresInv

LEMMA PostgresInvStep == PostgresInv /\ [Next]_vars => PostgresInv'
<1> SUFFICES ASSUME PostgresInv, [Next]_vars
             PROVE  PostgresInv'
  OBVIOUS
<1> USE DEF PostgresInv, PostgresTypeOK, OnePort, PasswordStored, ClusterWhole, UrlWorks, Recorded,
            Configured, NoPort, Nothing, World, Goto
<1>1. CASE Start
  <2>1. PICK port : pass' = [at |-> "password", port |-> port, password |-> Nothing,
                             creates |-> FALSE]
                    /\ (installed # NoPort => port = installed)
    <3> DEFINE port == IF installed # NoPort THEN installed
                       ELSE IF Free = {} THEN NoPort
                       ELSE CHOOSE p \in Free : \A q \in Free : p <= q
    <3>1. pass' = [Resting EXCEPT !.at = "password", !.port = port]
      BY <1>1 DEF Start
    <3>2. installed # NoPort => port = installed
      OBVIOUS
    <3> HIDE DEF port
    <3>3. pass' = [at |-> "password", port |-> port, password |-> Nothing, creates |-> FALSE]
      BY <3>1 DEF Resting
    <3> QED
      BY <3>2, <3>3
  <2>2. /\ pass.at = "idle" /\ ok' = FALSE
        /\ UNCHANGED <<installed, storage, passwords, pg, server, spoilt>>
    BY <1>1 DEF Start
  <2> QED
    BY <2>1, <2>2
<1>2. CASE Password
  <2>1. /\ pass.at = "password" /\ passwords' \in Nat
        /\ UNCHANGED <<installed, storage, pg, server, ok, spoilt>>
    BY <1>2 DEF Password
  <2>2. PICK word : /\ pass' = [at |-> "port", port |-> pass.port, password |-> word,
                               creates |-> pass.creates]
                    /\ word # Nothing /\ storage \in {Nothing, word}
    <3>1. CASE storage # Nothing
      <4>1. pass' = [pass EXCEPT !.at = "port", !.password = storage]
        BY <1>2, <3>1 DEF Password
      <4> QED
        BY <3>1, <4>1
    <3>2. CASE storage = Nothing
      <4>1. pass' = [pass EXCEPT !.at = "port", !.password = passwords + 1]
        BY <1>2, <3>2 DEF Password
      <4>2. passwords + 1 # Nothing
        OBVIOUS
      <4> QED
        BY <3>2, <4>1, <4>2
    <3> QED
      BY <3>1, <3>2
  <2> QED
    BY <2>1, <2>2
<1>3. CASE RecordPort
  BY <1>3 DEF RecordPort
<1>4. CASE StorePassword
  BY <1>4 DEF StorePassword
<1>5. CASE Postgres
  BY <1>5 DEF Postgres
<1>6. CASE CreateCluster
  BY <1>6 DEF CreateCluster
<1>7. CASE CreateConfig
  BY <1>7 DEF CreateConfig
<1>8. CASE CreateRunScript
  BY <1>8 DEF CreateRunScript
<1>9. CASE CreateDatabase
  BY <1>9 DEF CreateDatabase
<1>10. CASE IsRunning
  BY <1>10 DEF IsRunning
<1>11. CASE RemovePidFile
  BY <1>11 DEF RemovePidFile
<1>12. CASE UpdateSuperuser
  BY <1>12 DEF UpdateSuperuser, AfterSuperuser
<1>13. CASE End
  BY <1>13 DEF End, Resting
<1>14. CASE Raise
  <2>1. /\ pass' = Resting /\ UNCHANGED <<installed, storage, passwords, server, ok, spoilt>>
        /\ pass.at # "idle"
        /\ (pg' = pg /\ ~pass.creates) \/ pg' = NoCluster
    BY <1>14 DEF Raise
  <2>2. CASE pg' = pg /\ ~pass.creates
    BY <2>1, <2>2 DEF Resting
  <2>3. CASE pg' = NoCluster
    <3>1. PostgresTypeOK'
      BY <2>1, <2>3 DEF Resting, NoCluster
    <3>2. /\ pass'.at = "idle" /\ pg'.exists = FALSE /\ pg'.port = NoPort /\ ok = FALSE
      BY <2>1, <2>3 DEF Resting, NoCluster
    <3> QED
      BY <2>1, <3>1, <3>2
  <2> QED
    BY <2>1, <2>2, <2>3
<1>15. CASE Kill
  BY <1>15 DEF Kill, Resting
<1>16. CASE StartServer
  BY <1>16 DEF StartServer
<1>17. ASSUME NEW crash \in BOOLEAN, StopServer(crash)
       PROVE  PostgresInv'
  BY <1>17 DEF StopServer
<1>18. ASSUME NEW p \in Ports, TakePort(p) \/ ReleasePort(p)
       PROVE  PostgresInv'
  BY <1>18 DEF TakePort, ReleasePort
<1>19. CASE UNCHANGED vars
  BY <1>19 DEF vars
<1> QED
  BY <1>1, <1>2, <1>3, <1>4, <1>5, <1>6, <1>7, <1>8, <1>9, <1>10, <1>11, <1>12, <1>13, <1>14, <1>15,
     <1>16, <1>17, <1>18, <1>19 DEF Next, Install

\* For any ports, faults and passwords: after a complete pass the url is good.
THEOREM UrlIsGood == Spec => []UrlWorks
<1>1. PostgresInv => UrlWorks
  BY DEF PostgresInv
<1> QED
  BY <1>1, PostgresInvInit, PostgresInvStep, PTL DEF Spec

=============================================================================
