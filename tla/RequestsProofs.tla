---------------------------- MODULE RequestsProofs ----------------------------
(***************************************************************************)
(* Proofs about what happens to one request: its thresholds on the way to  *)
(* the switch, the slices its answer is written in, and the decoders that  *)
(* read it.                                                                *)
(***************************************************************************)
EXTENDS MCRequests, ProofLemmas

(***************************************************************************)
(* Thresholds.                                                             *)
(***************************************************************************)
Units == {"bytes", "cells", "percent"}

\* Every realm programs some of the thresholds that its setter keeps, and the
\* validator asks for the object; of a unicast queue group it asks for another.
LEMMA RealmFacts ==
  ASSUME NEW r \in Realms
  PROVE  /\ RealmProgram[r] \in Seq(RealmHandler[r])
         /\ Len(RealmProgram[r]) \in Nat /\ Len(RealmProgram[r]) >= 1
         /\ r # "euqg" => ObjectOf[r] = RealmType[r].index
<1> USE DEF RealmType, RealmHandler, RealmProgram, ObjectOf, Realms, Validated
<1>1. CASE r = "device"
  BY <1>1 DEF DeviceValidate, DeviceSetter, DeviceProgram
<1>2. CASE r = "ippg"
  BY <1>2 DEF IppgValidate, IppgSetter, IppgProgram
<1>3. CASE r = "ipsp"
  BY <1>3 DEF IpspValidate, IpspSetter, IpspProgram
<1>4. CASE r = "isp"
  BY <1>4 DEF IspValidate, IspSetter, IspProgram
<1>5. CASE r = "epsp"
  BY <1>5 DEF EpspValidate, EpspSetter, EpspProgram
<1>6. CASE r = "esp"
  BY <1>6 DEF EspValidate, EspSetter, EspProgram
<1>7. CASE r = "euq"
  BY <1>7 DEF EuqValidate, EuqSetter, EucqProgram
<1>8. CASE r = "euqg"
  BY <1>8 DEF EuqgSetter, EucqgProgram
<1>9. CASE r = "emc"
  BY <1>9 DEF EmcValidate, EmcSetter, EmcqProgram
<1>10. CASE r = "ecpu"
  BY <1>10 DEF EcpuValidate, EcpuSetter, CpuqProgram
<1>11. CASE r = "erqe"
  BY <1>11 DEF ErqeValidate, ErqeSetter, RqeqProgram
<1> QED
  BY <1>1, <1>2, <1>3, <1>4, <1>5, <1>6, <1>7, <1>8, <1>9, <1>10, <1>11

\* What is programmed is cached, at least one threshold, each by some write.
LEMMA ProgrammedFacts ==
  ASSUME realm \in Realms
  PROVE  /\ Programmed \subseteq Cached /\ Programmed # {}
         /\ Len(RealmProgram[realm]) \in Nat
         /\ \A f \in Programmed : \E i \in 1 .. Len(RealmProgram[realm]) : RealmProgram[realm][i] = f
<1> DEFINE program == RealmProgram[realm]
<1>1. program \in Seq(Cached) /\ Len(program) \in Nat /\ Len(program) >= 1
  BY RealmFacts DEF Cached
<1> HIDE DEF program
<1>2. Programmed = {program[i] : i \in 1 .. Len(program)}
  BY <1>1 DEF Programmed, ToSet, program
<1>3. \A i \in 1 .. Len(program) : program[i] \in Cached
  BY <1>1
<1>4. program[1] \in Programmed
  BY <1>1, <1>2
<1>5. (\A f \in Programmed : \E i \in 1 .. Len(program) : program[i] = f) /\ Programmed \subseteq Cached
  BY <1>2, <1>3
<1> QED BY <1>1, <1>4, <1>5 DEF program

-----------------------------------------------------------------------------
(* Conversions.                                                             *)

LEMMA NatProduct == ASSUME NEW m \in Nat, NEW n \in Nat PROVE m * n \in Nat
  OBVIOUS

LEMMA DivideBack == ASSUME NEW v \in Nat, NEW n \in Nat \ {0} PROVE (v * n) \div n = v
  OBVIOUS

LEMMA QuotientIs ==
  ASSUME NEW a \in Nat, NEW n \in Nat \ {0}, NEW q \in Nat, q * n <= a, a < q * n + n
  PROVE  a \div n = q
  OBVIOUS

LEMMA QuotientBounds ==
  ASSUME NEW a \in Nat, NEW n \in Nat \ {0}
  PROVE  a \div n \in Nat /\ n * (a \div n) <= a /\ a < n * (a \div n) + n
  OBVIOUS

LEMMA ConvertedType ==
  ASSUME NEW v \in Nat, units \in Units
  PROVE  Converted(v) \in Nat
<1>1. MaxCells \in Nat /\ CellToByte \in Nat
  BY ThresholdAssumption
<1>2. (MaxCells * v) \div 100 \in Nat
  BY <1>1, NatProduct, QuotientBounds
<1>3. ((MaxCells * v) \div 100) * CellToByte \in Nat /\ v * CellToByte \in Nat
  BY <1>1, <1>2, NatProduct
<1> QED BY <1>3 DEF Converted, CalculateValueFromPercentage, Units

\* The rounding of the encoder undoes the truncation of the setter: what was cut
\* off is less than one hundredth, and half of the buffer is not less than 99.
LEMMA PercentageBack ==
  ASSUME NEW v \in Nat, ValidPercentage(v), MaxCells >= 198,
         NEW q, q = (MaxCells * v) \div 100
  PROVE  q \in Nat /\ (2 * 100 * q + MaxCells) \div (2 * MaxCells) = v
<1> DEFINE product == MaxCells * v
           a == 2 * 100 * q + MaxCells
<1>1. MaxCells \in Nat /\ product \in Nat
  BY ThresholdAssumption, NatProduct
<1>2. q \in Nat /\ 100 * q <= product /\ product < 100 * q + 100
  BY <1>1, QuotientBounds
<1>3. v * (2 * MaxCells) = 2 * product
  BY <1>1
<1> HIDE DEF product
<1>4. a \in Nat /\ 2 * product <= a /\ a < 2 * product + 2 * MaxCells
  BY <1>1, <1>2
<1>5. 2 * MaxCells \in Nat \ {0}
  BY <1>1
<1>6. a \div (2 * MaxCells) = v
  BY <1>3, <1>4, <1>5, QuotientIs
<1> QED BY <1>2, <1>6

\* The encoder's conversion undoes the setter's.
LEMMA ReportedBack ==
  ASSUME NEW v \in Nat, units \in Units, MaxCells >= 198,
         units = "percent" => ValidPercentage(v)
  PROVE  Reported(Converted(v)) = v
<1>1. CellToByte \in Nat \ {0}
  BY ThresholdAssumption
<1>2. CASE units = "bytes"
  BY <1>2 DEF Reported, Converted
<1>3. CASE units = "cells"
  BY <1>1, <1>3, DivideBack DEF Reported, Converted
<1>4. CASE units = "percent"
  <2> DEFINE q == (MaxCells * v) \div 100
  <2>1. q \in Nat /\ (2 * 100 * q + MaxCells) \div (2 * MaxCells) = v /\ v <= 100
    BY <1>4, PercentageBack DEF ValidPercentage
  <2>2. Converted(v) = q * CellToByte
    BY <1>4 DEF Converted, CalculateValueFromPercentage
  <2> HIDE DEF q
  <2>3. Converted(v) \div CellToByte = q
    BY <1>1, <2>1, <2>2, DivideBack
  <2> QED BY <1>4, <2>1, <2>3 DEF Reported
<1> QED BY <1>2, <1>3, <1>4 DEF Units

-----------------------------------------------------------------------------
(* Types.                                                                   *)

ThrTypes ==
  /\ realm \in Realms /\ steady \in BOOLEAN /\ tainted \in BOOLEAN
  /\ units \in Units
  /\ cache \in [Cached -> Nat] /\ hw \in [Programmed -> Nat]
  /\ last.outcome \in {"none", "refused", "success", "failure", "cleared"}

LEMMA LimitFacts ==
  /\ Limit \in Nat /\ Limit - CellToByte \in Nat
  /\ InLimits(Limit) /\ InLimits(Limit - CellToByte)
  BY ThresholdAssumption DEF InLimits

LEMMA ThresholdGetType ==
  ASSUME realm \in Realms, NEW table \in [Programmed -> Nat]
  PROVE  /\ ThresholdGet(table) \in [Cached -> Nat]
         /\ \A f \in Programmed : ThresholdGet(table)[f] = table[f]
  BY ProgrammedFacts DEF ThresholdGet

LEMMA EmptyCacheType == EmptyCache \in [Cached -> Nat]
  BY DEF EmptyCache

\* What a command makes of the thresholds: those named are converted.
LEMMA ToWriteFacts ==
  ASSUME ThrTypes, NEW named, NEW asked \in [named -> Values]
  PROVE  /\ ToWrite(asked) \in [Cached -> Nat]
         /\ \A f \in Cached : ToWrite(asked)[f] = IF f \in named THEN Converted(asked[f]) ELSE cache[f]
         /\ CacheUpdate(asked, ToWrite(asked)) = ToWrite(asked)
<1>1. Values \subseteq Nat
  BY ThresholdAssumption
<1>2. \A f \in named : Converted(asked[f]) \in Nat
  BY <1>1, ConvertedType DEF ThrTypes
<1>3. ToWrite(asked) = [f \in Cached |-> IF f \in named THEN Converted(asked[f]) ELSE cache[f]]
  BY DEF ToWrite
<1>4. \A f \in Cached : (IF f \in named THEN Converted(asked[f]) ELSE cache[f]) \in Nat
  BY <1>2 DEF ThrTypes
<1>5. ToWrite(asked) \in [Cached -> Nat]
  BY <1>3, <1>4
<1>6. CacheUpdate(asked, ToWrite(asked)) = [f \in Cached |-> IF f \in named THEN ToWrite(asked)[f] ELSE cache[f]]
  BY DEF CacheUpdate
<1>7. CacheUpdate(asked, ToWrite(asked)) = ToWrite(asked)
  BY <1>3, <1>6
<1> QED BY <1>3, <1>5, <1>7

\* The writes to the switch, all of them or the first few.
LEMMA ProgramFacts ==
  ASSUME ThrTypes, NEW written \in [Programmed -> Nat], NEW done
  PROVE  /\ Program(written, done) \in [Programmed -> Nat]
         /\ \A f \in Programmed : Program(written, done)[f] \in {written[f], hw[f]}
         /\ done = Len(RealmProgram[realm]) => \A f \in Programmed : Program(written, done)[f] = written[f]
<1>1. hw \in [Programmed -> Nat]
  BY DEF ThrTypes
<1>2. \A f \in Programmed : \E i \in 1 .. Len(RealmProgram[realm]) : RealmProgram[realm][i] = f
  BY ProgrammedFacts DEF ThrTypes
<1>3. Program(written, done) =
        [f \in Programmed |-> IF \E i \in 1 .. done : RealmProgram[realm][i] = f THEN written[f] ELSE hw[f]]
  BY DEF Program
<1> QED BY <1>1, <1>2, <1>3

\* The same for the values of a command, of which the switch gets its own.
LEMMA ProgramOnly ==
  ASSUME ThrTypes, NEW written \in [Cached -> Nat], NEW done
  PROVE  /\ Program(written, done) \in [Programmed -> Nat]
         /\ \A f \in Programmed : Program(written, done)[f] \in {written[f], hw[f]}
         /\ done = Len(RealmProgram[realm]) => \A f \in Programmed : Program(written, done)[f] = written[f]
<1> DEFINE own == [f \in Programmed |-> written[f]]
<1>1. Programmed \subseteq Cached
  BY ProgrammedFacts DEF ThrTypes
<1>2. own \in [Programmed -> Nat] /\ \A f \in Programmed : own[f] = written[f]
  BY <1>1
<1>3. Program(written, done) = Program(own, done)
  BY DEF Program
<1> HIDE DEF own
<1> QED BY <1>2, <1>3, ProgramFacts

LEMMA ClearedFacts ==
  ASSUME ThrTypes, NEW done
  PROVE  /\ Cleared(done) \in [Programmed -> Nat]
         /\ \A f \in Programmed : Cleared(done)[f] \in {Limit, hw[f]}
         /\ done = Len(RealmProgram[realm]) => Cleared(done) = [f \in Programmed |-> Limit]
<1> DEFINE full == [f \in Programmed |-> Limit]
<1>1. full \in [Programmed -> Nat] /\ \A f \in Programmed : full[f] = Limit
  BY LimitFacts
<1>2. Cleared(done) = Program(full, done)
  BY DEF Cleared
<1> HIDE DEF full
<1>3. /\ Program(full, done) \in [Programmed -> Nat]
      /\ \A f \in Programmed : Program(full, done)[f] \in {full[f], hw[f]}
      /\ done = Len(RealmProgram[realm]) => \A f \in Programmed : Program(full, done)[f] = full[f]
  BY <1>1, ProgramFacts
<1>4. done = Len(RealmProgram[realm]) => Program(full, done) = full
  BY <1>1, <1>3
<1> QED BY <1>1, <1>2, <1>3, <1>4 DEF full

-----------------------------------------------------------------------------
(* The inductive invariant.  What a command leaves out is written from the  *)
(* cache: that this changes nothing needs the cache to agree with the       *)
(* switch, and on a switch that does not fail it always does.               *)
ThrInv ==
  /\ ThrTypes
  /\ SwitchInRange
  /\ CacheMatchesSwitch
  /\ tainted => ~steady
  /\ ObjectNamed

LEMMA ThrInvInit == ThrInit => ThrInv
<1> SUFFICES ASSUME ThrInit PROVE ThrInv
  OBVIOUS
<1>1. realm \in Realms /\ steady \in BOOLEAN /\ units \in Units /\ last = NoCommand
  BY DEF ThrInit, Units
<1>2. PICK cleared \in SUBSET Programmed, read_ \in BOOLEAN :
        /\ steady => cleared = Programmed /\ read_
        /\ hw = [f \in Programmed |-> IF f \in cleared THEN Limit ELSE Limit - CellToByte]
        /\ cache = IF read_ THEN ThresholdGet(hw) ELSE EmptyCache
        /\ tainted = ~read_
  BY DEF ThrInit
<1>3. hw \in [Programmed -> Nat] /\ \A f \in Programmed : InLimits(hw[f])
  BY <1>2, LimitFacts
<1>4. cache \in [Cached -> Nat] /\ (tainted \/ \A f \in Programmed : cache[f] = hw[f])
  BY <1>1, <1>2, <1>3, ThresholdGetType, EmptyCacheType
<1>5. tainted \in BOOLEAN /\ (tainted => ~steady)
  BY <1>2
<1>6. last.outcome = "none"
  BY <1>1 DEF NoCommand
<1> QED
  BY <1>1, <1>3, <1>4, <1>5, <1>6 DEF ThrInv, ThrTypes, SwitchInRange, CacheMatchesSwitch, ObjectNamed

\* A command that is refused, and a reply.
LEMMA ThrRefusedStep ==
  ASSUME ThrInv, UNCHANGED <<realm, steady, units, cache, hw, tainted>>,
         last'.outcome \in {"none", "refused"}
  PROVE  ThrInv'
<1> USE DEF ThrInv
<1>1. ThrTypes'
  BY DEF ThrTypes, Cached, Programmed
<1>2. SwitchInRange' /\ CacheMatchesSwitch'
  BY DEF SwitchInRange, CacheMatchesSwitch, Programmed
<1>3. ObjectNamed'
  BY DEF ObjectNamed
<1> QED BY <1>1, <1>2, <1>3

\* A command that names its object and passes every check.
LEMMA AcceptedFacts ==
  ASSUME ThrInv, NEW named, NEW asked \in [named -> Values], NEW index, NEW inRange, NEW done,
         InputValidate(index, asked, inRange), PluginAccepts(ToWrite(asked))
  PROVE  /\ Program(ToWrite(asked), done) \in [Programmed -> Nat]
         /\ \A f \in Programmed : InLimits(Program(ToWrite(asked), done)[f])
         /\ \A f \in Programmed \ named : Program(ToWrite(asked), done)[f] \in {cache[f], hw[f]}
         /\ realm # "euqg" => ObjectOf[realm] \subseteq index
<1>1. ThrTypes /\ Programmed \subseteq Cached
  BY ProgrammedFacts DEF ThrInv, ThrTypes
<1> DEFINE written == ToWrite(asked)
<1>2. written \in [Cached -> Nat] /\ \A f \in Cached \ named : written[f] = cache[f]
  BY <1>1, ToWriteFacts
<1>3. (\A f \in Programmed : InLimits(written[f])) /\ (\A f \in Programmed : InLimits(hw[f]))
  BY DEF PluginAccepts, ThrInv, SwitchInRange
<1>4. realm # "euqg" => ObjectOf[realm] \subseteq index
  BY <1>1, RealmFacts DEF InputValidate, ThrTypes
<1> HIDE DEF written
<1>5. /\ Program(written, done) \in [Programmed -> Nat]
      /\ \A f \in Programmed : Program(written, done)[f] \in {written[f], hw[f]}
  BY <1>1, <1>2, ProgramOnly
<1>6. /\ \A f \in Programmed : InLimits(Program(written, done)[f])
      /\ \A f \in Programmed \ named : Program(written, done)[f] \in {cache[f], hw[f]}
  BY <1>1, <1>2, <1>3, <1>5
<1> QED BY <1>4, <1>5, <1>6 DEF written

LEMMA ThrSetStep ==
  ASSUME ThrInv, NEW named, NEW asked \in [named -> Values], NEW index, NEW inRange,
         Set(index, asked, inRange)
  PROVE  ThrInv'
<1> DEFINE written == ToWrite(asked)
           program == Program(written, Len(RealmProgram[realm]))
<1>1. /\ InputValidate(index, asked, inRange) /\ PluginAccepts(written)
      /\ hw' = program /\ cache' = CacheUpdate(asked, written)
      /\ last' = Outcome(index, asked, "success")
      /\ realm' = realm /\ steady' = steady /\ units' = units /\ tainted' = tainted
  BY DEF Set
<1>2. ThrTypes /\ Programmed' = Programmed /\ Cached' = Cached
  BY <1>1 DEF ThrInv, Programmed, Cached
<1>3. written \in [Cached -> Nat] /\ cache' = written
  BY <1>1, <1>2, ToWriteFacts
<1>4. /\ program \in [Programmed -> Nat] /\ \A f \in Programmed : InLimits(program[f])
      /\ realm # "euqg" => ObjectOf[realm] \subseteq index
  BY <1>1, AcceptedFacts
<1> HIDE DEF written
<1>5. \A f \in Programmed : program[f] = written[f]
  BY <1>2, <1>3, ProgramOnly
<1> HIDE DEF program
<1>6. ThrTypes'
  BY <1>1, <1>2, <1>3, <1>4 DEF ThrTypes, Outcome
<1>7. SwitchInRange' /\ CacheMatchesSwitch'
  BY <1>1, <1>2, <1>3, <1>4, <1>5 DEF SwitchInRange, CacheMatchesSwitch, InLimits
<1>8. ObjectNamed'
  BY <1>1, <1>4 DEF ObjectNamed, Outcome
<1> QED BY <1>1, <1>6, <1>7, <1>8 DEF ThrInv

LEMMA ThrSetFailsStep ==
  ASSUME ThrInv, NEW named, NEW asked \in [named -> Values], NEW index, NEW inRange,
         SetFails(index, asked, inRange)
  PROVE  ThrInv'
<1>1. /\ InputValidate(index, asked, inRange) /\ PluginAccepts(ToWrite(asked))
      /\ last' = Outcome(index, asked, "failure") /\ ~steady /\ tainted' = TRUE
      /\ realm' = realm /\ steady' = steady /\ units' = units /\ cache' = cache
  BY DEF SetFails
<1>2. PICK done : hw' = Program(ToWrite(asked), done)
  BY DEF SetFails
<1>3. ThrTypes /\ Programmed' = Programmed /\ Cached' = Cached
  BY <1>1 DEF ThrInv, Programmed, Cached
<1>4. /\ hw' \in [Programmed -> Nat] /\ \A f \in Programmed : InLimits(hw'[f])
      /\ realm # "euqg" => ObjectOf[realm] \subseteq index
  BY <1>1, <1>2, AcceptedFacts
<1>5. ThrTypes'
  BY <1>1, <1>3, <1>4 DEF ThrTypes, Outcome
<1>6. SwitchInRange' /\ CacheMatchesSwitch'
  BY <1>1, <1>3, <1>4 DEF SwitchInRange, CacheMatchesSwitch, InLimits
<1>7. ObjectNamed'
  BY <1>1, <1>4 DEF ObjectNamed, Outcome
<1> QED BY <1>1, <1>5, <1>6, <1>7 DEF ThrInv

\* Clearing, all of it or part of it, read back or not.
LEMMA ThrClearStep ==
  ASSUME ThrInv, ClearThresholds \/ ClearFails \/ ClearUnread
  PROVE  ThrInv'
<1>1. /\ last'.outcome \in {"cleared", "failure"} /\ last'.asked = <<>>
      /\ realm' = realm /\ steady' = steady /\ units' = units /\ tainted' \in BOOLEAN
  <2>1. /\ last' = Outcome({}, <<>>, "cleared") \/ last' = Outcome({}, <<>>, "failure")
        /\ realm' = realm /\ steady' = steady /\ units' = units
        /\ tainted' = TRUE \/ tainted' = FALSE
    BY Zenon DEF ClearThresholds, ClearFails, ClearUnread
  <2>2. tainted' \in BOOLEAN
    BY <2>1, Zenon
  <2>3. last'.outcome \in {"cleared", "failure"} /\ last'.asked = <<>>
    BY <2>1 DEF Outcome
  <2> QED BY <2>1, <2>2, <2>3, Zenon
<1>2. PICK done : hw' = Cleared(done)
  BY DEF ClearThresholds, ClearFails, ClearUnread
<1>3. ThrTypes /\ Programmed' = Programmed /\ Cached' = Cached
  BY <1>1 DEF ThrInv, Programmed, Cached
<1>4. hw' \in [Programmed -> Nat] /\ \A f \in Programmed : InLimits(hw'[f])
  BY <1>2, <1>3, ClearedFacts, LimitFacts DEF ThrInv, SwitchInRange
<1>5. cache' \in [Cached -> Nat] /\ (tainted' \/ \A f \in Programmed : cache'[f] = hw'[f])
  <2>1. CASE ClearThresholds
    <3>1. cache' = ThresholdGet(hw')
      BY <2>1 DEF ClearThresholds
    <3> QED BY <1>3, <1>4, <3>1, ThresholdGetType DEF ThrTypes
  <2>2. CASE ClearFails
    BY <1>3, <2>2 DEF ClearFails, ThrTypes
  <2>3. CASE ClearUnread
    BY <1>3, <2>3, EmptyCacheType DEF ClearUnread, ThrTypes
  <2> QED BY <2>1, <2>2, <2>3
<1>6. tainted' => ~steady
  BY DEF ClearThresholds, ClearFails, ClearUnread
<1>7. ThrTypes'
  BY <1>1, <1>3, <1>4, <1>5 DEF ThrTypes
<1>8. SwitchInRange' /\ CacheMatchesSwitch'
  BY <1>1, <1>3, <1>4, <1>5 DEF SwitchInRange, CacheMatchesSwitch, InLimits
<1>9. ObjectNamed'
  BY <1>1 DEF ObjectNamed
<1> QED BY <1>1, <1>6, <1>7, <1>8, <1>9 DEF ThrInv

LEMMA ThrUnitsStep == ASSUME ThrInv, SetUnits PROVE ThrInv'
<1>1. UNCHANGED <<realm, steady, cache, hw, last, tainted>> /\ units' \in Units
  BY DEF SetUnits, Units
<1>2. ThrTypes'
  BY <1>1 DEF ThrInv, ThrTypes, Cached, Programmed
<1>3. SwitchInRange' /\ CacheMatchesSwitch' /\ ObjectNamed'
  BY <1>1 DEF ThrInv, SwitchInRange, CacheMatchesSwitch, ObjectNamed, Programmed
<1> QED BY <1>1, <1>2, <1>3 DEF ThrInv

LEMMA ThrInvStep == ThrInv /\ [ThrNext]_thrVars => ThrInv'
<1> SUFFICES ASSUME ThrInv, [ThrNext]_thrVars PROVE ThrInv'
  OBVIOUS
<1>1. CASE UNCHANGED thrVars
  BY <1>1 DEF thrVars, ThrInv, ThrTypes, SwitchInRange, CacheMatchesSwitch, ObjectNamed, Cached, Programmed
<1>2. CASE ConfigureThresholds
  <2>1. PICK named : \E asked \in [named -> Values] : \E index, inRange :
          Refused(index, asked, inRange) \/ SetRefused(index, asked, inRange)
            \/ Set(index, asked, inRange) \/ SetFails(index, asked, inRange)
    BY <1>2 DEF ConfigureThresholds
  <2>3. PICK asked \in [named -> Values] : \E index, inRange :
          Refused(index, asked, inRange) \/ SetRefused(index, asked, inRange)
            \/ Set(index, asked, inRange) \/ SetFails(index, asked, inRange)
    BY <2>1
  <2>4. PICK index, inRange :
          Refused(index, asked, inRange) \/ SetRefused(index, asked, inRange)
            \/ Set(index, asked, inRange) \/ SetFails(index, asked, inRange)
    BY <2>3
  <2>2. CASE Refused(index, asked, inRange) \/ SetRefused(index, asked, inRange)
    BY <2>2, ThrRefusedStep DEF Refused, SetRefused, Outcome
  <2> QED BY <2>2, <2>4, ThrSetStep, ThrSetFailsStep
<1>3. CASE ClearThresholds \/ ClearFails \/ ClearUnread
  BY <1>3, ThrClearStep
<1>4. CASE SetUnits
  BY <1>4, ThrUnitsStep
<1>5. CASE Replied
  BY <1>5, ThrRefusedStep DEF Replied, NoCommand
<1> QED BY <1>1, <1>2, <1>3, <1>4, <1>5 DEF ThrNext, Command

LEMMA ThrInvHolds == ThrSpec => []ThrInv
  BY ThrInvInit, ThrInvStep, PTL DEF ThrSpec

\* The switch only ever has thresholds in its limits, also after a write that
\* failed half-way and with a cache that was never read; the cache that the
\* thresholds of the next command are taken from is what the switch has, until
\* the switch fails (bst.c:1914, sbplugin_common_bst.c:1054).
THEOREM ThresholdsInRangeHolds == ThrSpec => []ThresholdsInRange
<1>1. ThrInv => ThresholdsInRange
  BY DEF ThrInv, ThresholdsInRange
<1> QED BY <1>1, ThrInvHolds, PTL

\* The thresholds of the switch and of the cache are numbers, whatever fails.
THEOREM ThrTypesHold == ThrSpec => []ThrTypeOK
<1>1. ThrInv => ThrTypeOK
  BY DEF ThrInv, ThrTypes, ThrTypeOK, Units
<1> QED BY <1>1, ThrInvHolds, PTL

-----------------------------------------------------------------------------
(* What clients are told.                                                   *)

LEMMA ReportedInit == ThrInit => ReportedAsAsked
  BY DEF ThrInit, NoCommand, ReportedAsAsked

LEMMA ReportedSet ==
  ASSUME ThrInv, NEW named, NEW asked \in [named -> Values], NEW index, NEW inRange,
         MaxCells >= 198, Set(index, asked, inRange)
  PROVE  ReportedAsAsked'
<1> DEFINE written == ToWrite(asked)
           program == Program(written, Len(RealmProgram[realm]))
<1>1. /\ PercentagesValid(asked) /\ hw' = program
      /\ last' = Outcome(index, asked, "success")
      /\ realm' = realm /\ units' = units
  BY DEF Set
<1>2. ThrTypes /\ Programmed \subseteq Cached /\ Programmed' = Programmed
  BY <1>1, ProgrammedFacts DEF ThrInv, ThrTypes, Programmed
<1>3. written \in [Cached -> Nat] /\ \A f \in Cached \cap named : written[f] = Converted(asked[f])
  BY <1>2, ToWriteFacts
<1> HIDE DEF written
<1>4. \A f \in Programmed : program[f] = written[f]
  BY <1>2, <1>3, ProgramOnly
<1> HIDE DEF program
<1>5. SUFFICES ASSUME NEW f \in named \cap Programmed
               PROVE  (Reported(hw[f]) = last.asked[f])'
  BY <1>1, <1>2 DEF ReportedAsAsked, Outcome
<1>6. hw'[f] = Converted(asked[f]) /\ last'.asked[f] = asked[f]
  BY <1>1, <1>2, <1>3, <1>4 DEF Outcome
<1>7. asked[f] \in Nat /\ (units = "percent" => ValidPercentage(asked[f]))
  BY <1>1, <1>2, ThresholdAssumption DEF PercentagesValid
<1>8. Reported(Converted(asked[f])) = asked[f]
  BY <1>2, <1>7, ReportedBack DEF ThrTypes
<1>9. Reported(hw[f])' = Reported(hw'[f])
  BY <1>1 DEF Reported
<1> QED BY <1>6, <1>8, <1>9

LEMMA ReportedStep ==
  ASSUME MaxCells >= 198, ThrInv, ReportedAsAsked, [ThrNext]_thrVars
  PROVE  ReportedAsAsked'
<1>1. CASE UNCHANGED thrVars
  BY <1>1 DEF thrVars, ReportedAsAsked, Reported, Programmed
<1>2. CASE last'.outcome # "success"
  BY <1>2 DEF ReportedAsAsked
<1>3. CASE last = NoCommand /\ ConfigureThresholds /\ last'.outcome = "success"
  <2>1. PICK named : \E asked \in [named -> Values] : \E index, inRange : Set(index, asked, inRange)
    BY <1>3 DEF ConfigureThresholds, Refused, SetRefused, SetFails, Outcome
  <2>2. PICK asked \in [named -> Values] : \E index, inRange : Set(index, asked, inRange)
    BY <2>1
  <2> QED BY <2>2, ReportedSet
<1>4. CASE ClearThresholds \/ ClearFails \/ ClearUnread
  <2>1. last' = Outcome({}, <<>>, "cleared") \/ last' = Outcome({}, <<>>, "failure")
    BY <1>4, Zenon DEF ClearThresholds, ClearFails, ClearUnread
  <2> QED BY <1>2, <2>1 DEF Outcome
<1>5. CASE last = NoCommand /\ SetUnits
  BY <1>2, <1>5 DEF SetUnits, NoCommand
<1>6. CASE Replied
  BY <1>2, <1>6 DEF Replied, NoCommand
<1> QED BY <1>1, <1>2, <1>3, <1>4, <1>5, <1>6 DEF ThrNext, Command

\* A command that succeeds was about the object it named, and its thresholds
\* are reported in the values it asked for: the truncation to whole cells and
\* the rounding of percentages are undone if the buffer has 198 cells or more
\* (bst.c:815, bst_json_encoder.c:594).  With 197 cells 67 percent is reported
\* as 66.
THEOREM ThresholdsAsAskedHolds ==
  ASSUME MaxCells >= 198
  PROVE  ThrSpec => []ThresholdsAsAsked
<1>1. ThrInv /\ ReportedAsAsked => ThresholdsAsAsked
  BY DEF ThrInv, ThresholdsAsAsked
<1>2. ThrInit => ReportedAsAsked
  BY ReportedInit
<1>3. ThrInv /\ ReportedAsAsked /\ [ThrNext]_thrVars => ReportedAsAsked'
  BY ReportedStep
<1> QED BY <1>1, <1>2, <1>3, ThrInvHolds, PTL DEF ThrSpec

-----------------------------------------------------------------------------
(* Nothing else changes, and the refinement of ThresholdStore.              *)

UnnamedIsKept ==
  \A f \in Programmed :
    last'.asked # <<>> /\ f \notin DOMAIN last'.asked /\ hw'[f] # hw[f] => tainted

\* Of what a command does not name, a write puts back what was there.
LEMMA UnnamedWritten ==
  ASSUME ThrInv, ~tainted, NEW named, NEW asked \in [named -> Values], NEW index, NEW inRange, NEW done,
         InputValidate(index, asked, inRange), PluginAccepts(ToWrite(asked))
  PROVE  \A f \in Programmed \ named : Program(ToWrite(asked), done)[f] = hw[f]
<1>1. \A f \in Programmed : cache[f] = hw[f]
  BY DEF ThrInv, CacheMatchesSwitch
<1> QED BY <1>1, AcceptedFacts

LEMMA UnnamedStep ==
  ASSUME ThrInv, [ThrNext]_thrVars
  PROVE  UnnamedIsKept
<1>1. CASE hw' = hw
  BY <1>1 DEF UnnamedIsKept
<1>2. CASE last'.asked = <<>>
  BY <1>2 DEF UnnamedIsKept
<1>3. CASE tainted
  BY <1>3 DEF UnnamedIsKept
<1>4. CASE ConfigureThresholds /\ hw' # hw /\ ~tainted
  <2>1. PICK named : \E asked \in [named -> Values] : \E index, inRange :
          Set(index, asked, inRange) \/ SetFails(index, asked, inRange)
    BY <1>4 DEF ConfigureThresholds, Refused, SetRefused
  <2>2. PICK asked \in [named -> Values] : \E index, inRange :
          Set(index, asked, inRange) \/ SetFails(index, asked, inRange)
    BY <2>1
  <2>3. PICK index, inRange : Set(index, asked, inRange) \/ SetFails(index, asked, inRange)
    BY <2>2
  <2>4. /\ InputValidate(index, asked, inRange) /\ PluginAccepts(ToWrite(asked))
        /\ last'.asked = asked
        /\ \E done : hw' = Program(ToWrite(asked), done)
    BY <2>3 DEF Set, SetFails, Outcome
  <2>5. \A f \in Programmed \ named : hw'[f] = hw[f]
    BY <1>4, <2>4, UnnamedWritten
  <2> QED BY <2>4, <2>5 DEF UnnamedIsKept
<1>5. CASE ClearThresholds \/ ClearFails \/ ClearUnread
  <2>1. last' = Outcome({}, <<>>, "cleared") \/ last' = Outcome({}, <<>>, "failure")
    BY <1>5, Zenon DEF ClearThresholds, ClearFails, ClearUnread
  <2> QED BY <1>2, <2>1 DEF Outcome
<1> QED BY <1>1, <1>2, <1>3, <1>4, <1>5 DEF ThrNext, Command, SetUnits, Replied, thrVars

LEMMA StoreInit == ThrInv /\ ThrInit => Store!Init
<1> SUFFICES ASSUME ThrInv, ThrInit PROVE Store!Init
  OBVIOUS
<1>1. Programmed # {} /\ DOMAIN hw = Programmed
  BY ProgrammedFacts DEF ThrInv, ThrTypes
<1>2. last.outcome = "none"
  BY DEF ThrInit, NoCommand
<1>3. (~steady) \in BOOLEAN
  BY Zenon
<1> QED BY <1>1, <1>2, <1>3 DEF Store!Init

\* A command that succeeds on a switch that never failed changes what it names.
LEMMA StoreConfigures ==
  ASSUME ThrInv, ~tainted, NEW named, NEW asked \in [named -> Values], NEW index, NEW inRange,
         Set(index, asked, inRange)
  PROVE  Store!Configure
<1> DEFINE written == ToWrite(asked)
           program == Program(written, Len(RealmProgram[realm]))
           named_ == [f \in DOMAIN last.asked \cap Programmed |-> Converted(last.asked[f])]
<1>1. /\ InputValidate(index, asked, inRange) /\ PluginAccepts(written)
      /\ hw' = program /\ last' = Outcome(index, asked, "success")
      /\ realm' = realm /\ units' = units
  BY DEF Set
<1>2. ThrTypes /\ Programmed \subseteq Cached /\ Programmed' = Programmed
  BY <1>1, ProgrammedFacts DEF ThrInv, ThrTypes, Programmed
<1>3. \A f \in Programmed \ named : program[f] = hw[f]
  BY <1>1, UnnamedWritten
<1>4. written \in [Cached -> Nat] /\ \A f \in Cached \cap named : written[f] = Converted(asked[f])
  BY <1>2, ToWriteFacts
<1> HIDE DEF written
<1>5. program \in [Programmed -> Nat] /\ \A f \in Programmed : program[f] = written[f]
  BY <1>2, <1>4, ProgramOnly
<1> HIDE DEF program
<1>6. last'.asked = asked /\ last'.outcome = "success"
  BY <1>1 DEF Outcome
<1>7. named_' = [f \in named \cap Programmed |-> Converted(asked[f])]
  <2>1. \A f : Converted(last.asked[f])' = Converted(asked[f])
    BY <1>1, <1>6 DEF Converted
  <2> QED BY <1>2, <1>6, <2>1
<1> HIDE DEF named_
<1>8. hw \in [Programmed -> Nat]
  BY <1>2 DEF ThrTypes
<1>9. DOMAIN hw = Programmed /\ DOMAIN named_' = named \cap Programmed
  BY <1>7, <1>8
<1>10. hw' = [f \in DOMAIN hw |-> IF f \in DOMAIN named_' THEN named_'[f] ELSE hw[f]]
  <2>1. \A f \in Programmed : program[f] = IF f \in named THEN Converted(asked[f]) ELSE hw[f]
    BY <1>2, <1>3, <1>4, <1>5
  <2> QED BY <1>1, <1>5, <1>7, <1>9, <2>1
<1> QED BY <1>6, <1>9, <1>10 DEF Store!Configure, named_

\* Every step is one of the store, or changes nothing that it sees.
LEMMA StoreStep ==
  ASSUME ThrInv, [ThrNext]_thrVars
  PROVE  [Store!Next]_(Store!storeVars)
<1>1. CASE UNCHANGED thrVars
  BY <1>1 DEF thrVars, Store!storeVars, Programmed, Converted
<1>2. CASE steady' = steady /\ hw' = hw /\ last'.outcome \in {"none", "refused"}
  BY <1>2 DEF Store!Next, Store!Refuse
<1>3. CASE steady' = steady /\ ~steady /\ DOMAIN hw' = DOMAIN hw
  BY <1>3 DEF Store!Next, Store!Trouble
<1>4. CASE ConfigureThresholds
  <2>1. PICK named : \E asked \in [named -> Values] : \E index, inRange :
          Refused(index, asked, inRange) \/ SetRefused(index, asked, inRange)
            \/ Set(index, asked, inRange) \/ SetFails(index, asked, inRange)
    BY <1>4 DEF ConfigureThresholds
  <2>2. PICK asked \in [named -> Values] : \E index, inRange :
          Refused(index, asked, inRange) \/ SetRefused(index, asked, inRange)
            \/ Set(index, asked, inRange) \/ SetFails(index, asked, inRange)
    BY <2>1
  <2>3. PICK index, inRange :
          Refused(index, asked, inRange) \/ SetRefused(index, asked, inRange)
            \/ Set(index, asked, inRange) \/ SetFails(index, asked, inRange)
    BY <2>2
  <2>4. CASE Refused(index, asked, inRange) \/ SetRefused(index, asked, inRange)
    BY <1>2, <2>4 DEF Refused, SetRefused, Outcome
  <2>5. ThrInv'
    BY ThrInvStep
  <2>6. CASE SetFails(index, asked, inRange) \/ (Set(index, asked, inRange) /\ tainted)
    <3>1. ~steady /\ steady' = steady /\ realm' = realm
      BY <2>6 DEF SetFails, Set, ThrInv
    <3>2. DOMAIN hw' = DOMAIN hw
      BY <2>5, <3>1 DEF ThrInv, ThrTypes, Programmed
    <3> QED BY <1>3, <3>1, <3>2
  <2>7. CASE Set(index, asked, inRange) /\ ~tainted
    <3>1. Store!Configure
      BY <2>7, StoreConfigures
    <3>2. UNCHANGED (~steady)
      BY <2>7 DEF Set
    <3> QED BY <3>1, <3>2 DEF Store!Next
  <2> QED BY <2>3, <2>4, <2>6, <2>7
<1>5. CASE ClearThresholds
  <2>1. /\ hw' = Cleared(Len(RealmProgram[realm])) /\ last' = Outcome({}, <<>>, "cleared")
        /\ steady' = steady
    BY <1>5 DEF ClearThresholds
  <2>2. ThrTypes
    BY DEF ThrInv
  <2>3. hw' = [f \in Programmed |-> Limit] /\ DOMAIN hw = Programmed
    BY <2>1, <2>2, ClearedFacts DEF ThrTypes
  <2> QED BY <2>1, <2>3 DEF Store!Next, Store!Clear, Outcome
<1>6. CASE ClearFails \/ ClearUnread
  <2>1. ~steady /\ steady' = steady /\ realm' = realm
    BY <1>6 DEF ClearFails, ClearUnread
  <2>2. ThrInv'
    BY ThrInvStep
  <2>3. DOMAIN hw' = DOMAIN hw
    BY <2>1, <2>2 DEF ThrInv, ThrTypes, Programmed
  <2> QED BY <1>3, <2>1, <2>3
<1>7. CASE last = NoCommand /\ SetUnits
  BY <1>2, <1>7 DEF SetUnits, NoCommand
<1>8. CASE Replied
  BY <1>2, <1>8 DEF Replied, NoCommand
<1> QED BY <1>1, <1>4, <1>5, <1>6, <1>7, <1>8 DEF ThrNext, Command

\* A request that succeeds changes what it names, all of it, to what it asked
\* for and nothing else, in all eleven realms and with any values; only a switch
\* that fails makes it otherwise, and even such a request leaves alone what it
\* does not name, unless an earlier failure left the cache behind (bst.c:1507).
THEOREM ThresholdsUnmixedHold == ThrSpec => ThresholdsUnmixed
<1>1. ThrInv /\ [ThrNext]_thrVars => [UnnamedIsKept]_thrVars
  BY UnnamedStep
<1>2. ThrSpec => UnnamedKept
  BY <1>1, ThrInvHolds, PTL DEF ThrSpec, UnnamedKept, UnnamedIsKept
<1>3. ThrInv /\ ThrInit => Store!Init
  BY StoreInit
<1>4. ThrInv /\ [ThrNext]_thrVars => [Store!Next]_(Store!storeVars)
  BY StoreStep
<1>5. ThrSpec => ThresholdsKept
  BY <1>3, <1>4, ThrInvHolds, PTL DEF ThrSpec, ThresholdsKept, Store!Spec
<1> QED BY <1>2, <1>5 DEF ThresholdsUnmixed

(***************************************************************************)
(* The pools that answers are written in.                                  *)
(***************************************************************************)
Owned(size, s) == <<size, s>> \in lost \/ held = <<size, s>>

\* A slice has one owner, and one that is in use has an owner.
PoolInv ==
  /\ pool \in Pools
  /\ Sizes \subseteq DOMAIN slices /\ DOMAIN slices \subseteq {"response", "report"}
  /\ \A size \in DOMAIN slices : slices[size] \in [Slices(size) -> BOOLEAN]
  /\ slices = [size \in DOMAIN slices |-> slices[size]]
  /\ \A size \in DOMAIN slices : \A s \in Slices(size) : slices[size][s] <=> Owned(size, s)
  /\ \A l \in lost : \E size \in Sizes : \E s \in Slices(size) : l = <<size, s>>
  /\ held = Nothing \/ \E size \in Sizes : \E s \in Slices(size) : held = <<size, s>>
  /\ held \notin lost
  /\ denied \in BOOLEAN
  /\ denied => \E size \in Sizes : \A s \in Slices(size) : <<size, s>> \in lost

LEMMA SlicesFacts ==
  ASSUME NEW size \in {"response", "report"}
  PROVE  Slices(size) \in SUBSET Nat /\ IsFiniteSet(Slices(size))
<1>1. PICK n \in Nat : Slices(size) = 1 .. n
  BY JsonMemoryAssumption DEF Slices
<1> QED BY <1>1, FS_Interval

LEMMA SizesFacts ==
  /\ Sizes \subseteq {"response", "report"}
  /\ \A size \in {"response", "report"} : \A s : <<size, s>> # Nothing
  BY DEF Sizes, Nothing

LEMMA PoolInvInit == PoolInit => PoolInv
<1> SUFFICES ASSUME PoolInit PROVE PoolInv
  OBVIOUS
<1>1. pool \in Pools /\ held = Nothing /\ lost = {} /\ denied = FALSE
  BY DEF PoolInit
<1>2. PICK sizes \in SUBSET {"response", "report"} :
        Sizes \subseteq sizes /\ slices = [size \in sizes |-> [s \in Slices(size) |-> FALSE]]
  <2>1. CASE pool \in {"bst", "pt", "bhd"}
    <3>1. slices = BstMemoryInit
      BY <2>1 DEF PoolInit, PtMemoryInit, BhdMemoryInit
    <3> QED BY <3>1, SizesFacts DEF BstMemoryInit
  <2>2. CASE pool = "system"
    <3>1. slices = SystemMemoryInit
      BY <2>2 DEF PoolInit
    <3> QED BY <2>2, <3>1 DEF SystemMemoryInit, Sizes
  <2> QED BY <1>1, <2>1, <2>2 DEF Pools
<1>3. \A size \in sizes : \A s : ~Owned(size, s)
  BY <1>1, SizesFacts DEF Owned
<1> QED BY <1>1, <1>2, <1>3 DEF PoolInv

\* The search finds a free slice if there is one.
LEMMA SearchFacts ==
  ASSUME PoolInv, NEW size \in Sizes
  PROVE  (~\E s \in DOMAIN slices[size] : FirstFree(size, s)) => \A s \in Slices(size) : slices[size][s]
<1>1. DOMAIN slices[size] = Slices(size)
  BY DEF PoolInv
<1>2. Free(size) \in SUBSET Nat /\ Free(size) = {s \in Slices(size) : ~slices[size][s]}
  BY <1>1, SlicesFacts, SizesFacts DEF Free
<1>3. Free(size) # {} => \E s \in Free(size) : \A t \in Free(size) : s <= t
  BY <1>2, LeastExists
<1> QED BY <1>1, <1>2, <1>3 DEF FirstFree

LEMMA PoolEncode ==
  ASSUME PoolInv, Encode
  PROVE  PoolInv'
<1>1. PICK size \in Sizes : Allocate(size)
  BY DEF Encode, BstAllocate, PtAllocate, BhdAllocate, SystemAllocate
<1>2. held = Nothing /\ pool' = pool /\ lost' = lost
  BY DEF Encode
<1>3. Sizes' = Sizes
  BY <1>2 DEF Sizes
<1>4. CASE \E s \in DOMAIN slices[size] : FirstFree(size, s) /\ slices' = [slices EXCEPT ![size][s] = TRUE]
                                            /\ held' = <<size, s>> /\ denied' = FALSE
  <2>1. PICK s \in Slices(size) :
          /\ ~slices[size][s] /\ slices' = [slices EXCEPT ![size][s] = TRUE]
          /\ held' = <<size, s>> /\ denied' = FALSE
    BY <1>4 DEF PoolInv, FirstFree, Free
  <2>2. ~Owned(size, s)
    BY <2>1 DEF PoolInv
  <2>3. /\ DOMAIN slices' = DOMAIN slices /\ slices' = [z \in DOMAIN slices |-> slices'[z]]
        /\ \A z \in DOMAIN slices : slices'[z] \in [Slices(z) -> BOOLEAN]
        /\ \A z \in DOMAIN slices : \A t \in Slices(z) :
             slices'[z][t] = IF z = size /\ t = s THEN TRUE ELSE slices[z][t]
    BY <2>1 DEF PoolInv
  <2>4. \A z \in DOMAIN slices : \A t \in Slices(z) : slices'[z][t] <=> Owned(z, t)'
    <3> SUFFICES ASSUME NEW z \in DOMAIN slices, NEW t \in Slices(z)
             PROVE  slices'[z][t] <=> Owned(z, t)'
      OBVIOUS
    <3>1. <<z, t>> # Nothing /\ (slices[z][t] <=> Owned(z, t))
      BY SizesFacts DEF PoolInv
    <3>2. CASE z = size /\ t = s
      BY <2>1, <2>3, <3>2 DEF Owned
    <3>3. CASE ~(z = size /\ t = s)
      <4>1. slices'[z][t] = slices[z][t] /\ held' # <<z, t>> /\ held # <<z, t>>
        BY <1>2, <2>1, <2>3, <3>1, <3>3
      <4> QED BY <1>2, <3>1, <4>1 DEF Owned
    <3> QED BY <3>2, <3>3
  <2>5. held' \notin lost'
    BY <1>2, <2>1, <2>2 DEF Owned
  <2> QED BY <1>2, <1>3, <2>1, <2>3, <2>4, <2>5 DEF PoolInv
<1>5. CASE (~\E s \in DOMAIN slices[size] : FirstFree(size, s)) /\ denied' = TRUE /\ UNCHANGED <<slices, held>>
  <2>1. \A s \in Slices(size) : <<size, s>> \in lost
    <3>1. \A s \in Slices(size) : Owned(size, s)
      BY <1>5, SearchFacts DEF PoolInv
    <3> QED BY <1>2, <3>1, SizesFacts DEF Owned
  <2> QED BY <1>2, <1>3, <1>5, <2>1 DEF PoolInv, Owned
<1> QED BY <1>1, <1>4, <1>5 DEF Allocate

LEMMA PoolGivesUp ==
  ASSUME PoolInv, GivesUp
  PROVE  PoolInv'
<1>1. held # Nothing /\ held' = Nothing /\ lost' = lost \cup {held} /\ UNCHANGED <<pool, slices, denied>>
  BY DEF GivesUp
<1>2. Sizes' = Sizes
  BY <1>1 DEF Sizes
<1>3. \A size \in DOMAIN slices : \A s \in Slices(size) : Owned(size, s)' <=> Owned(size, s)
  BY <1>1, SizesFacts DEF Owned, PoolInv
<1>4. Nothing \notin lost'
  BY <1>1, SizesFacts DEF PoolInv
<1> QED BY <1>1, <1>2, <1>3, <1>4 DEF PoolInv

LEMMA PoolAnswered ==
  ASSUME PoolInv, Answered
  PROVE  PoolInv'
<1>1. /\ held # Nothing /\ slices' = [slices EXCEPT ![held[1]][held[2]] = FALSE]
      /\ held' = Nothing /\ UNCHANGED <<pool, lost, denied>>
  BY DEF Answered, BstFree, PtFree, BhdFree, SystemFree, FreeSlice
<1>2. Sizes' = Sizes
  BY <1>1 DEF Sizes
<1>3. PICK size \in Sizes : \E s \in Slices(size) : held = <<size, s>>
  BY <1>1 DEF PoolInv
<1>4. PICK s \in Slices(size) : held = <<size, s>>
  BY <1>3
<1>5. slices' = [slices EXCEPT ![size][s] = FALSE]
  BY <1>1, <1>4
<1>6. /\ DOMAIN slices' = DOMAIN slices /\ slices' = [z \in DOMAIN slices |-> slices'[z]]
      /\ \A z \in DOMAIN slices : slices'[z] \in [Slices(z) -> BOOLEAN]
      /\ \A z \in DOMAIN slices : \A t \in Slices(z) :
           slices'[z][t] = IF z = size /\ t = s THEN FALSE ELSE slices[z][t]
  BY <1>5 DEF PoolInv
<1>7. \A z \in DOMAIN slices : \A t \in Slices(z) : slices'[z][t] <=> Owned(z, t)'
  <2> SUFFICES ASSUME NEW z \in DOMAIN slices, NEW t \in Slices(z)
             PROVE  slices'[z][t] <=> Owned(z, t)'
    OBVIOUS
  <2>1. <<z, t>> # Nothing /\ (slices[z][t] <=> Owned(z, t))
    BY SizesFacts DEF PoolInv
  <2>2. CASE z = size /\ t = s
    <3>1. ~slices'[z][t] /\ held' # <<z, t>> /\ <<z, t>> \notin lost'
      BY <1>1, <1>4, <1>6, <2>1, <2>2 DEF PoolInv
    <3> QED BY <3>1 DEF Owned
  <2>3. CASE ~(z = size /\ t = s)
    <3>1. slices'[z][t] = slices[z][t] /\ held' # <<z, t>> /\ held # <<z, t>>
      <4>1. slices'[z][t] = slices[z][t]
        BY <1>6, <2>3
      <4>2. held' # <<z, t>>
        BY <1>1, <2>1
      <4>3. held # <<z, t>>
        BY <1>4, <2>3
      <4> QED BY <4>1, <4>2, <4>3
    <3> QED BY <1>1, <2>1, <3>1 DEF Owned
  <2> QED BY <2>2, <2>3
<1>8. held' \notin lost'
  BY <1>1, SizesFacts DEF PoolInv
<1> QED BY <1>1, <1>2, <1>6, <1>7, <1>8 DEF PoolInv

LEMMA PoolInvHolds == PoolSpec => []PoolInv
<1>1. ASSUME PoolInv, [PoolNext]_poolVars PROVE PoolInv'
  <2>1. CASE UNCHANGED poolVars
    BY <1>1, <2>1 DEF poolVars, PoolInv, Sizes, Owned
  <2> QED BY <1>1, <2>1, PoolEncode, PoolGivesUp, PoolAnswered DEF PoolNext, PoolDone
<1> QED BY <1>1, PoolInvInit, PTL DEF PoolSpec

\* For pools of any size: a slice is never given to two documents, one is in use
\* only for the document being written or because an encoder gave up, and a
\* document finds none only when encoders have given up for each slice of its
\* size: answering costs none (bst_json_memory.c, pt_json_memory.c and the like).
THEOREM PoolsServeHolds == PoolSpec => []PoolsServe
<1>1. PoolInv => SlicesAccounted
  <2> SUFFICES ASSUME PoolInv PROVE SlicesAccounted
    OBVIOUS
  <2> DEFINE inUse == UNION {{<<size, s>> : s \in DOMAIN slices[size] \ Free(size)} : size \in DOMAIN slices}
  <2>1. \A size \in DOMAIN slices : DOMAIN slices[size] \ Free(size) = {s \in Slices(size) : Owned(size, s)}
    BY DEF PoolInv, Free
  <2>2. inUse = UNION {{<<size, s>> : s \in {t \in Slices(size) : Owned(size, t)}} : size \in DOMAIN slices}
    BY <2>1
  <2> HIDE DEF inUse
  <2>3. ASSUME NEW u \in inUse PROVE u \in lost \cup ({held} \ {Nothing})
    <3>1. PICK size \in DOMAIN slices : \E s \in Slices(size) : u = <<size, s>> /\ Owned(size, s)
      BY <2>2
    <3> QED BY <3>1, SizesFacts DEF Owned, PoolInv
  <2>4. ASSUME NEW l \in lost \cup ({held} \ {Nothing}) PROVE l \in inUse
    <3>1. PICK size \in Sizes : \E s \in Slices(size) : l = <<size, s>>
      BY <2>4 DEF PoolInv
    <3>2. PICK s \in Slices(size) : l = <<size, s>>
      BY <3>1
    <3>3. Owned(size, s) /\ size \in DOMAIN slices
      BY <2>4, <3>2 DEF Owned, PoolInv
    <3> QED BY <2>2, <3>2, <3>3
  <2> QED BY <2>3, <2>4 DEF PoolInv, SlicesAccounted, inUse
<1>2. PoolInv => PoolServes
  <2> SUFFICES ASSUME PoolInv, denied
               PROVE  \E size \in Sizes : Cardinality({l \in lost : l[1] = size}) = Cardinality(DOMAIN slices[size])
    BY DEF PoolServes
  <2>1. PICK size \in Sizes : \A s \in Slices(size) : <<size, s>> \in lost
    BY DEF PoolInv
  <2> DEFINE ofSize == {l \in lost : l[1] = size}
  <2>2. ofSize = {<<size, s>> : s \in Slices(size)}
    BY <2>1 DEF PoolInv
  <2>3. DOMAIN slices[size] = Slices(size) /\ IsFiniteSet(Slices(size))
    BY SlicesFacts, SizesFacts DEF PoolInv
  <2> DEFINE pair == [s \in Slices(size) |-> <<size, s>>]
  <2>4. pair \in Bijection(Slices(size), ofSize)
    BY <2>2 DEF Bijection, Injection, Surjection, IsInjective
  <2> HIDE DEF pair, ofSize
  <2>5. Cardinality(ofSize) = Cardinality(Slices(size))
    BY <2>3, <2>4, FS_Bijection DEF ExistsBijection
  <2> QED BY <2>3, <2>5 DEF ofSize
<1> QED BY <1>1, <1>2, PoolInvHolds, PTL DEF PoolsServe

(***************************************************************************)
(* Decoding.  The 29 sequences of members: which of them decide the        *)
(* variant of a command, and that no two of one kind share a name.         *)
(***************************************************************************)
Fields == {"name", "kind", "lo", "hi", "needed", "masked", "only"}

Kinds == {"object", "unchecked", "number", "amount", "text", "string", "notation", "asic", "choice",
          "method", "address", "udpport", "wild", "packet", "ports", "allports"}

\* A member that decides nothing, of every variant or of some.
Trails(m) ==
  /\ DOMAIN m = Fields
  /\ m.kind \in Kinds \ {"wild", "udpport", "method"} /\ m.name # "src-ip"
  /\ m.only \in {"all", "tuple", "packet", "agent", "sflow"}
IsPlain(m) == Trails(m) /\ m.only = "all"

LEMMA OfIs ==
  ASSUME NEW name, name # "src-ip", NEW kind \in Kinds \ {"wild", "udpport", "method"}, NEW lo, NEW hi
  PROVE  IsPlain(Member(name, kind, lo, hi)) /\ IsPlain(Of(kind, name))
  BY DEF IsPlain, Trails, Member, Of, Fields

LEMMA NumberIs ==
  ASSUME NEW name, name # "src-ip", NEW lo, NEW hi
  PROVE  IsPlain(Number(name, lo, hi)) /\ IsPlain(Flag(name))
  BY DEF IsPlain, Trails, Member, Number, Flag, Fields, Kinds

LEMMA OptionalIs ==
  ASSUME NEW m, IsPlain(m)
  PROVE  IsPlain(Optional(m)) /\ IsPlain(Masked(m))
  BY DEF Optional, Masked, IsPlain, Trails, Fields

LEMMA InIs ==
  ASSUME NEW m, IsPlain(m), NEW v, v \in {"tuple", "packet", "agent", "sflow"}
  PROVE  Trails(In(v, m))
  BY DEF In, IsPlain, Trails, Fields

-----------------------------------------------------------------------------
IsSeq(s) == s \in Seq({s[i] : i \in 1 .. Len(s)}) /\ Len(s) \in Nat
Plain(s) == IsSeq(s) /\ \A i \in 1 .. Len(s) : IsPlain(s[i])
Trail(s) == IsSeq(s) /\ \A i \in 1 .. Len(s) : Trails(s[i])

LEMMA SeqIs == ASSUME NEW S, NEW u \in Seq(S) PROVE IsSeq(u)
<1> DEFINE T == {u[i] : i \in 1 .. Len(u)}
<1>1. Len(u) \in Nat /\ u \in [1 .. Len(u) -> S]
  OBVIOUS
<1>2. u \in [1 .. Len(u) -> T]
  BY <1>1
<1> HIDE DEF T
<1>3. u \in Seq(T)
  BY <1>1, <1>2
<1> QED BY <1>1, <1>3 DEF IsSeq, T

LEMMA ConcatIs ==
  ASSUME NEW s, NEW t, IsSeq(s), IsSeq(t)
  PROVE  /\ IsSeq(s \o t) /\ Len(s \o t) = Len(s) + Len(t)
         /\ \A i \in 1 .. Len(s) : (s \o t)[i] = s[i]
         /\ \A i \in 1 .. Len(t) : (s \o t)[Len(s) + i] = t[i]
         /\ \A i \in 1 .. Len(s \o t) : (s \o t)[i] = IF i <= Len(s) THEN s[i] ELSE t[i - Len(s)]
<1> DEFINE S == {s[i] : i \in 1 .. Len(s)} \cup {t[i] : i \in 1 .. Len(t)}
<1>1. Len(s) \in Nat /\ Len(t) \in Nat /\ s \in Seq(S) /\ t \in Seq(S)
  BY DEF IsSeq
<1> HIDE DEF S
<1>2. /\ Len(s \o t) = Len(s) + Len(t) /\ s \o t \in Seq(S)
      /\ \A i \in 1 .. Len(s \o t) : (s \o t)[i] = IF i <= Len(s) THEN s[i] ELSE t[i - Len(s)]
  BY <1>1
<1>3. \A i \in 1 .. Len(t) : (s \o t)[Len(s) + i] = t[i]
  BY <1>1, <1>2
<1>4. IsSeq(s \o t)
  BY <1>2, SeqIs
<1> QED BY <1>1, <1>2, <1>3, <1>4

LEMMA PlainConcat ==
  ASSUME NEW s, NEW t, Plain(s), Plain(t)
  PROVE  Plain(s \o t)
<1> DEFINE u == s \o t
<1>1. /\ IsSeq(s) /\ IsSeq(t) /\ Len(s) \in Nat /\ Len(t) \in Nat
      /\ (\A i \in 1 .. Len(s) : IsPlain(s[i])) /\ (\A i \in 1 .. Len(t) : IsPlain(t[i]))
  BY DEF Plain, IsSeq
<1>2. /\ IsSeq(u) /\ Len(u) = Len(s) + Len(t)
      /\ \A i \in 1 .. Len(u) : u[i] = IF i <= Len(s) THEN s[i] ELSE t[i - Len(s)]
  BY <1>1, ConcatIs
<1> HIDE DEF u
<1>3. ASSUME NEW i \in 1 .. Len(u) PROVE IsPlain(u[i])
  <2>1. CASE i <= Len(s)
    BY <1>1, <1>2, <2>1
  <2>2. CASE ~(i <= Len(s))
    <3>1. i - Len(s) \in 1 .. Len(t) /\ u[i] = t[i - Len(s)]
      BY <1>1, <1>2, <2>2
    <3> QED BY <1>1, <3>1
  <2> QED BY <2>1, <2>2
<1> QED BY <1>2, <1>3 DEF Plain, u

LEMMA PlainTuples ==
  /\ \A a : IsPlain(a) => Plain(<<a>>)
  /\ \A a, b : IsPlain(a) /\ IsPlain(b) => Plain(<<a, b>>)
  /\ \A a, b, c : IsPlain(a) /\ IsPlain(b) /\ IsPlain(c) => Plain(<<a, b, c>>)
  /\ \A a, b, c, d : IsPlain(a) /\ IsPlain(b) /\ IsPlain(c) /\ IsPlain(d) => Plain(<<a, b, c, d>>)
<1>1. ASSUME NEW a, IsPlain(a) PROVE Plain(<<a>>)
  BY <1>1 DEF Plain, IsSeq
<1>2. ASSUME NEW a, NEW b, IsPlain(a), IsPlain(b) PROVE Plain(<<a, b>>)
  BY <1>2 DEF Plain, IsSeq
<1>3. ASSUME NEW a, NEW b, NEW c, IsPlain(a), IsPlain(b), IsPlain(c) PROVE Plain(<<a, b, c>>)
  BY <1>3 DEF Plain, IsSeq
<1>4. ASSUME NEW a, NEW b, NEW c, NEW d, IsPlain(a), IsPlain(b), IsPlain(c), IsPlain(d) PROVE Plain(<<a, b, c, d>>)
  BY <1>4 DEF Plain, IsSeq
<1> QED BY <1>1, <1>2, <1>3, <1>4

LEMMA HeaderIs == Plain(Header) /\ Plain(Preamble) /\ Plain(Id) /\ Plain(Preamble \o Id)
<1>1. Plain(Preamble) /\ Plain(Id)
  <2>1. IsPlain(Of("object", "params")) /\ IsPlain(Of("text", "jsonrpc")) /\ IsPlain(Of("text", "method"))
    BY OfIs DEF Kinds
  <2>2. IsPlain(Number("id", 1, 100000))
    BY NumberIs
  <2>3. Plain(Preamble)
    BY <2>1, PlainTuples DEF Preamble
  <2>4. Plain(Id)
    BY <2>2, PlainTuples DEF Id
  <2> QED BY <2>3, <2>4
<1>2. Plain(<<Of("notation", "asic-id")>>)
  BY OfIs, PlainTuples DEF Kinds
<1> QED BY <1>1, <1>2, PlainConcat DEF Header

LEMMA RealmFlagsAre == Plain(RealmFlags)
<1>1. Len(Realms11) = 11 /\ \A i \in 1 .. 11 : Realms11[i] # "src-ip"
  BY DEF Realms11
<1>2. \A i \in 1 .. 11 : IsPlain(Flag(Realms11[i]))
  BY <1>1, NumberIs
<1> QED BY <1>1, <1>2 DEF RealmFlags, Plain, IsSeq

LEMMA ThresholdValuesAre == Plain(ThresholdValues)
<1>1. Len(ThresholdNames) = 11 /\ \A i \in 1 .. 11 : ThresholdNames[i] # "src-ip"
  BY DEF ThresholdNames
<1>2. \A i \in 1 .. 11 : IsPlain(Optional(Masked(Of("amount", ThresholdNames[i]))))
  BY <1>1, OfIs, OptionalIs DEF Kinds
<1> QED BY <1>1, <1>2 DEF ThresholdValues, Plain, IsSeq

LEMMA FiveMembers ==
  ASSUME NEW a, NEW b, NEW c, NEW d, NEW e, IsPlain(a), IsPlain(b), IsPlain(c), IsPlain(d), IsPlain(e)
  PROVE  Plain(<<a, b, c, d, e>>)
  BY DEF Plain, IsSeq

LEMMA NineMembers ==
  ASSUME NEW a, NEW b, NEW c, NEW d, NEW e, NEW f, NEW g, NEW h, NEW i,
         IsPlain(a), IsPlain(b), IsPlain(c), IsPlain(d), IsPlain(e),
         IsPlain(f), IsPlain(g), IsPlain(h), IsPlain(i)
  PROVE  Plain(<<a, b, c, d, e, f, g, h, i>>)
  BY DEF Plain, IsSeq

LEMMA MaskedNumberIs ==
  ASSUME NEW name, name # "src-ip", NEW lo, NEW hi
  PROVE  /\ IsPlain(Masked(Number(name, lo, hi))) /\ IsPlain(Optional(Masked(Number(name, lo, hi))))
         /\ IsPlain(Masked(Flag(name))) /\ IsPlain(Optional(Masked(Flag(name))))
<1>1. IsPlain(Masked(Number(name, lo, hi))) /\ IsPlain(Masked(Flag(name)))
  BY NumberIs, OptionalIs
<1> QED BY <1>1, OptionalIs

LEMMA FeatureMembersAre == Plain(FeatureMembers)
<1>1. /\ IsPlain(Masked(Flag("bst-enable"))) /\ IsPlain(Masked(Flag("send-async-reports")))
      /\ IsPlain(Masked(Number("collection-interval", 0, 600))) /\ IsPlain(Masked(Flag("stat-units-in-cells")))
      /\ IsPlain(Optional(Masked(Number("trigger-rate-limit", 1, 30))))
      /\ IsPlain(Optional(Masked(Flag("send-snapshot-on-trigger"))))
      /\ IsPlain(Optional(Masked(Number("trigger-rate-limit-interval", 1, 60))))
      /\ IsPlain(Optional(Masked(Flag("async-full-reports"))))
      /\ IsPlain(Optional(Masked(Flag("stats-in-percentage"))))
  BY MaskedNumberIs
<1> QED BY <1>1, NineMembers DEF FeatureMembers

LEMMA ThresholdIndicesAre == Plain(ThresholdIndices)
<1>1. /\ IsPlain(Optional(Masked(Of("notation", "port")))) /\ IsPlain(Optional(Masked(Number("priority-group", 0, 7))))
      /\ IsPlain(Optional(Masked(Number("service-pool", 0, 3)))) /\ IsPlain(Optional(Masked(Number("queue", 0, 4095))))
      /\ IsPlain(Optional(Masked(Number("queue-group", 0, 127))))
  <2>1. IsPlain(Of("notation", "port"))
    BY OfIs DEF Kinds
  <2>2. IsPlain(Masked(Of("notation", "port")))
    BY <2>1, OptionalIs
  <2>3. IsPlain(Optional(Masked(Of("notation", "port"))))
    BY <2>2, OptionalIs
  <2> QED BY <2>3, MaskedNumberIs
<1> QED BY <1>1, FiveMembers DEF ThresholdIndices

LEMMA DropMembersAre ==
  /\ Plain(DropRequestParams)
  /\ Plain(<<Optional(Number("collection-interval", 0, 3600)), Masked(Of("choice", "request-type")),
             Of("object", "request-params")>>)
<1>1. /\ IsPlain(Optional(Masked(Number("count", 1, 64)))) /\ IsPlain(Optional(Masked(Of("allports", "port-list"))))
      /\ IsPlain(Optional(Masked(Of("choice", "queue-type")))) /\ IsPlain(Optional(Masked(Of("unchecked", "queue-list"))))
  BY NumberIs, OfIs, OptionalIs DEF Kinds
<1>2. /\ IsPlain(Optional(Number("collection-interval", 0, 3600))) /\ IsPlain(Masked(Of("choice", "request-type")))
      /\ IsPlain(Of("object", "request-params"))
  <2>1. IsPlain(Number("collection-interval", 0, 3600))
    BY NumberIs
  <2>2. IsPlain(Of("choice", "request-type")) /\ IsPlain(Of("object", "request-params"))
    BY OfIs DEF Kinds
  <2> QED BY <2>1, <2>2, OptionalIs
<1>3. Plain(DropRequestParams)
  BY <1>1, PlainTuples DEF DropRequestParams
<1> QED BY <1>2, <1>3, PlainTuples

\* The commands without variants: all but three of packet trace and one of
\* black hole detection.
Variants == {"get_packet_trace_profile", "get_lag_resolution", "get_ecmp_resolution", "configure_black_hole"}

LEMMA PlainCommands == \A c \in Commands \ Variants : Plain(Decoder[c])
<1>1. Plain(Header)
  BY HeaderIs
<1>2. Plain(GetBstReport) /\ Plain(GetBstThresholds)
  BY HeaderIs, RealmFlagsAre, PlainConcat DEF GetBstReport, GetBstThresholds, ReportIncludes, ThresholdIncludes
<1>3. Plain(ConfigureBstTracking)
  <2>1. Plain(<<Flag("track-peak-stats")>>)
    BY NumberIs, PlainTuples
  <2> QED BY <2>1, HeaderIs, RealmFlagsAre, PlainConcat DEF ConfigureBstTracking, TrackFlags
<1>4. Plain(ConfigureBstFeature)
  BY HeaderIs, FeatureMembersAre, PlainConcat DEF ConfigureBstFeature
<1>5. Plain(ConfigureBstThresholds)
  <2>1. Plain(<<Of("string", "realm")>>)
    BY OfIs, PlainTuples DEF Kinds
  <2> QED BY <2>1, HeaderIs, ThresholdIndicesAre, ThresholdValuesAre, PlainConcat DEF ConfigureBstThresholds
<1>6. Plain(GetBstCgsnDropCounters)
  BY HeaderIs, DropMembersAre, PlainConcat DEF GetBstCgsnDropCounters
<1>7. Plain(ConfigurePacketTraceFeature) /\ Plain(ConfigureBlackHoleDetection)
  <2>1. Plain(<<Flag("packet-trace-enable")>>) /\ Plain(<<Flag("enable")>>)
    BY NumberIs, PlainTuples
  <2> QED BY <2>1, HeaderIs, PlainConcat DEF ConfigurePacketTraceFeature, ConfigureBlackHoleDetection
<1>8. Plain(CancelPacketTraceProfile) /\ Plain(CancelLagResolution) /\ Plain(CancelEcmpResolution)
  <2>1. Plain(<<Number("params-id", 1, 100000)>>)
    <3>1. IsPlain(Number("params-id", 1, 100000))
      BY NumberIs
    <3> QED BY <3>1, PlainTuples
  <2> QED BY <2>1, HeaderIs, PlainConcat DEF CancelPacketTraceProfile, CancelLagResolution, CancelEcmpResolution
<1>9. Plain(GetSflowSamplingStatus)
  <2>1. Plain(<<Of("object", "params"), Of("ports", "port-list")>>)
    BY OfIs, PlainTuples DEF Kinds
  <2> QED BY <2>1, HeaderIs, PlainConcat DEF GetSflowSamplingStatus
<1>10. Plain(ConfigureRegHbFeature)
  <2>1. Plain(<<Masked(Flag("heartbeat-enable")), Masked(Number("msg-interval", 1, 600))>>)
    <3>1. IsPlain(Masked(Flag("heartbeat-enable"))) /\ IsPlain(Masked(Number("msg-interval", 1, 600)))
      BY MaskedNumberIs
    <3> QED BY <3>1, PlainTuples
  <2> QED BY <2>1, HeaderIs, PlainConcat DEF ConfigureRegHbFeature
<1>11. Plain(GetSwitchProperties)
  <2>1. Plain(<<Optional(Of("asic", "asic-id"))>>)
    BY OfIs, OptionalIs, PlainTuples DEF Kinds
  <2> QED BY <2>1, HeaderIs, PlainConcat DEF GetSwitchProperties
<1>12. Plain(CancelRequest)
  <2>1. Plain(<<Of("amount", "request-id")>>)
    BY OfIs, PlainTuples DEF Kinds
  <2> QED BY <2>1, HeaderIs, PlainConcat DEF CancelRequest
<1>13. \A c \in {"clear_bst_statistics", "clear_bst_thresholds", "get_bst_feature", "get_bst_tracking",
                  "get_bst_switch_properties", "get_packet_trace_feature", "cancel_black_hole",
                  "get_black_hole", "get_black_hole_detection"} : Decoder[c] = Header
  BY DEF Decoder, ClearBstStatistics, ClearBstThresholds, GetBstFeature, GetBstTracking,
         GetBstSwitchProperties, GetPacketTraceFeature, CancelBlackHoleCommand, GetBlackHole,
         GetBlackHoleDetection
<1>14. /\ Decoder["get_bst_report"] = GetBstReport /\ Decoder["get_bst_thresholds"] = GetBstThresholds
       /\ Decoder["configure_bst_tracking"] = ConfigureBstTracking
       /\ Decoder["configure_bst_feature"] = ConfigureBstFeature
       /\ Decoder["configure_bst_thresholds"] = ConfigureBstThresholds
       /\ Decoder["get_bst_cgsn_drop_counters"] = GetBstCgsnDropCounters
       /\ Decoder["configure_packet_trace_feature"] = ConfigurePacketTraceFeature
       /\ Decoder["cancel_packet_trace_profile"] = CancelPacketTraceProfile
       /\ Decoder["cancel_lag_resolution"] = CancelLagResolution
       /\ Decoder["cancel_ecmp_resolution"] = CancelEcmpResolution
       /\ Decoder["configure_black_hole_detection"] = ConfigureBlackHoleDetection
       /\ Decoder["get_sflow_sampling_status"] = GetSflowSamplingStatus
       /\ Decoder["get_reg_hb_feature"] = Preamble \o Id
       /\ Decoder["configure_reg_hb_feature"] = ConfigureRegHbFeature
       /\ Decoder["get_switch_properties"] = GetSwitchProperties
       /\ Decoder["cancel_request"] = CancelRequest
  BY DEF Decoder, GetRegHbFeature
<1>15. Commands \ Variants =
         {"clear_bst_statistics", "clear_bst_thresholds", "get_bst_feature", "get_bst_tracking",
          "get_bst_switch_properties", "get_packet_trace_feature", "cancel_black_hole",
          "get_black_hole", "get_black_hole_detection"}
         \cup {"get_bst_report", "get_bst_thresholds", "configure_bst_tracking", "configure_bst_feature",
               "configure_bst_thresholds", "get_bst_cgsn_drop_counters", "configure_packet_trace_feature",
               "cancel_packet_trace_profile", "cancel_lag_resolution", "cancel_ecmp_resolution"}
         \cup {"configure_black_hole_detection", "get_sflow_sampling_status", "get_reg_hb_feature",
               "configure_reg_hb_feature", "get_switch_properties", "cancel_request"}
  BY DEF Commands, Decoder, Variants
<1> SUFFICES ASSUME NEW c \in Commands \ Variants PROVE Plain(Decoder[c])
  OBVIOUS
<1>16. CASE c \in {"clear_bst_statistics", "clear_bst_thresholds", "get_bst_feature", "get_bst_tracking",
                   "get_bst_switch_properties", "get_packet_trace_feature", "cancel_black_hole",
                   "get_black_hole", "get_black_hole_detection"}
  BY <1>1, <1>13, <1>16
<1>17. CASE c \in {"get_bst_report", "get_bst_thresholds", "configure_bst_tracking", "configure_bst_feature",
                   "configure_bst_thresholds", "get_bst_cgsn_drop_counters", "configure_packet_trace_feature",
                   "cancel_packet_trace_profile", "cancel_lag_resolution", "cancel_ecmp_resolution"}
  BY <1>2, <1>3, <1>4, <1>5, <1>6, <1>7, <1>8, <1>14, <1>17
<1>18. CASE c \in {"configure_black_hole_detection", "get_sflow_sampling_status", "get_reg_hb_feature",
                   "configure_reg_hb_feature", "get_switch_properties", "cancel_request"}
  BY <1>7, <1>9, <1>10, <1>11, <1>12, <1>14, <1>18, HeaderIs
<1> QED BY <1>15, <1>16, <1>17, <1>18

-----------------------------------------------------------------------------
(* The commands with variants.  The members that decide the variant come    *)
(* before all that belong to one.                                           *)

Decides(m) == m.kind = "method" \/ m.name = "src-ip"
Unique == {"wild", "udpport"}

\* A method must be there; a member of a 5-tuple is the source address, which may be left out, or belongs
\* to the variant and must be there.
Decidable(m) ==
  /\ m.kind \in Kinds /\ (m.kind = "method" => m.needed)
  /\ m.only \in {"all", "tuple", "packet", "agent", "sflow"}
  /\ m.kind = "wild" /\ m.name # "src-ip" => m.only = "tuple" /\ m.needed
  /\ m.name = "src-ip" => m.kind = "wild"
  /\ Decides(m) => m.only = "all"

Ordered(s) ==
  /\ IsSeq(s)
  /\ \A i \in 1 .. Len(s) : Decidable(s[i])
  /\ \A i, j \in 1 .. Len(s) : s[i].kind \in Unique /\ s[i].kind = s[j].kind /\ s[i].name = s[j].name => i = j
  /\ \A i, j \in 1 .. Len(s) : j <= i /\ Decides(s[i]) => s[j].only = "all"

NoPorts(s) == \A i \in 1 .. Len(s) : s[i].kind # "udpport"

\* What may follow: members that decide nothing and are in no 5-tuple.
Late(s) ==
  /\ IsSeq(s)
  /\ \A i \in 1 .. Len(s) : Decidable(s[i]) /\ ~Decides(s[i]) /\ s[i].kind # "wild"
  /\ \A i, j \in 1 .. Len(s) : s[i].kind \in Unique /\ s[i].kind = s[j].kind /\ s[i].name = s[j].name => i = j

LEMMA PlainOrdered == ASSUME NEW s, Plain(s) PROVE Ordered(s) /\ NoPorts(s)
  BY DEF Plain, IsPlain, Trails, Ordered, NoPorts, Decidable, Decides, Unique, Kinds

LEMMA TrailLate == ASSUME NEW s, Trail(s) PROVE Late(s) /\ NoPorts(s)
  BY DEF Trail, Trails, Late, NoPorts, Decidable, Decides, Unique, Kinds

LEMMA PlainBefore ==
  ASSUME NEW s, NEW t, Plain(s), Ordered(t)
  PROVE  Ordered(s \o t) /\ (NoPorts(t) => NoPorts(s \o t))
<1> DEFINE u == s \o t
<1>1. /\ IsSeq(s) /\ IsSeq(t) /\ Len(s) \in Nat /\ Len(t) \in Nat
  BY DEF Plain, IsSeq, Ordered
<1>2. \A i \in 1 .. Len(s) : s[i].only = "all" /\ ~Decides(s[i]) /\ s[i].kind \notin Unique /\ Decidable(s[i])
  BY DEF Plain, IsPlain, Trails, Decides, Unique, Decidable, Kinds
<1>3. /\ IsSeq(u) /\ Len(u) = Len(s) + Len(t)
      /\ \A i \in 1 .. Len(u) : u[i] = IF i <= Len(s) THEN s[i] ELSE t[i - Len(s)]
  BY <1>1, ConcatIs
<1> HIDE DEF u
<1>4. ASSUME NEW i \in 1 .. Len(u)
      PROVE  \/ i \in 1 .. Len(s) /\ u[i] = s[i]
             \/ i > Len(s) /\ i - Len(s) \in 1 .. Len(t) /\ u[i] = t[i - Len(s)]
  BY <1>1, <1>3
<1>5. \A i \in 1 .. Len(u) : Decidable(u[i])
  BY <1>2, <1>4 DEF Ordered
<1>6. ASSUME NEW i \in 1 .. Len(u), NEW j \in 1 .. Len(u),
             u[i].kind \in Unique, u[i].kind = u[j].kind, u[i].name = u[j].name
      PROVE  i = j
  <2>1. i - Len(s) \in 1 .. Len(t) /\ j - Len(s) \in 1 .. Len(t) /\ u[i] = t[i - Len(s)] /\ u[j] = t[j - Len(s)]
    BY <1>2, <1>4, <1>6
  <2>2. i - Len(s) = j - Len(s)
    BY <1>6, <2>1 DEF Ordered
  <2> QED BY <1>1, <2>2
<1>7. ASSUME NEW i \in 1 .. Len(u), NEW j \in 1 .. Len(u), j <= i, Decides(u[i]) PROVE u[j].only = "all"
  <2>1. i - Len(s) \in 1 .. Len(t) /\ u[i] = t[i - Len(s)]
    BY <1>2, <1>4, <1>7
  <2>2. CASE j \in 1 .. Len(s) /\ u[j] = s[j]
    BY <1>2, <2>2
  <2>3. CASE j - Len(s) \in 1 .. Len(t) /\ u[j] = t[j - Len(s)]
    <3>1. j - Len(s) <= i - Len(s)
      BY <1>1, <1>7
    <3> QED BY <1>7, <2>1, <2>3, <3>1 DEF Ordered
  <2> QED BY <1>4, <2>2, <2>3
<1>8. NoPorts(t) => NoPorts(u)
  BY <1>2, <1>4 DEF NoPorts, Unique
<1> QED BY <1>3, <1>5, <1>6, <1>7, <1>8 DEF Ordered, u

LEMMA LateAfter ==
  ASSUME NEW s, NEW t, Ordered(s), NoPorts(s), Late(t)
  PROVE  Ordered(s \o t) /\ (NoPorts(t) => NoPorts(s \o t))
<1> DEFINE u == s \o t
<1>1. /\ IsSeq(s) /\ IsSeq(t) /\ Len(s) \in Nat /\ Len(t) \in Nat
  BY DEF Late, IsSeq, Ordered
<1>2. \A i \in 1 .. Len(t) : ~Decides(t[i]) /\ t[i].kind # "wild" /\ Decidable(t[i])
  BY DEF Late
<1>3. /\ IsSeq(u) /\ Len(u) = Len(s) + Len(t)
      /\ \A i \in 1 .. Len(u) : u[i] = IF i <= Len(s) THEN s[i] ELSE t[i - Len(s)]
  BY <1>1, ConcatIs
<1> HIDE DEF u
<1>4. ASSUME NEW i \in 1 .. Len(u)
      PROVE  \/ i \in 1 .. Len(s) /\ u[i] = s[i]
             \/ i > Len(s) /\ i - Len(s) \in 1 .. Len(t) /\ u[i] = t[i - Len(s)]
  BY <1>1, <1>3
<1>5. \A i \in 1 .. Len(u) : Decidable(u[i])
  BY <1>2, <1>4 DEF Ordered
<1>6. ASSUME NEW i \in 1 .. Len(u), NEW j \in 1 .. Len(u),
             u[i].kind \in Unique, u[i].kind = u[j].kind, u[i].name = u[j].name
      PROVE  i = j
  <2>1. CASE u[i].kind = "wild"
    <3>1. i \in 1 .. Len(s) /\ j \in 1 .. Len(s) /\ u[i] = s[i] /\ u[j] = s[j]
      BY <1>2, <1>4, <1>6, <2>1
    <3> QED BY <1>6, <3>1 DEF Ordered
  <2>2. CASE u[i].kind = "udpport"
    <3>1. i - Len(s) \in 1 .. Len(t) /\ j - Len(s) \in 1 .. Len(t) /\ u[i] = t[i - Len(s)] /\ u[j] = t[j - Len(s)]
      BY <1>4, <1>6, <2>2 DEF NoPorts
    <3>2. i - Len(s) = j - Len(s)
      BY <1>6, <3>1 DEF Late
    <3> QED BY <1>1, <3>2
  <2> QED BY <1>6, <2>1, <2>2 DEF Unique
<1>7. ASSUME NEW i \in 1 .. Len(u), NEW j \in 1 .. Len(u), j <= i, Decides(u[i]) PROVE u[j].only = "all"
  <2>1. i \in 1 .. Len(s) /\ u[i] = s[i]
    BY <1>2, <1>4, <1>7
  <2>2. j \in 1 .. Len(s) /\ u[j] = s[j]
    BY <1>1, <1>4, <1>7, <2>1
  <2> QED BY <1>7, <2>1, <2>2 DEF Ordered
<1>8. NoPorts(t) => NoPorts(u)
  BY <1>4 DEF NoPorts
<1> QED BY <1>3, <1>5, <1>6, <1>7, <1>8 DEF Ordered, u

LEMMA InFields ==
  ASSUME NEW m, DOMAIN m = Fields, NEW v
  PROVE  /\ DOMAIN In(v, m) = Fields
         /\ In(v, m).name = m.name /\ In(v, m).kind = m.kind
         /\ In(v, m).only = v /\ In(v, m).needed = m.needed
  BY DEF In, Fields

LEMMA OptionalFields ==
  ASSUME NEW m, DOMAIN m = Fields
  PROVE  /\ DOMAIN Optional(m) = Fields /\ Optional(m).needed = FALSE
         /\ Optional(m).name = m.name /\ Optional(m).kind = m.kind /\ Optional(m).only = m.only
  BY DEF Optional, Fields

\* The four kinds of entry that the sequences with variants are written with.
LEMMA OfFields ==
  ASSUME NEW name, NEW kind
  PROVE  /\ DOMAIN Of(kind, name) = Fields /\ Of(kind, name).name = name
         /\ Of(kind, name).kind = kind /\ Of(kind, name).only = "all"
  BY DEF Of, Member, Fields

LEMMA NumberFields ==
  ASSUME NEW name, NEW lo, NEW hi
  PROVE  /\ DOMAIN Number(name, lo, hi) = Fields /\ Number(name, lo, hi).name = name
         /\ Number(name, lo, hi).kind = "number" /\ Number(name, lo, hi).only = "all"
  BY DEF Number, Member, Fields

LEMMA TupleFields ==
  ASSUME NEW name, NEW lo, NEW hi
  PROVE  /\ Tuple(name, lo, hi).name = name /\ Tuple(name, lo, hi).kind = "wild"
         /\ Tuple(name, lo, hi).only = "tuple" /\ Tuple(name, lo, hi).needed
<1> DEFINE m == Member(name, "wild", lo, hi)
<1>1. DOMAIN m = Fields /\ m.name = name /\ m.kind = "wild" /\ m.needed = TRUE
  BY DEF Member, Fields
<1> HIDE DEF m
<1>2. In("tuple", m).name = name /\ In("tuple", m).kind = "wild" /\ In("tuple", m).only = "tuple" /\ In("tuple", m).needed
  BY <1>1, InFields
<1> QED BY <1>2 DEF Tuple, m

LEMMA SevenMembers ==
  ASSUME NEW a, NEW b, NEW c, NEW d, NEW e, NEW f, NEW g
  PROVE  LET s == <<a, b, c, d, e, f, g>>
         IN  /\ IsSeq(s) /\ Len(s) = 7
             /\ s[1] = a /\ s[2] = b /\ s[3] = c /\ s[4] = d /\ s[5] = e /\ s[6] = f /\ s[7] = g
  BY DEF IsSeq

\* The 5-tuple or the packet.
LEMMA ProfileSubjectIs == Ordered(ProfileSubject) /\ NoPorts(ProfileSubject)
<1> DEFINE s == ProfileSubject
           source == [Member("src-ip", "wild", 1, 1) EXCEPT !.needed = FALSE]
<1>1. /\ IsSeq(s) /\ Len(s) = 7
      /\ s[1] = source /\ s[2] = Tuple("dst-ip", 1, 1) /\ s[3] = Tuple("protocol", 0, 144)
      /\ s[4] = Tuple("l4-src-port", 0, 65535) /\ s[5] = Tuple("l4-dst-port", 0, 65535)
      /\ s[6] = In("tuple", Number("packet-limit", 1, 10)) /\ s[7] = In("packet", Of("packet", "packet"))
  <2> HIDE DEF source
  <2> QED BY SevenMembers DEF ProfileSubject, source
<1>2. s[1].kind = "wild" /\ s[1].name = "src-ip" /\ s[1].only = "all"
  <2> DEFINE m == Member("src-ip", "wild", 1, 1)
  <2>1. source = Optional(m)
    BY DEF Optional
  <2>2. DOMAIN m = Fields /\ m.name = "src-ip" /\ m.kind = "wild" /\ m.only = "all"
    BY DEF Member, Fields
  <2> HIDE DEF m
  <2>3. Optional(m).name = "src-ip" /\ Optional(m).kind = "wild" /\ Optional(m).only = "all"
    BY <2>2, OptionalFields
  <2> HIDE DEF s, source
  <2> QED BY <1>1, <2>1, <2>3
<1> HIDE DEF s, source
<1>4. /\ s[2].kind = "wild" /\ s[2].name = "dst-ip" /\ s[2].only = "tuple" /\ s[2].needed
      /\ s[3].kind = "wild" /\ s[3].name = "protocol" /\ s[3].only = "tuple" /\ s[3].needed
  BY <1>1, TupleFields
<1>5. /\ s[4].kind = "wild" /\ s[4].name = "l4-src-port" /\ s[4].only = "tuple" /\ s[4].needed
      /\ s[5].kind = "wild" /\ s[5].name = "l4-dst-port" /\ s[5].only = "tuple" /\ s[5].needed
  BY <1>1, TupleFields
<1>6. s[6].kind = "number" /\ s[6].name = "packet-limit" /\ s[6].only = "tuple"
  BY <1>1, NumberFields, InFields
<1>8. s[7].kind = "packet" /\ s[7].name = "packet" /\ s[7].only = "packet"
  BY <1>1, OfFields, InFields
<1>7. Decidable(s[2]) /\ Decidable(s[3]) /\ Decidable(s[4]) /\ Decidable(s[5]) /\ Decidable(s[1])
  BY <1>2, <1>4, <1>5 DEF Decidable, Decides, Kinds
<1>9. \A i \in 1 .. 7 : i = 1 \/ i = 2 \/ i = 3 \/ i = 4 \/ i = 5 \/ i = 6 \/ i = 7
  OBVIOUS
<1>10. \A i \in 1 .. 7 : Decidable(s[i]) /\ s[i].kind # "udpport" /\ (Decides(s[i]) => i = 1)
  BY <1>2, <1>4, <1>5, <1>6, <1>7, <1>8, <1>9 DEF Decidable, Decides, Kinds
<1>11. \A i, j \in 1 .. 7 : s[i].name = s[j].name => i = j
  BY <1>2, <1>4, <1>5, <1>6, <1>8, <1>9
<1>12. \A i, j \in 1 .. 7 : j <= i /\ Decides(s[i]) => s[j].only = "all"
  <2>1. ASSUME NEW i \in 1 .. 7, NEW j \in 1 .. 7, j <= i, Decides(s[i]) PROVE j = 1
    BY <1>10, <2>1
  <2> QED BY <1>2, <2>1
<1> QED BY <1>1, <1>10, <1>11, <1>12 DEF Ordered, NoPorts, s

LEMMA TrailTuple ==
  ASSUME NEW a, NEW b, NEW c, Trails(a), Trails(b), Trails(c)
  PROVE  Trail(<<a, b, c>>) /\ \A d : Trails(d) => Trail(<<a, b, c, d>>)
<1>1. Trail(<<a, b, c>>)
  BY DEF Trail, IsSeq
<1>2. ASSUME NEW d, Trails(d) PROVE Trail(<<a, b, c, d>>)
  BY <1>2 DEF Trail, IsSeq
<1> QED BY <1>1, <1>2

LEMMA ProfileRestsAre == Trail(ProfileRest) /\ Trail(LagRest)
<1>1. Trails(Of("ports", "port-list")) /\ Trails(Flag("drop-packet"))
  BY OfIs, NumberIs DEF IsPlain, Kinds
<1>2. IsPlain(Number("collection-interval", 0, 120)) /\ IsPlain(Number("collection-interval", 1, 30))
  BY NumberIs
<1>3. Trails(Number("collection-interval", 0, 120)) /\ Trails(In("packet", Number("collection-interval", 0, 120)))
      /\ Trails(In("tuple", Number("collection-interval", 1, 30)))
  BY <1>2, InIs DEF IsPlain
<1> QED BY <1>1, <1>3, TrailTuple DEF ProfileRest, LagRest

LEMMA AgentParamsAre == Trail(AgentParams)
<1>1. /\ IsPlain(Number("water-mark", 100, 10000)) /\ IsPlain(Optional(Number("sample-periodicity", 1, 3600)))
      /\ IsPlain(Optional(Number("sample-count", 0, 30)))
  BY NumberIs, OptionalIs
<1>2. /\ Trails(In("agent", Number("water-mark", 100, 10000)))
      /\ Trails(In("agent", Optional(Number("sample-periodicity", 1, 3600))))
      /\ Trails(In("agent", Optional(Number("sample-count", 0, 30))))
  BY <1>1, InIs
<1> QED BY <1>2, TrailTuple DEF AgentParams

LEMMA SflowParamsAre == Late(SflowParams)
<1> DEFINE s == SflowParams
<1>1. /\ IsSeq(s) /\ Len(s) = 7
      /\ s[1] = In("sflow", Of("object", "encapsulation-params"))
      /\ s[2] = In("sflow", Optional(Number("vlan-id", 1, 4094)))
      /\ s[3] = In("sflow", Of("address", "destination-ip"))
      /\ s[4] = In("sflow", Of("udpport", "source-udp-port"))
      /\ s[5] = In("sflow", Of("udpport", "destination-udp-port"))
      /\ s[6] = In("sflow", Of("notation", "mirror-port"))
      /\ s[7] = In("sflow", Number("sample-pool-size", 1024, 100000))
  BY SevenMembers DEF SflowParams
<1> HIDE DEF s
<1>2. ASSUME NEW name, NEW kind
      PROVE  /\ In("sflow", Of(kind, name)).kind = kind /\ In("sflow", Of(kind, name)).name = name
             /\ In("sflow", Of(kind, name)).only = "sflow"
  BY OfFields, InFields
<1>3. /\ s[1].kind = "object" /\ s[1].name = "encapsulation-params" /\ s[1].only = "sflow"
      /\ s[3].kind = "address" /\ s[3].name = "destination-ip" /\ s[3].only = "sflow"
  BY <1>1, <1>2
<1>4. /\ s[4].kind = "udpport" /\ s[4].name = "source-udp-port" /\ s[4].only = "sflow"
      /\ s[5].kind = "udpport" /\ s[5].name = "destination-udp-port" /\ s[5].only = "sflow"
      /\ s[6].kind = "notation" /\ s[6].name = "mirror-port" /\ s[6].only = "sflow"
  BY <1>1, <1>2
<1>5. s[7].kind = "number" /\ s[7].name = "sample-pool-size" /\ s[7].only = "sflow"
  BY <1>1, NumberFields, InFields
<1>6. s[2].kind = "number" /\ s[2].name = "vlan-id" /\ s[2].only = "sflow"
  <2> DEFINE vlan == Number("vlan-id", 1, 4094)
  <2>1. DOMAIN vlan = Fields /\ vlan.name = "vlan-id" /\ vlan.kind = "number"
    BY NumberFields
  <2>2. s[2] = In("sflow", Optional(vlan))
    BY <1>1
  <2> HIDE DEF vlan
  <2> DEFINE optional == Optional(vlan)
  <2>3. DOMAIN optional = Fields /\ optional.name = "vlan-id" /\ optional.kind = "number"
    BY <2>1, OptionalFields
  <2> HIDE DEF optional
  <2>4. s[2] = In("sflow", optional)
    BY <2>2 DEF optional
  <2> QED BY <2>3, <2>4, InFields
<1>9. \A i \in 1 .. 7 : i = 1 \/ i = 2 \/ i = 3 \/ i = 4 \/ i = 5 \/ i = 6 \/ i = 7
  OBVIOUS
<1>10. \A i \in 1 .. 7 : Decidable(s[i]) /\ ~Decides(s[i]) /\ s[i].kind # "wild"
  BY <1>3, <1>4, <1>5, <1>6, <1>9 DEF Decidable, Decides, Kinds
<1>11. \A i, j \in 1 .. 7 : s[i].name = s[j].name => i = j
  BY <1>3, <1>4, <1>5, <1>6, <1>9
<1> QED BY <1>1, <1>10, <1>11 DEF Late, s

LEMMA BlackHoleMembersAre ==
  LET s == <<Of("ports", "port-list"), Of("method", "sampling-method"), Of("object", "sampling-params")>>
  IN  Ordered(s) /\ NoPorts(s)
<1> DEFINE s == <<Of("ports", "port-list"), Of("method", "sampling-method"), Of("object", "sampling-params")>>
<1>1. /\ IsSeq(s) /\ Len(s) = 3
      /\ s[1] = Of("ports", "port-list") /\ s[2] = Of("method", "sampling-method")
      /\ s[3] = Of("object", "sampling-params")
  BY DEF IsSeq
<1> HIDE DEF s
<1>2. /\ s[1].kind = "ports" /\ s[1].name = "port-list" /\ s[1].only = "all"
      /\ s[2].kind = "method" /\ s[2].name = "sampling-method" /\ s[2].only = "all"
      /\ s[3].kind = "object" /\ s[3].name = "sampling-params" /\ s[3].only = "all"
  BY <1>1, OfFields
<1>3. \A i \in 1 .. 3 : i = 1 \/ i = 2 \/ i = 3
  OBVIOUS
<1>4. s[2].needed
  BY <1>1 DEF Of, Member
<1>5. \A i \in 1 .. 3 : Decidable(s[i]) /\ s[i].kind \notin Unique /\ s[i].only = "all"
  BY <1>2, <1>3, <1>4 DEF Decidable, Decides, Unique, Kinds
<1> QED BY <1>1, <1>5 DEF Ordered, NoPorts, Unique, s

LEMMA CommandsOrdered == \A c \in Commands : Ordered(Decoder[c])
<1>1. \A c \in Commands \ Variants : Ordered(Decoder[c])
  BY PlainCommands, PlainOrdered
<1>2. Ordered(Header \o ProfileSubject) /\ NoPorts(Header \o ProfileSubject)
  BY HeaderIs, ProfileSubjectIs, PlainBefore
<1>3. Ordered(GetPacketTraceProfile) /\ Ordered(GetLagResolution) /\ Ordered(GetEcmpResolution)
  BY <1>2, ProfileRestsAre, TrailLate, LateAfter
  DEF GetPacketTraceProfile, GetLagResolution, GetEcmpResolution, LagSubject, EcmpSubject, EcmpRest
<1>4. Ordered(ConfigureBlackHole)
  <2> DEFINE s == <<Of("ports", "port-list"), Of("method", "sampling-method"), Of("object", "sampling-params")>>
  <2>1. Ordered(Header \o s) /\ NoPorts(Header \o s)
    BY HeaderIs, BlackHoleMembersAre, PlainBefore
  <2>2. ConfigureBlackHole = ((Header \o s) \o AgentParams) \o SflowParams
    BY DEF ConfigureBlackHole
  <2> HIDE DEF s
  <2>3. Ordered((Header \o s) \o AgentParams) /\ NoPorts((Header \o s) \o AgentParams)
    BY <2>1, AgentParamsAre, TrailLate, LateAfter
  <2> QED BY <2>2, <2>3, SflowParamsAre, LateAfter
<1>5. /\ Decoder["get_packet_trace_profile"] = GetPacketTraceProfile
      /\ Decoder["get_lag_resolution"] = GetLagResolution
      /\ Decoder["get_ecmp_resolution"] = GetEcmpResolution
      /\ Decoder["configure_black_hole"] = ConfigureBlackHole
  BY DEF Decoder
<1> QED BY <1>1, <1>3, <1>4, <1>5 DEF Variants

-----------------------------------------------------------------------------
(* The inductive invariant: what was read before the member at.             *)

Passed == {i \in 1 .. Len(Members) : i < at}
PortsRead == {m \in read : m.kind = "udpport"}
Underway == rv \in {"decoding", "handled"}

JsonTypes ==
  /\ cmd \in Commands /\ at \in Nat /\ at <= Len(Members) + 1
  /\ rv \in {"decoding", "handled", "INVALID_JSON", "INVALID_PARAMETER"}
  /\ rv = "handled" => at = Len(Members) + 1
  /\ released \in Nat
  /\ IsFiniteSet(read) /\ \A m \in read : \E i \in Passed : m = Members[i]

ReleaseInv ==
  /\ released <= Cardinality(PortsRead) + (IF rv = "decoding" THEN 0 ELSE 1)
  /\ rv = "handled" => released >= 1 /\ alive = 0

NeededInv ==
  Underway => \A i \in Passed :
    Members[i].needed /\ (Members[i].only = "all" \/ Members[i].only = variant) => Members[i] \in read

WildNames == {Members[i].name : i \in {j \in Passed : Members[j].kind = "wild"}}
FieldsInv ==
  Underway =>
    /\ IsFiniteSet(wild) /\ Cardinality(wild) <= MaxWildcards
    /\ wild \cap tuple_mask = {}
    /\ wild \cup tuple_mask \subseteq WildNames
    /\ variant = "tuple" => WildNames \subseteq wild \cup tuple_mask

JsonInv == JsonTypes /\ ReleaseInv /\ NeededInv /\ FieldsInv

LEMMA MembersFacts ==
  ASSUME JsonTypes
  PROVE  Ordered(Members) /\ Len(Members) \in Nat
  BY CommandsOrdered DEF JsonTypes, Members, Ordered, IsSeq

LEMMA JsonInvInit == JsonInit => JsonInv
<1> SUFFICES ASSUME JsonInit PROVE JsonInv
  OBVIOUS
<1>1. /\ cmd \in Commands /\ at = 0 /\ variant = "all" /\ rv = "decoding" /\ read = {}
      /\ wild = {} /\ tuple_mask = {} /\ released = 0
  BY DEF JsonInit
<1>2. Len(Members) \in Nat
  BY <1>1, CommandsOrdered DEF Members, Ordered, IsSeq
<1>3. Passed = {}
  <2>1. \A i \in 1 .. Len(Members) : ~(i < at)
    BY <1>1, <1>2
  <2> QED BY <2>1 DEF Passed
<1>5. PortsRead = {} /\ Cardinality({}) = 0 /\ IsFiniteSet({})
  BY <1>1, FS_EmptySet DEF PortsRead
<1>4. JsonTypes
  <2>1. at \in Nat /\ at <= Len(Members) + 1 /\ released \in Nat
    BY <1>1, <1>2
  <2>2. rv = "decoding" /\ rv # "handled"
    BY <1>1
  <2> QED BY <1>1, <1>5, <2>1, <2>2 DEF JsonTypes
<1>6. ReleaseInv
  BY <1>1, <1>5 DEF ReleaseInv
<1>7. WildNames = {}
  BY <1>3 DEF WildNames
<1>8. NeededInv /\ FieldsInv
  BY <1>1, <1>3, <1>5, <1>7 DEF NeededInv, FieldsInv, MaxWildcards
<1> QED BY <1>4, <1>6, <1>8 DEF JsonInv

LEMMA PortsFinite ==
  ASSUME IsFiniteSet(read)
  PROVE  IsFiniteSet(PortsRead) /\ Cardinality(PortsRead) \in Nat
<1>1. PortsRead \subseteq read
  BY DEF PortsRead
<1> QED BY <1>1, FS_Subset, FS_CardinalityType

\* The decoder gives up: what was read no longer matters.
LEMMA RefusedStep ==
  ASSUME JsonInv, rv = "decoding", rv' \in {"INVALID_JSON", "INVALID_PARAMETER"},
         UNCHANGED <<cmd, at, read>>, released' \in {released, released + 1}
  PROVE  JsonInv'
<1>1. JsonTypes'
  <2>1. Members' = Members /\ Passed' = Passed
    BY DEF Members, Passed
  <2>2. released' \in Nat /\ rv' # "handled"
    BY DEF JsonInv, JsonTypes
  <2> QED BY <2>1, <2>2 DEF JsonInv, JsonTypes
<1>2. Cardinality(PortsRead) \in Nat
  BY PortsFinite DEF JsonInv, JsonTypes
<1>3. ReleaseInv'
  <2>1. PortsRead' = PortsRead
    BY DEF PortsRead
  <2>2. released \in Nat /\ released <= Cardinality(PortsRead) + 0
    BY DEF JsonInv, JsonTypes, ReleaseInv
  <2>4. rv' # "decoding" /\ rv' # "handled"
    OBVIOUS
  <2>3. released' <= Cardinality(PortsRead) + 1
    BY <1>2, <2>2
  <2> QED BY <2>1, <2>3, <2>4 DEF ReleaseInv
<1>4. NeededInv' /\ FieldsInv'
  BY DEF NeededInv, FieldsInv, Underway
<1> QED BY <1>1, <1>3, <1>4 DEF JsonInv

\* Going on to the next member.
LEMMA PassedNext ==
  ASSUME JsonTypes, Decoding, cmd' = cmd, at' = at + 1
  PROVE  /\ at \in 1 .. Len(Members) /\ Members' = Members /\ Passed' = Passed \cup {at}
         /\ at \notin Passed /\ at' \in Nat /\ at' <= Len(Members) + 1
         /\ Next1 = Members[at] /\ Decidable(Next1)
         /\ \A i \in Passed : i \in 1 .. Len(Members) /\ i < at
         /\ WildNames' = WildNames \cup (IF Next1.kind = "wild" THEN {Next1.name} ELSE {})
         /\ Next1.kind = "wild" => Next1.name \notin WildNames
<1>1. Ordered(Members) /\ Len(Members) \in Nat /\ at \in Nat
  BY MembersFacts DEF JsonTypes
<1>2. at \in 1 .. Len(Members) /\ Members' = Members
  BY DEF Decoding, Members
<1>3. Passed' = Passed \cup {at} /\ at \notin Passed
  BY <1>1, <1>2 DEF Passed
<1>4. \A i \in Passed : i \in 1 .. Len(Members) /\ i < at
  BY DEF Passed
<1>5. Next1 = Members[at] /\ Decidable(Next1)
  BY <1>1, <1>2 DEF Next1, Ordered
<1>6. WildNames' = WildNames \cup (IF Next1.kind = "wild" THEN {Next1.name} ELSE {})
  BY <1>2, <1>3, <1>5 DEF WildNames
<1>7. Next1.kind = "wild" => Next1.name \notin WildNames
  <2> SUFFICES ASSUME Next1.kind = "wild", NEW i \in Passed, Members[i].kind = "wild",
                      Members[i].name = Next1.name
               PROVE  FALSE
    BY DEF WildNames
  <2>1. i = at
    BY <1>1, <1>2, <1>4, <1>5 DEF Ordered, Unique
  <2> QED BY <1>3, <2>1
<1> QED BY <1>1, <1>2, <1>3, <1>4, <1>5, <1>6, <1>7

\* While nothing has decided the variant, every member belongs to every variant.
LEMMA DecidedBefore ==
  ASSUME JsonTypes, Decoding, Decides(Next1)
  PROVE  (\A i \in Passed : Members[i].only = "all") /\ Next1.only = "all"
<1>1. Ordered(Members) /\ Len(Members) \in Nat /\ at \in 1 .. Len(Members)
  BY MembersFacts DEF Decoding
<1>2. Next1 = Members[at]
  BY DEF Next1
<1>3. \A i \in Passed : i \in 1 .. Len(Members) /\ i <= at
  BY <1>1 DEF Passed
<1> QED BY <1>1, <1>2, <1>3 DEF Ordered

LEMMA SkipStep ==
  ASSUME JsonInv, Decoding, at' = at + 1, UNCHANGED <<cmd, read, wild, tuple_mask, alive, released, rv>>,
         IF Decides(Next1) /\ Applies(Next1)
         THEN variant' # "tuple" /\ ~Next1.needed
         ELSE variant' = variant /\ (Applies(Next1) => ~Next1.needed)
  PROVE  JsonInv'
<1> USE DEF JsonInv
<1>1. /\ at \in 1 .. Len(Members) /\ Members' = Members /\ Passed' = Passed \cup {at}
      /\ at \notin Passed /\ at' \in Nat /\ at' <= Len(Members) + 1
      /\ Next1 = Members[at] /\ Decidable(Next1)
      /\ WildNames' = WildNames \cup (IF Next1.kind = "wild" THEN {Next1.name} ELSE {})
  BY PassedNext
<1>2. rv = "decoding" /\ Underway
  BY DEF Decoding, Underway
<1>3. JsonTypes'
  BY <1>1, <1>2 DEF JsonTypes
<1>4. ReleaseInv'
  BY DEF ReleaseInv, PortsRead
<1>5. CASE Decides(Next1) /\ Applies(Next1)
  <2>1. (\A i \in Passed : Members[i].only = "all") /\ ~Next1.needed /\ variant' # "tuple"
    BY <1>5, DecidedBefore
  <2>2. NeededInv'
    BY <1>1, <1>2, <2>1 DEF NeededInv
  <2>3. FieldsInv'
    BY <1>1, <1>2, <2>1 DEF FieldsInv
  <2> QED BY <1>3, <1>4, <2>2, <2>3
<1>6. CASE ~(Decides(Next1) /\ Applies(Next1))
  <2>1. variant' = variant /\ (Applies(Next1) => ~Next1.needed)
    BY <1>6
  <2>2. NeededInv'
    BY <1>1, <1>2, <2>1 DEF NeededInv, Applies
  <2>3. Next1.kind = "wild" => variant # "tuple"
    BY <1>1, <1>6, <2>1 DEF Applies, Decidable, Decides, Kinds
  <2>4. FieldsInv'
    BY <1>1, <1>2, <2>1, <2>3 DEF FieldsInv
  <2> QED BY <1>3, <1>4, <2>2, <2>4
<1> QED BY <1>5, <1>6

\* A member is read: what is said of the members before it is said of it too.
LEMMA ReadTypes ==
  ASSUME JsonInv, Decoding, at' = at + 1, read' = read \cup {Next1},
         UNCHANGED <<cmd, rv>>, released' \in Nat,
         Next1.kind = "wild" \/ ~Decides(Next1) => variant' = variant \/ Next1.name = "src-ip"
  PROVE  /\ JsonTypes' /\ NeededInv'
         /\ Cardinality(PortsRead)' \in Nat
         /\ Cardinality(PortsRead)' >= Cardinality(PortsRead) + (IF Next1.kind = "udpport" THEN 1 ELSE 0)
<1> USE DEF JsonInv
<1>1. /\ at \in 1 .. Len(Members) /\ Members' = Members /\ Passed' = Passed \cup {at}
      /\ at \notin Passed /\ at' \in Nat /\ at' <= Len(Members) + 1
      /\ Next1 = Members[at] /\ Decidable(Next1)
      /\ \A i \in Passed : i \in 1 .. Len(Members) /\ i < at
  BY PassedNext
<1>2. rv = "decoding" /\ Underway
  BY DEF Decoding, Underway
<1>3. IsFiniteSet(read') /\ IsFiniteSet(read)
  BY FS_AddElement DEF JsonTypes
<1>4. JsonTypes'
  <2>1. \A m \in read' : \E i \in Passed' : m = Members'[i]
    BY <1>1 DEF JsonTypes
  <2> QED BY <1>1, <1>2, <1>3, <2>1 DEF JsonTypes
<1>5. NeededInv'
  <2>1. CASE variant' = variant
    BY <1>1, <1>2, <2>1 DEF NeededInv
  <2>2. CASE variant' # variant
    <3>1. Decides(Next1)
      BY <2>2 DEF Decides
    <3>2. \A i \in Passed : Members[i].only = "all"
      BY <3>1, DecidedBefore
    <3> QED BY <1>1, <1>2, <3>2 DEF NeededInv
  <2> QED BY <2>1, <2>2
<1>6. Cardinality(PortsRead) \in Nat /\ IsFiniteSet(PortsRead) /\ IsFiniteSet(PortsRead') /\ Cardinality(PortsRead') \in Nat
  <2>1. PortsRead \subseteq read /\ PortsRead' \subseteq read'
    BY DEF PortsRead
  <2> QED BY <1>3, <2>1, FS_Subset, FS_CardinalityType
<1>7. CASE Next1.kind = "udpport"
  <2>1. Next1 \notin PortsRead
    <3> SUFFICES ASSUME Next1 \in read PROVE FALSE
      BY DEF PortsRead
    <3>1. PICK i \in Passed : Next1 = Members[i]
      BY DEF JsonTypes
    <3>2. i = at
      BY <1>1, <1>7, <3>1, MembersFacts DEF Ordered, Unique
    <3> QED BY <1>1, <3>2
  <2>2. PortsRead' = PortsRead \cup {Next1}
    BY <1>7 DEF PortsRead
  <2>3. Cardinality(PortsRead') = Cardinality(PortsRead) + 1
    BY <1>6, <2>1, <2>2, FS_AddElement
  <2> QED BY <1>4, <1>5, <1>6, <1>7, <2>3
<1>8. CASE Next1.kind # "udpport"
  <2>1. PortsRead' = PortsRead
    BY <1>8 DEF PortsRead
  <2> QED BY <1>4, <1>5, <1>6, <1>8, <2>1
<1> QED BY <1>7, <1>8

LEMMA ReadStep ==
  ASSUME JsonInv, Read \/ UdpPortZero
  PROVE  JsonInv'
<1> USE DEF JsonInv
<1>1. /\ Decoding /\ at' = at + 1 /\ read' = read \cup {Next1} /\ Next1.kind # "wild"
      /\ UNCHANGED <<cmd, rv, wild, tuple_mask>>
      /\ rv = "decoding" /\ Underway
  BY DEF Read, UdpPortZero, Decoding, Underway
<1>2. released \in Nat /\ released <= Cardinality(PortsRead) + 0 /\ Cardinality(PortsRead) \in Nat
  BY <1>1, PortsFinite DEF JsonTypes, ReleaseInv
<1>3. released' \in Nat /\ released' <= Cardinality(PortsRead) + (IF Next1.kind = "udpport" THEN 1 ELSE 0)
  BY <1>2 DEF Read, UdpPortZero
<1>4. variant' = variant \/ (Next1.kind = "method" /\ variant' # "tuple")
  BY DEF Read, UdpPortZero
<1>5. /\ JsonTypes' /\ NeededInv' /\ Cardinality(PortsRead)' \in Nat
      /\ Cardinality(PortsRead)' >= Cardinality(PortsRead) + (IF Next1.kind = "udpport" THEN 1 ELSE 0)
  BY <1>1, <1>3, <1>4, ReadTypes DEF Decides
<1>6. ReleaseInv'
  <2>1. released' <= Cardinality(PortsRead)' + 0
    BY <1>2, <1>3, <1>5
  <2> QED BY <1>1, <2>1 DEF ReleaseInv
<1>7. WildNames' = WildNames
  BY <1>1, PassedNext
<1>8. FieldsInv'
  BY <1>1, <1>4, <1>7 DEF FieldsInv, Underway
<1> QED BY <1>5, <1>6, <1>8

\* A field of the 5-tuple: until the source address is read no other field was.
LEMMA FieldFacts ==
  ASSUME JsonInv, Decoding, Applies(Next1), Next1.kind = "wild"
  PROVE  variant = "tuple" \/ (Next1.name = "src-ip" /\ WildNames = {})
<1> USE DEF JsonInv
<1>1. Ordered(Members) /\ Next1 = Members[at] /\ at \in 1 .. Len(Members)
  BY MembersFacts DEF Next1, Decoding
<1>2. Decidable(Next1)
  BY <1>1 DEF Ordered
<1>3. CASE Next1.name # "src-ip"
  BY <1>2, <1>3 DEF Decidable, Applies
<1>4. CASE Next1.name = "src-ip"
  <2>1. \A i \in Passed : Members[i].only = "all"
    BY <1>4, DecidedBefore DEF Decides
  <2>2. \A i \in Passed : i \in 1 .. Len(Members) /\ i # at
    BY <1>1 DEF Passed
  <2> SUFFICES ASSUME NEW i \in Passed, Members[i].kind = "wild" PROVE FALSE
    BY <1>4 DEF WildNames
  <2>3. Members[i].name = "src-ip"
    BY <1>1, <2>1, <2>2 DEF Ordered, Decidable
  <2>4. i = at
    BY <1>1, <1>4, <2>2, <2>3 DEF Ordered, Unique
  <2> QED BY <2>2, <2>4
<1> QED BY <1>3, <1>4

LEMMA FieldStep ==
  ASSUME JsonInv, Decoding, Applies(Next1), Next1.kind = "wild", at' = at + 1, read' = read \cup {Next1},
         variant' = "tuple", UNCHANGED <<cmd, rv, released>>,
         \/ wild' = wild /\ tuple_mask' = tuple_mask \cup {Next1.name}
         \/ /\ wild' = wild \cup {Next1.name} /\ tuple_mask' = tuple_mask
            /\ Cardinality(wild') <= MaxWildcards
  PROVE  JsonInv'
<1> USE DEF JsonInv
<1>1. rv = "decoding" /\ Underway
  BY DEF Decoding, Underway
<1>2. variant = "tuple" \/ (Next1.name = "src-ip" /\ WildNames = {})
  BY FieldFacts
<1>3. released \in Nat /\ released <= Cardinality(PortsRead) + 0 /\ Cardinality(PortsRead) \in Nat
  BY <1>1, PortsFinite DEF JsonTypes, ReleaseInv
<1>4. /\ JsonTypes' /\ NeededInv' /\ Cardinality(PortsRead)' \in Nat
      /\ Cardinality(PortsRead)' >= Cardinality(PortsRead)
  BY <1>2, <1>3, ReadTypes
<1>5. ReleaseInv'
  BY <1>1, <1>3, <1>4 DEF ReleaseInv
<1>6. WildNames' = WildNames \cup {Next1.name} /\ Next1.name \notin WildNames
  BY PassedNext
<1>7. /\ IsFiniteSet(wild) /\ Cardinality(wild) <= MaxWildcards
      /\ wild \cap tuple_mask = {} /\ wild \cup tuple_mask \subseteq WildNames
      /\ WildNames \subseteq wild \cup tuple_mask
  BY <1>1, <1>2 DEF FieldsInv
<1>8. IsFiniteSet(wild') /\ Cardinality(wild') <= MaxWildcards
  BY <1>7, FS_AddElement
<1>9. /\ wild' \cap tuple_mask' = {} /\ wild' \cup tuple_mask' \subseteq WildNames'
      /\ WildNames' \subseteq wild' \cup tuple_mask'
  BY <1>6, <1>7
<1>10. FieldsInv'
  BY <1>8, <1>9 DEF FieldsInv
<1> QED BY <1>4, <1>5, <1>10

LEMMA FieldActions ==
  ASSUME JsonInv, ReadField \/ ReadWildcard
  PROVE  JsonInv'
<1>1. Decoding /\ Applies(Next1) /\ Next1.kind = "wild" /\ rv = "decoding"
  BY DEF ReadField, ReadWildcard, Decoding
<1>2. CASE ReadField
  BY <1>1, <1>2, FieldStep DEF ReadField
<1>3. CASE ReadWildcard /\ TooManyWildcards(wild')
  BY <1>1, <1>3, RefusedStep DEF ReadWildcard
<1>4. CASE ReadWildcard /\ ~TooManyWildcards(wild')
  <2>1. IsFiniteSet(wild) /\ wild' = wild \cup {Next1.name}
    BY <1>1, <1>4 DEF ReadWildcard, JsonInv, FieldsInv, Underway
  <2>2. Cardinality(wild') \in Nat
    BY <2>1, FS_AddElement, FS_CardinalityType
  <2>3. Cardinality(wild') <= MaxWildcards
    BY <1>4, <2>2 DEF TooManyWildcards, MaxWildcards
  <2> QED BY <1>1, <1>4, <2>1, <2>3, FieldStep DEF ReadWildcard
<1> QED BY <1>2, <1>3, <1>4

LEMMA ParseStep ==
  ASSUME JsonInv, Parse
  PROVE  JsonInv'
<1> USE DEF JsonInv
<1>1. /\ rv = "decoding" /\ at = 0 /\ at' = 1
      /\ UNCHANGED <<cmd, variant, read, wild, tuple_mask, released, rv>> /\ Underway
  BY DEF Parse, Underway
<1>2. Members' = Members /\ Len(Members) \in Nat
  BY <1>1, MembersFacts DEF Members
<1>3. Passed' = {} /\ Passed = {}
  BY <1>1, <1>2 DEF Passed
<1>4. JsonTypes'
  BY <1>1, <1>2, <1>3 DEF JsonTypes
<1>5. ReleaseInv' /\ NeededInv'
  BY <1>1, <1>3 DEF ReleaseInv, PortsRead, NeededInv
<1>6. WildNames' = WildNames
  BY <1>3 DEF WildNames
<1>7. FieldsInv'
  BY <1>1, <1>6 DEF FieldsInv
<1> QED BY <1>4, <1>5, <1>7

LEMMA HandleStep ==
  ASSUME JsonInv, Handle
  PROVE  JsonInv'
<1> USE DEF JsonInv
<1>1. /\ rv = "decoding" /\ at = Len(Members) + 1 /\ rv' = "handled" /\ alive' = 0
      /\ released' = released + 1 /\ UNCHANGED <<cmd, at, read, wild, tuple_mask>> /\ Underway
  BY DEF Handle, Underway
<1>2. Members' = Members /\ Passed' = Passed /\ WildNames' = WildNames
  BY <1>1 DEF Members, Passed, WildNames
<1>3. variant' = variant \/ variant' \in DropTypes
  BY DEF Handle
<1>4. JsonTypes'
  BY <1>1, <1>2 DEF JsonTypes
<1>5. ReleaseInv'
  <2>1. Cardinality(PortsRead) \in Nat /\ PortsRead' = PortsRead
    BY <1>1, PortsFinite DEF JsonTypes, PortsRead
  <2>2. released \in Nat /\ released <= Cardinality(PortsRead) + 0
    BY <1>1 DEF JsonTypes, ReleaseInv
  <2> QED BY <1>1, <2>1, <2>2 DEF ReleaseInv
<1>6. NeededInv' /\ FieldsInv'
  <2>1. CASE variant' = variant
    BY <1>1, <1>2, <2>1 DEF NeededInv, FieldsInv
  <2>2. CASE variant' \in DropTypes
    <3>1. variant' \notin {"all", "tuple", "packet", "agent", "sflow"}
      BY <2>2 DEF DropTypes, DropsNeeded
    <3>2. \A i \in Passed : Members[i].only # variant'
      <4>1. \A i \in Passed : Decidable(Members[i])
        BY MembersFacts DEF Ordered, Passed
      <4> QED BY <3>1, <4>1 DEF Decidable
    <3> QED BY <1>1, <1>2, <3>1, <3>2 DEF NeededInv, FieldsInv
  <2> QED BY <1>3, <2>1, <2>2
<1> QED BY <1>4, <1>5, <1>6

LEMMA RefusalsAre == \A kind \in Kinds : \A r \in Refusals[kind] : r.rv \in {"INVALID_JSON", "INVALID_PARAMETER"}
  BY DEF Kinds, Refusals, Released, Leaked

LEMMA JsonInvHolds == JsonSpec => []JsonInv
<1>1. ASSUME JsonInv, JsonNext PROVE JsonInv'
  <2>1. CASE ParseFails \/ Missing \/ Refuse
    <3>1. /\ rv = "decoding" /\ UNCHANGED <<cmd, at, read>> /\ released' \in {released, released + 1}
      BY <2>1 DEF ParseFails, Missing, Refuse, Decoding
    <3>2. CASE ParseFails \/ Missing
      BY <1>1, <3>1, <3>2, RefusedStep DEF ParseFails, Missing
    <3>3. CASE Refuse
      <4>1. Next1.kind \in Kinds
        BY <1>1, <3>3, MembersFacts DEF JsonInv, Ordered, Refuse, Decoding, Next1, Decidable
      <4>2. PICK r \in Refusals[Next1.kind] : rv' = r.rv
        BY <3>3 DEF Refuse
      <4>3. rv' \in {"INVALID_JSON", "INVALID_PARAMETER"}
        BY <4>1, <4>2, RefusalsAre
      <4> QED BY <1>1, <3>1, <4>3, RefusedStep
    <3> QED BY <2>1, <3>2, <3>3
  <2>2. CASE Skip \/ LeftOut
    <3>1. Ordered(Members) /\ Decidable(Next1)
      BY <1>1, <2>2, MembersFacts DEF JsonInv, Ordered, Skip, LeftOut, Decoding, Next1
    <3>2. CASE Skip
      BY <1>1, <3>2, SkipStep DEF Skip
    <3>3. CASE LeftOut
      BY <1>1, <3>1, <3>3, SkipStep DEF LeftOut, Decides, Decidable
    <3> QED BY <2>2, <3>2, <3>3
  <2>3. CASE Decoded
    BY <1>1, <2>3 DEF Decoded, jsonVars, JsonInv, JsonTypes, ReleaseInv, NeededInv, FieldsInv,
       Members, Passed, PortsRead, Underway, WildNames
  <2> QED BY <1>1, <2>1, <2>2, <2>3, ReadStep, FieldActions, ParseStep, HandleStep DEF JsonNext
<1>2. ASSUME JsonInv, UNCHANGED jsonVars PROVE JsonInv'
  BY <1>2 DEF jsonVars, JsonInv, JsonTypes, ReleaseInv, NeededInv, FieldsInv,
     Members, Passed, PortsRead, Underway, WildNames
<1> QED BY <1>1, <1>2, JsonInvInit, PTL DEF JsonSpec

\* What a decoder hands over is complete and decided, and the document it read is
\* released once, in every one of the 29 decoders and for every request.
THEOREM RequestsDecodedHolds == JsonSpec => []RequestsDecoded
<1>1. ASSUME JsonInv PROVE RequestsDecoded
  <2> USE <1>1 DEF JsonInv
  <2>1. ReleasedOnce
    <3>1. Cardinality(PortsRead) \in Nat
      BY PortsFinite DEF JsonTypes
    <3>2. released \in Nat /\ released <= 1 + Cardinality(PortsRead)
      BY <3>1 DEF ReleaseInv, JsonTypes
    <3>3. rv = "handled" => released >= 1 /\ alive = 0
      BY DEF ReleaseInv
    <3> QED BY <3>2, <3>3 DEF ReleasedOnce, PortsRead
  <2>2. rv = "handled" => Range(Members) = {Members[i] : i \in Passed}
    <3> SUFFICES ASSUME rv = "handled" PROVE Range(Members) = {Members[i] : i \in Passed}
      OBVIOUS
    <3>1. Len(Members) \in Nat /\ at = Len(Members) + 1 /\ IsSeq(Members)
      BY MembersFacts DEF JsonTypes, Ordered
    <3>2. Passed = 1 .. Len(Members)
      BY <3>1 DEF Passed
    <3>3. DOMAIN Members = 1 .. Len(Members)
      BY <3>1 DEF IsSeq
    <3> QED BY <3>2, <3>3 DEF Range
  <2>3. NeededGiven
    BY <2>2 DEF NeededGiven, NeededInv, Underway
  <2>4. FieldsDecided
    <3> SUFFICES ASSUME rv = "handled", variant = "tuple"
                 PROVE  /\ wild \cap tuple_mask = {} /\ Cardinality(wild) <= MaxWildcards
                        /\ wild \cup tuple_mask = {m.name : m \in {x \in Range(Members) : x.kind = "wild"}}
      BY DEF FieldsDecided
    <3>1. /\ wild \cap tuple_mask = {} /\ Cardinality(wild) <= MaxWildcards
          /\ wild \cup tuple_mask = WildNames
      BY DEF FieldsInv, Underway
    <3>2. WildNames = {m.name : m \in {x \in Range(Members) : x.kind = "wild"}}
      BY <2>2 DEF WildNames
    <3> QED BY <3>1, <3>2
  <2> QED BY <2>1, <2>3, <2>4 DEF RequestsDecoded
<1> QED BY <1>1, JsonInvHolds, PTL

\* The UDP ports of sampling are the only members that are released twice.
UdpPorts == {In("sflow", Of("udpport", "source-udp-port")), In("sflow", Of("udpport", "destination-udp-port"))}

LEMMA UdpPortsAre ==
  \A c \in Commands : \A i \in 1 .. Len(Decoder[c]) : Decoder[c][i].kind = "udpport" => Decoder[c][i] \in UdpPorts
<1>1. \A c \in Commands \ Variants : NoPorts(Decoder[c])
  BY PlainCommands, PlainOrdered
<1>2. Ordered(Header \o ProfileSubject) /\ NoPorts(Header \o ProfileSubject)
  BY HeaderIs, ProfileSubjectIs, PlainBefore
<1>3. NoPorts(GetPacketTraceProfile) /\ NoPorts(GetLagResolution) /\ NoPorts(GetEcmpResolution)
  BY <1>2, ProfileRestsAre, TrailLate, LateAfter
  DEF GetPacketTraceProfile, GetLagResolution, GetEcmpResolution, LagSubject, EcmpSubject, EcmpRest
<1>4. \A i \in 1 .. Len(ConfigureBlackHole) : ConfigureBlackHole[i].kind = "udpport" => ConfigureBlackHole[i] \in UdpPorts
  <2> DEFINE s == <<Of("ports", "port-list"), Of("method", "sampling-method"), Of("object", "sampling-params")>>
             a == (Header \o s) \o AgentParams
             b == SflowParams
  <2>1. Ordered(Header \o s) /\ NoPorts(Header \o s)
    BY HeaderIs, BlackHoleMembersAre, PlainBefore
  <2>2. ConfigureBlackHole = a \o b
    BY DEF ConfigureBlackHole
  <2> HIDE DEF s
  <2>3. Ordered(a) /\ NoPorts(a)
    BY <2>1, AgentParamsAre, TrailLate, LateAfter
  <2>4. Late(b)
    BY SflowParamsAre
  <2>5. \A i \in 1 .. Len(b) : b[i].kind = "udpport" => b[i] \in UdpPorts
    <3>1. /\ Len(b) = 7 /\ b[1] = In("sflow", Of("object", "encapsulation-params"))
          /\ b[2] = In("sflow", Optional(Number("vlan-id", 1, 4094)))
          /\ b[3] = In("sflow", Of("address", "destination-ip"))
          /\ b[4] = In("sflow", Of("udpport", "source-udp-port"))
          /\ b[5] = In("sflow", Of("udpport", "destination-udp-port"))
          /\ b[6] = In("sflow", Of("notation", "mirror-port"))
          /\ b[7] = In("sflow", Number("sample-pool-size", 1024, 100000))
      BY SevenMembers DEF SflowParams
    <3> HIDE DEF b
    <3>2. b[1].kind = "object" /\ b[3].kind = "address" /\ b[6].kind = "notation"
      BY <3>1, OfFields, InFields
    <3>3. b[7].kind = "number"
      BY <3>1, NumberFields, InFields
    <3>4. b[2].kind = "number"
      <4> DEFINE vlan == Number("vlan-id", 1, 4094)
      <4>1. DOMAIN vlan = Fields /\ vlan.kind = "number"
        BY NumberFields
      <4> HIDE DEF vlan
      <4> DEFINE optional == Optional(vlan)
      <4>2. DOMAIN optional = Fields /\ optional.kind = "number"
        BY <4>1, OptionalFields
      <4> HIDE DEF optional
      <4>3. In("sflow", optional).kind = "number"
        BY <4>2, InFields
      <4> QED BY <3>1, <4>3 DEF optional, vlan
    <3>5. \A i \in 1 .. 7 : i = 1 \/ i = 2 \/ i = 3 \/ i = 4 \/ i = 5 \/ i = 6 \/ i = 7
      OBVIOUS
    <3> QED BY <3>1, <3>2, <3>3, <3>4, <3>5 DEF UdpPorts
  <2>6. IsSeq(a) /\ IsSeq(b) /\ Len(a) \in Nat /\ Len(b) \in Nat
    BY <2>3, <2>4 DEF Ordered, Late, IsSeq
  <2> HIDE DEF a, b
  <2>7. Len(a \o b) = Len(a) + Len(b) /\ \A i \in 1 .. Len(a \o b) : (a \o b)[i] = IF i <= Len(a) THEN a[i] ELSE b[i - Len(a)]
    BY <2>6, ConcatIs
  <2> DEFINE u == a \o b
  <2> HIDE DEF u
  <2>8. \A i \in 1 .. Len(u) : u[i].kind = "udpport" => u[i] \in UdpPorts
    <3>1. Len(u) = Len(a) + Len(b) /\ \A i \in 1 .. Len(u) : u[i] = IF i <= Len(a) THEN a[i] ELSE b[i - Len(a)]
      BY <2>7 DEF u
    <3> SUFFICES ASSUME NEW i \in 1 .. Len(u), u[i].kind = "udpport" PROVE u[i] \in UdpPorts
      OBVIOUS
    <3>2. ~(i <= Len(a))
      BY <2>3, <2>6, <3>1 DEF NoPorts
    <3>3. i - Len(a) \in 1 .. Len(b) /\ u[i] = b[i - Len(a)]
      BY <2>6, <3>1, <3>2
    <3> QED BY <2>5, <3>3
  <2> QED BY <2>2, <2>8 DEF u
<1>5. /\ Decoder["get_packet_trace_profile"] = GetPacketTraceProfile
      /\ Decoder["get_lag_resolution"] = GetLagResolution
      /\ Decoder["get_ecmp_resolution"] = GetEcmpResolution
      /\ Decoder["configure_black_hole"] = ConfigureBlackHole
  BY DEF Decoder
<1> QED BY <1>1, <1>3, <1>4, <1>5 DEF Variants, NoPorts

\* What the type invariant says and the invariant above does not.
JsonShape ==
  /\ alive \in 0..1
  /\ variant \in {"all", "tuple", "packet", "agent", "sflow"} \cup DropTypes
  /\ mask \subseteq {m.name : m \in Range(Members)}
  /\ wild \cup tuple_mask \subseteq {m.name : m \in {x \in Range(Members) : x.kind = "wild"}}

\* Every step of a decoder leaves its invariant.
LEMMA JsonShapeStep == ASSUME JsonInv, JsonShape, JsonNext PROVE JsonShape'
<1>1. cmd' = cmd /\ Members' = Members /\ Range(Members)' = Range(Members)
  BY DEF JsonNext, ParseFails, Parse, Skip, Missing, LeftOut, Refuse, Read, UdpPortZero, ReadField, ReadWildcard,
     Handle, Decoded, jsonVars, Members
<1>2. ASSUME Decoding PROVE Next1 \in Range(Members)
  <2>1. at \in DOMAIN Members
    BY <1>2, MembersFacts DEF Decoding, JsonInv, Ordered, IsSeq
  <2> QED BY <2>1 DEF Next1, Range
<1>3. alive' \in 0..1
  BY DEF JsonShape, JsonNext, ParseFails, Parse, Skip, Missing, LeftOut, Refuse, Read, UdpPortZero, ReadField,
     ReadWildcard, Handle, Decoded, jsonVars
<1>4. variant' \in {"all", "tuple", "packet", "agent", "sflow"} \cup DropTypes
  BY DEF JsonShape, JsonNext, ParseFails, Parse, Skip, Missing, LeftOut, Refuse, Read, UdpPortZero, ReadField,
     ReadWildcard, Handle, Decoded, jsonVars
<1>5. \/ mask' = mask
      \/ Decoding /\ mask' = mask \cup {Next1.name}
  BY DEF JsonNext, ParseFails, Parse, Skip, Missing, LeftOut, Refuse, Read, UdpPortZero, ReadField,
     ReadWildcard, Handle, Decoded, jsonVars
<1>6. \/ wild' \cup tuple_mask' = wild \cup tuple_mask
      \/ Decoding /\ Next1.kind = "wild" /\ wild' \cup tuple_mask' = (wild \cup tuple_mask) \cup {Next1.name}
  <2>1. CASE ReadField \/ ReadWildcard
    BY <2>1 DEF ReadField, ReadWildcard
  <2>2. CASE ~(ReadField \/ ReadWildcard)
    BY <2>2 DEF JsonNext, ParseFails, Parse, Skip, Missing, LeftOut, Refuse, Read, UdpPortZero,
       Handle, Decoded, jsonVars
  <2> QED BY <2>1, <2>2
<1>7. mask' \subseteq {m.name : m \in Range(Members)}
  BY <1>2, <1>5 DEF JsonShape
<1>8. wild' \cup tuple_mask' \subseteq {m.name : m \in {x \in Range(Members) : x.kind = "wild"}}
  BY <1>2, <1>6 DEF JsonShape
<1> QED BY <1>1, <1>3, <1>4, <1>7, <1>8 DEF JsonShape, DropTypes, DropsNeeded

LEMMA JsonShapeTypes == ASSUME JsonInv, JsonShape PROVE JsonTypeOK
<1>1. Len(Members) \in Nat /\ IsSeq(Members)
  BY MembersFacts DEF JsonInv, Ordered
<1>2. read \subseteq Range(Members)
  <2> SUFFICES ASSUME NEW m \in read PROVE m \in Range(Members)
    OBVIOUS
  <2>1. PICK i \in Passed : m = Members[i]
    BY DEF JsonInv, JsonTypes
  <2>2. i \in DOMAIN Members
    BY <1>1 DEF Passed, IsSeq
  <2> QED BY <2>1, <2>2 DEF Range
<1>3. Cardinality(PortsRead) <= 2 /\ Cardinality(PortsRead) \in Nat
  <2>1. PortsRead \subseteq UdpPorts
    <3> SUFFICES ASSUME NEW m \in read, m.kind = "udpport" PROVE m \in UdpPorts
      BY DEF PortsRead
    <3>1. PICK i \in Passed : m = Members[i]
      BY DEF JsonInv, JsonTypes
    <3>2. i \in 1 .. Len(Members) /\ cmd \in Commands /\ Members = Decoder[cmd]
      BY DEF Passed, JsonInv, JsonTypes, Members
    <3> QED BY <3>1, <3>2, UdpPortsAre
  <2> DEFINE a == In("sflow", Of("udpport", "source-udp-port"))
             b == In("sflow", Of("udpport", "destination-udp-port"))
  <2>2. UdpPorts = {a} \cup {b}
    BY DEF UdpPorts
  <2> HIDE DEF a, b
  <2>3. IsFiniteSet({a}) /\ Cardinality({a}) = 1
    BY FS_Singleton
  <2>4. IsFiniteSet(UdpPorts) /\ Cardinality(UdpPorts) <= 2
    BY <2>2, <2>3, FS_AddElement
  <2>5. Cardinality(UdpPorts) \in Nat /\ IsFiniteSet(PortsRead) /\ Cardinality(PortsRead) <= Cardinality(UdpPorts)
    BY <2>1, <2>4, FS_Subset, FS_CardinalityType
  <2>6. Cardinality(PortsRead) \in Nat
    BY <2>5, FS_CardinalityType
  <2> QED BY <2>4, <2>5, <2>6
<1>4. released \in 0..3
  <2>1. released \in Nat /\ released <= Cardinality(PortsRead) + 1
    <3>1. released \in Nat /\ released <= Cardinality(PortsRead) + (IF rv = "decoding" THEN 0 ELSE 1)
      BY DEF JsonInv, JsonTypes, ReleaseInv
    <3> QED BY <1>3, <3>1
  <2> QED BY <1>3, <2>1
<1>5. cmd \in Commands /\ at \in 0..Len(Members) + 1 /\ rv \in {"decoding", "handled", "INVALID_JSON", "INVALID_PARAMETER"}
  BY <1>1 DEF JsonInv, JsonTypes
<1> QED BY <1>2, <1>4, <1>5 DEF JsonTypeOK, JsonShape

\* What is read, marked and given as "any" are members of the command, and its
\* document is never released more than three times: once, and once more for each
\* of the two UDP ports of sampling.
THEOREM JsonTypesHold == JsonSpec => []JsonTypeOK
<1>1. JsonInit => JsonShape
  BY DEF JsonInit, JsonShape
<1>2. JsonInv /\ JsonShape /\ [JsonNext]_jsonVars => JsonShape'
  <2>1. ASSUME JsonInv, JsonShape, JsonNext PROVE JsonShape'
    BY <2>1, JsonShapeStep
  <2>2. ASSUME JsonShape, UNCHANGED jsonVars PROVE JsonShape'
    BY <2>2 DEF JsonShape, jsonVars, Members, DropTypes, DropsNeeded
  <2> QED BY <2>1, <2>2
<1>3. JsonInv /\ JsonShape => JsonTypeOK
  BY JsonShapeTypes
<1> QED BY <1>1, <1>2, <1>3, JsonInvHolds, PTL DEF JsonSpec

(***************************************************************************)
(* The parts together.                                                     *)
(***************************************************************************)
\* The parts run one at a time, and each is its own specification: what is proved
\* of the decoders, of the thresholds and of the pools holds where all are checked.
THEOREM PartsRun == MCSpec => JsonSpec /\ ThrSpec /\ PoolSpec
<1>1. MCInit => JsonInit
  BY DEF MCInit, JsonRest, JsonInit, Commands, Decoder
<1>2. MCInit => ThrInit
  <2> SUFFICES ASSUME ThrRest PROVE ThrInit
    BY DEF MCInit
  <2>1. realm \in Realms /\ steady = TRUE /\ units = "bytes" /\ last = NoCommand
    BY DEF ThrRest, Realms, RealmType
  <2>2. /\ hw = [f \in Programmed |-> IF f \in Programmed THEN Limit ELSE Limit - CellToByte]
        /\ cache = ThresholdGet(hw) /\ tainted = FALSE
    BY DEF ThrRest
  <2>3. \E cleared \in SUBSET Programmed : \E read1 \in BOOLEAN :
          /\ steady => cleared = Programmed /\ read1
          /\ hw = [f \in Programmed |-> IF f \in cleared THEN Limit ELSE Limit - CellToByte]
          /\ cache = IF read1 THEN ThresholdGet(hw) ELSE EmptyCache
          /\ tainted = ~read1
    <3> WITNESS Programmed \in SUBSET Programmed
    <3> WITNESS TRUE \in BOOLEAN
    <3> QED BY <2>2
  <2> QED BY <2>1, <2>3 DEF ThrInit
<1>3. MCInit => PoolInit
  BY DEF MCInit, PoolRest, PoolInit, Pools
<1>4. MCNext => [JsonNext]_jsonVars /\ [ThrNext]_thrVars /\ [PoolNext]_poolVars
  BY DEF MCNext, JsonRuns, ThrRuns, DocumentRuns, DropRuns, PacketDocumentRuns, PoolRuns
<1>5. UNCHANGED requestsVars => UNCHANGED <<jsonVars, thrVars, poolVars>>
  BY DEF requestsVars
<1>6. [MCNext]_requestsVars => [JsonNext]_jsonVars /\ [ThrNext]_thrVars /\ [PoolNext]_poolVars
  BY <1>4, <1>5
<1> QED BY <1>1, <1>2, <1>3, <1>6, PTL DEF MCSpec, JsonSpec, ThrSpec, PoolSpec
=============================================================================
