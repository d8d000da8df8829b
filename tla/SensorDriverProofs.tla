--------------------------- MODULE SensorDriverProofs ---------------------------
(***************************************************************************)
(* What TLAPS proves of the sensors' drivers, for any number of requests   *)
(* and scans, of attempts and of closes: the type invariant, and the four  *)
(* that the run checks of every driver.                                    *)
(*                                                                         *)
(* A driver's programs are unfolded once, into what each says of its steps *)
(* (WakesUp, Reads); the actions are then described once by what they do   *)
(* to the programs, the chip and the readings (TaskEffect, WrittenTo,      *)
(* Deliveries), and the invariants rest on that.                           *)
(***************************************************************************)
EXTENDS SensorDriver, SequenceTheorems, TLAPS

--------------------------------------------------------------------------------
(* The programs of the drivers.                                             *)

\* What a concatenation is made of.
LEMMA Appended ==
    ASSUME NEW S, NEW s \in Seq(S), NEW u \in Seq(S), NEW t, t = s \o u
    PROVE  /\ t \in Seq(S)
           /\ Len(t) = Len(s) + Len(u)
           /\ \A i \in 1..Len(s) : t[i] = s[i]
           /\ \A i \in 1..Len(u) : t[Len(s) + i] = u[i]
<1>1. Len(s) \in Nat /\ Len(u) \in Nat
  OBVIOUS
<1>2. \A i \in 1 .. Len(s) + Len(u) : t[i] = IF i <= Len(s) THEN s[i] ELSE u[i - Len(s)]
  BY ConcatProperties
<1>3. \A i \in 1..Len(s) : t[i] = s[i]
  BY <1>1, <1>2
<1>4. ASSUME NEW i \in 1..Len(u) PROVE t[Len(s) + i] = u[i]
  <2>1. Len(s) + i \in 1 .. Len(s) + Len(u) /\ ~(Len(s) + i <= Len(s)) /\ (Len(s) + i) - Len(s) = i
    BY <1>1
  <2> QED BY <1>2, <2>1
<1> QED BY <1>3, <1>4, ConcatProperties

LEMMA SevenSteps ==
    ASSUME NEW S, NEW a1 \in S, NEW a2 \in S, NEW a3 \in S, NEW a4 \in S,
           NEW a5 \in S, NEW a6 \in S, NEW a7 \in S
    PROVE  LET p == <<a1, a2>> \o <<a3, a4>> \o <<a5, a6>> \o <<a7>> IN
           /\ Len(p) = 7 /\ DOMAIN p = 1..7
           /\ p[1] = a1 /\ p[2] = a2 /\ p[3] = a3 /\ p[4] = a4
           /\ p[5] = a5 /\ p[6] = a6 /\ p[7] = a7
<1> DEFINE a == <<a1, a2>>
           b == <<a3, a4>>
           c == <<a5, a6>>
           d == <<a7>>
<1>1. /\ a \in Seq(S) /\ Len(a) = 2 /\ a[1] = a1 /\ a[2] = a2
      /\ b \in Seq(S) /\ Len(b) = 2 /\ b[1] = a3 /\ b[2] = a4
      /\ c \in Seq(S) /\ Len(c) = 2 /\ c[1] = a5 /\ c[2] = a6
      /\ d \in Seq(S) /\ Len(d) = 1 /\ d[1] = a7
  OBVIOUS
<1> HIDE DEF a, b, c, d
<1>2. PICK ab : ab = a \o b
  OBVIOUS
<1>3. PICK abc : abc = ab \o c
  OBVIOUS
<1>4. PICK p : p = abc \o d
  OBVIOUS
<1>5. /\ ab \in Seq(S) /\ Len(ab) = 4
      /\ \A i \in 1..2 : ab[i] = a[i]
      /\ \A i \in 1..2 : ab[2 + i] = b[i]
  <2>1. a \in Seq(S) /\ b \in Seq(S) /\ ab = a \o b
    BY <1>1, <1>2
  <2>2. /\ ab \in Seq(S)
        /\ Len(ab) = Len(a) + Len(b)
        /\ \A i \in 1..Len(a) : ab[i] = a[i]
        /\ \A i \in 1..Len(b) : ab[Len(a) + i] = b[i]
    BY ONLY <2>1, Appended
  <2>3. Len(a) = 2 /\ Len(b) = 2
    BY <1>1, <1>2
  <2> QED BY ONLY <2>2, <2>3
<1>6. /\ abc \in Seq(S) /\ Len(abc) = 6
      /\ \A i \in 1..4 : abc[i] = ab[i]
      /\ \A i \in 1..2 : abc[4 + i] = c[i]
  <2>1. ab \in Seq(S) /\ c \in Seq(S) /\ abc = ab \o c
    BY <1>1, <1>3, <1>5
  <2>2. /\ abc \in Seq(S)
        /\ Len(abc) = Len(ab) + Len(c)
        /\ \A i \in 1..Len(ab) : abc[i] = ab[i]
        /\ \A i \in 1..Len(c) : abc[Len(ab) + i] = c[i]
    BY ONLY <2>1, Appended
  <2>3. Len(ab) = 4 /\ Len(c) = 2
    BY <1>1, <1>3, <1>5
  <2> QED BY ONLY <2>2, <2>3
<1>7. /\ p \in Seq(S) /\ Len(p) = 7
      /\ \A i \in 1..6 : p[i] = abc[i]
      /\ \A i \in 1..1 : p[6 + i] = d[i]
  <2>1. abc \in Seq(S) /\ d \in Seq(S) /\ p = abc \o d
    BY <1>1, <1>4, <1>6
  <2>2. /\ p \in Seq(S)
        /\ Len(p) = Len(abc) + Len(d)
        /\ \A i \in 1..Len(abc) : p[i] = abc[i]
        /\ \A i \in 1..Len(d) : p[Len(abc) + i] = d[i]
    BY ONLY <2>1, Appended
  <2>3. Len(abc) = 6 /\ Len(d) = 1
    BY <1>1, <1>4, <1>6
  <2> QED BY ONLY <2>2, <2>3
<1>8. /\ Len(p) = 7 /\ DOMAIN p = 1..7
      /\ p[1] = a1 /\ p[2] = a2 /\ p[3] = a3 /\ p[4] = a4
      /\ p[5] = a5 /\ p[6] = a6 /\ p[7] = a7
  BY <1>1, <1>5, <1>6, <1>7
<1>9. p = <<a1, a2>> \o <<a3, a4>> \o <<a5, a6>> \o <<a7>>
  BY <1>2, <1>3, <1>4 DEF a, b, c, d
<1> QED BY <1>8, <1>9

\* The Init that is put together of several programs.
LEMMA SI1145Init ==
    LET p == SI1145.init IN
    /\ Len(p) = 7 /\ DOMAIN p = 1..7
    /\ p[1] = Open
    /\ p[2] = Write("coefficients", "ignore")
    /\ p[3] = Step("param", "channels", "skip")
    /\ p[4] = Step("command", "channels", "ignore")
    /\ p[5] = Step("param", "range", "skip")
    /\ p[6] = Step("command", "range", "ignore")
    /\ p[7] = Write("auto", "ignore")
<1>1. SI1145.init = <<Open, Write("coefficients", "ignore")>>
                    \o <<Step("param", "channels", "skip"), Step("command", "channels", "ignore")>>
                    \o <<Step("param", "range", "skip"), Step("command", "range", "ignore")>>
                    \o <<Write("auto", "ignore")>>
  BY DEF SI1145, WriteParam
<1> DEFINE S == {Open, Write("coefficients", "ignore"), Step("param", "channels", "skip"),
                 Step("command", "channels", "ignore"), Step("param", "range", "skip"),
                 Step("command", "range", "ignore"), Write("auto", "ignore")}
<1>2. /\ Open \in S /\ Write("coefficients", "ignore") \in S /\ Write("auto", "ignore") \in S
      /\ Step("param", "channels", "skip") \in S /\ Step("command", "channels", "ignore") \in S
      /\ Step("param", "range", "skip") \in S /\ Step("command", "range", "ignore") \in S
  OBVIOUS
<1> HIDE DEF S
<1> QED BY ONLY <1>1, <1>2, SevenSteps

InitSteps    == {"open", "make", "write", "check", "send", "param", "command", "startup"}
HarvestSteps == {"lock", "unlock", "send", "fetch", "read", "poll", "nonzero", "sense"}
Answers      == {"return", "ignore", "skip", "again", "forever"}
Mutexes      == {"own", "max44009"}
AllDrivers   == {"HDC1080", "CCS811", "MAX44009", "SI1145", "ADXL345", "BMP280", "LSM303A",
                 "LSM303M", "MAX30102", "ADC"}

\* A program that wakes a sensor up: what its steps are and where.
WakesUp(d, p) ==
    /\ Len(p) \in 1..9 /\ DOMAIN p = 1..Len(p)
    /\ \A n \in 1..Len(p) :
          /\ p[n].what \in InitSteps
          /\ p[n].onError \in {"return", "ignore", "skip"}
          /\ p[n].what = "open" => n = 1
          /\ p[n].what = "make" => n = IF d \in {"MAX30102", "ADC"} THEN 1 ELSE 2
          /\ p[n].what = "startup" => d = "MAX30102" /\ n = 2
          /\ p[n].what = "param" => p[n].onError = "skip"
          /\ p[n].what = "command" =>
                n > 1 /\ p[n - 1].what = "param" /\ p[n - 1].register = p[n].register
          /\ p[n].what = "write" /\ p[n].register = "reset" =>
                d = "CCS811" /\ n = 2 /\ p[1].what = "open"

\* A program that reads a sensor.
Reads(d, p) ==
    /\ Len(p) \in 1..9 /\ DOMAIN p = 1..Len(p)
    /\ \A n \in 1..Len(p) :
          /\ p[n].what \in HarvestSteps
          /\ p[n].what \in {"lock", "unlock"} \/ p[n].onError \in Answers
          /\ p[n].what = "lock" => n < Len(p)
          /\ p[n].what \in {"lock", "unlock"} => p[n].register \in Mutexes
          /\ p[n].what = "fetch" => d = "HDC1080"
          /\ p[n].what \in {"read", "nonzero"} => d \notin {"HDC1080", "MAX30102"}
          /\ p[n].what = "sense" => d \in {"BMP280", "LSM303A", "LSM303M", "MAX30102", "ADC"}

LEMMA DriverFields ==
    /\ DOMAIN Drivers = AllDrivers
    /\ Drivers["HDC1080"] = HDC1080 /\ Drivers["CCS811"] = CCS811
    /\ Drivers["MAX44009"] = MAX44009 /\ Drivers["SI1145"] = SI1145
    /\ Drivers["ADXL345"] = ADXL345 /\ Drivers["BMP280"] = BMP280
    /\ Drivers["LSM303A"] = LSM303A /\ Drivers["LSM303M"] = LSM303M
    /\ Drivers["MAX30102"] = MAX30102 /\ Drivers["ADC"] = ADC
BY DEF Drivers, AllDrivers

\* What the steps are.
LEMMA StepFields ==
    /\ \A w, r, e : /\ Step(w, r, e).what = w
                    /\ Step(w, r, e).register = r
                    /\ Step(w, r, e).onError = e
    /\ Open.what = "open" /\ Open.onError = "return"
    /\ Make.what = "make" /\ Make.onError = "return"
    /\ Lock.what = "lock" /\ Lock.register = "own"
    /\ Unlock.what = "unlock" /\ Unlock.register = "own"
    /\ \A m : LockOf(m).what = "lock" /\ LockOf(m).register = m
    /\ \A m : UnlockOf(m).what = "unlock" /\ UnlockOf(m).register = m
    /\ \A r, e : /\ Write(r, e).what = "write" /\ Write(r, e).register = r
                 /\ Write(r, e).onError = e
                 /\ Check(r, e).what = "check" /\ Check(r, e).onError = e
    /\ \A r : /\ Send(r).what = "send" /\ Send(r).register = r /\ Send(r).onError = "return"
              /\ Fetch(r).what = "fetch" /\ Fetch(r).register = r /\ Fetch(r).onError = "again"
              /\ Read(r).what = "read" /\ Read(r).onError = "ignore"
              /\ Sense(r).what = "sense" /\ Sense(r).onError = "ignore"
BY DEF Step, Open, Make, Lock, Unlock, LockOf, UnlockOf, Write, Check, Send, Fetch, Read, Sense

\* Every driver's Init is one.
LEMMA InitPrograms == ASSUME NEW d \in AllDrivers PROVE WakesUp(d, Drivers[d].init)
<1> USE DEF InitSteps
<1>1. WakesUp("HDC1080", HDC1080.init)
  <2> DEFINE p == HDC1080.init
  <2>1. /\ Len(p) = 2 /\ DOMAIN p = 1..2
        /\ p[1] = Open /\ p[2] = Write("config", "return")
    BY DEF HDC1080
  <2> HIDE DEF p
  <2>2. WakesUp("HDC1080", p)
    BY <2>1, StepFields DEF WakesUp
  <2> QED BY <2>2 DEF p
<1>2. WakesUp("CCS811", CCS811.init)
  <2> DEFINE p == CCS811.init
  <2>1. /\ Len(p) = 6 /\ DOMAIN p = 1..6
        /\ p[1] = Open /\ p[2] = Write("reset", "ignore") /\ p[3] = Check("status", "ignore")
        /\ p[4] = Send("start") /\ p[5] = Check("status", "return")
        /\ p[6] = Write("mode", "return")
    BY DEF CCS811
  <2> HIDE DEF p
  <2>2. WakesUp("CCS811", p)
    BY <2>1, StepFields DEF WakesUp
  <2> QED BY <2>2 DEF p
<1>3. WakesUp("MAX44009", MAX44009.init)
  <2> DEFINE p == MAX44009.init
  <2>1. /\ Len(p) = 1 /\ DOMAIN p = 1..1
        /\ p[1] = Open
    BY DEF MAX44009
  <2> HIDE DEF p
  <2>2. WakesUp("MAX44009", p)
    BY <2>1, StepFields DEF WakesUp
  <2> QED BY <2>2 DEF p
<1>4. WakesUp("SI1145", SI1145.init)
  <2> DEFINE p == SI1145.init
  <2>1. /\ Len(p) = 7 /\ DOMAIN p = 1..7
        /\ p[1] = Open /\ p[2] = Write("coefficients", "ignore")
        /\ p[3] = Step("param", "channels", "skip")
        /\ p[4] = Step("command", "channels", "ignore")
        /\ p[5] = Step("param", "range", "skip") /\ p[6] = Step("command", "range", "ignore")
        /\ p[7] = Write("auto", "ignore")
    BY SI1145Init
  <2> HIDE DEF p
  <2>2. WakesUp("SI1145", p)
    BY <2>1, StepFields DEF WakesUp
  <2> QED BY <2>2 DEF p
<1>5. WakesUp("ADXL345", ADXL345.init)
  <2> DEFINE p == ADXL345.init
  <2>1. /\ Len(p) = 5 /\ DOMAIN p = 1..5
        /\ p[1] = Open /\ p[2] = Write("rate", "return") /\ p[3] = Check("format", "return")
        /\ p[4] = Write("format", "return") /\ p[5] = Write("power", "return")
    BY DEF ADXL345
  <2> HIDE DEF p
  <2>2. WakesUp("ADXL345", p)
    BY <2>1, StepFields DEF WakesUp
  <2> QED BY <2>2 DEF p
<1>6. WakesUp("BMP280", BMP280.init)
  <2> DEFINE p == BMP280.init
  <2>1. /\ Len(p) = 2 /\ DOMAIN p = 1..2
        /\ p[1] = Open /\ p[2] = Make
    BY DEF BMP280
  <2> HIDE DEF p
  <2>2. WakesUp("BMP280", p)
    BY <2>1, StepFields DEF WakesUp
  <2> QED BY <2>2 DEF p
<1>7. WakesUp("LSM303A", LSM303A.init)
  <2> DEFINE p == LSM303A.init
  <2>1. /\ Len(p) = 2 /\ DOMAIN p = 1..2
        /\ p[1] = Open /\ p[2] = Make
    BY DEF LSM303A
  <2> HIDE DEF p
  <2>2. WakesUp("LSM303A", p)
    BY <2>1, StepFields DEF WakesUp
  <2> QED BY <2>2 DEF p
<1>8. WakesUp("LSM303M", LSM303M.init)
  <2> DEFINE p == LSM303M.init
  <2>1. /\ Len(p) = 2 /\ DOMAIN p = 1..2
        /\ p[1] = Open /\ p[2] = Make
    BY DEF LSM303M
  <2> HIDE DEF p
  <2>2. WakesUp("LSM303M", p)
    BY <2>1, StepFields DEF WakesUp
  <2> QED BY <2>2 DEF p
<1>9. WakesUp("MAX30102", MAX30102.init)
  <2> DEFINE p == MAX30102.init
  <2>1. /\ Len(p) = 2 /\ DOMAIN p = 1..2
        /\ p[1] = Make /\ p[2] = Step("startup", "", "return")
    BY DEF MAX30102
  <2> HIDE DEF p
  <2>2. WakesUp("MAX30102", p)
    <3>1. /\ Step("startup", "", "return").what = "startup"
          /\ Step("startup", "", "return").onError = "return"
      BY DEF Step
    <3>2. /\ p[1].what = "make" /\ p[1].onError = "return"
          /\ p[2].what = "startup" /\ p[2].onError = "return"
      BY <2>1, <3>1, StepFields
    <3>3. Len(p) = 2 /\ DOMAIN p = 1..2
      BY <2>1
    <3> QED BY ONLY <3>2, <3>3 DEF WakesUp, InitSteps
  <2> QED BY <2>2 DEF p
<1>10. WakesUp("ADC", ADC.init)
  <2> DEFINE p == ADC.init
  <2>1. /\ Len(p) = 1 /\ DOMAIN p = 1..1
        /\ p[1] = Make
    BY DEF ADC
  <2> HIDE DEF p
  <2>2. WakesUp("ADC", p)
    BY <2>1, StepFields DEF WakesUp
  <2> QED BY <2>2 DEF p
<1> QED BY <1>1, <1>2, <1>3, <1>4, <1>5, <1>6, <1>7, <1>8, <1>9, <1>10, DriverFields DEF AllDrivers

ReadBy(d, h) ==
    /\ Len(h) \in 1..2 /\ DOMAIN h = 1..Len(h)
    /\ \A n \in 1..Len(h) : Reads(d, h[n])

\* Every driver's Harvest is one or two of them.
LEMMA HarvestPrograms == ASSUME NEW d \in AllDrivers PROVE ReadBy(d, Drivers[d].harvest)
<1> USE DEF HarvestSteps, Mutexes, Answers
<1>1. ReadBy("HDC1080", HDC1080.harvest)
  <2> DEFINE h == HDC1080.harvest
  <2>1. Len(h) = 2 /\ DOMAIN h = 1..2 /\ h[1] = Conversion("temperature") /\ h[2] = Conversion("humidity")
    BY DEF HDC1080
  <2>2. Reads("HDC1080", Conversion("temperature"))
    <3> DEFINE p == Conversion("temperature")
    <3>1. /\ Len(p) = 4 /\ DOMAIN p = 1..4
          /\ p[1] = Lock /\ p[2] = Send("temperature") /\ p[3] = Fetch("temperature")
          /\ p[4] = Unlock
      BY DEF Conversion
    <3> HIDE DEF p
    <3>2. Reads("HDC1080", p)
      BY <3>1, StepFields DEF Reads
    <3> QED BY <3>2 DEF p
  <2>3. Reads("HDC1080", Conversion("humidity"))
    <3> DEFINE p == Conversion("humidity")
    <3>1. /\ Len(p) = 4 /\ DOMAIN p = 1..4
          /\ p[1] = Lock /\ p[2] = Send("humidity") /\ p[3] = Fetch("humidity")
          /\ p[4] = Unlock
      BY DEF Conversion
    <3> HIDE DEF p
    <3>2. Reads("HDC1080", p)
      BY <3>1, StepFields DEF Reads
    <3> QED BY <3>2 DEF p
  <2> HIDE DEF h
  <2>4. ReadBy("HDC1080", h)
    BY <2>1, <2>2, <2>3 DEF ReadBy
  <2> QED BY <2>4 DEF h
<1>2. ReadBy("CCS811", CCS811.harvest)
  <2> DEFINE h == CCS811.harvest
  <2>1. Len(h) = 1 /\ DOMAIN h = 1..1 /\ h[1] = <<Step("poll", "status", "again"), Step("nonzero", "result", "return")>>
    BY DEF CCS811
  <2>2. Reads("CCS811", <<Step("poll", "status", "again"), Step("nonzero", "result", "return")>>)
    <3> DEFINE p == <<Step("poll", "status", "again"), Step("nonzero", "result", "return")>>
    <3>1. /\ Len(p) = 2 /\ DOMAIN p = 1..2
          /\ p[1] = Step("poll", "status", "again")
          /\ p[2] = Step("nonzero", "result", "return")
      OBVIOUS
    <3> HIDE DEF p
    <3>2. Reads("CCS811", p)
      BY <3>1, StepFields DEF Reads
    <3> QED BY <3>2 DEF p
  <2> HIDE DEF h
  <2>3. ReadBy("CCS811", h)
    BY <2>1, <2>2 DEF ReadBy
  <2> QED BY <2>3 DEF h
<1>3. ReadBy("MAX44009", MAX44009.harvest)
  <2> DEFINE h == MAX44009.harvest
  <2>1. Len(h) = 1 /\ DOMAIN h = 1..1 /\ h[1] = <<Read("lux")>>
    BY DEF MAX44009
  <2>2. Reads("MAX44009", <<Read("lux")>>)
    <3> DEFINE p == <<Read("lux")>>
    <3>1. /\ Len(p) = 1 /\ DOMAIN p = 1..1
          /\ p[1] = Read("lux")
      OBVIOUS
    <3> HIDE DEF p
    <3>2. Reads("MAX44009", p)
      BY <3>1, StepFields DEF Reads
    <3> QED BY <3>2 DEF p
  <2> HIDE DEF h
  <2>3. ReadBy("MAX44009", h)
    BY <2>1, <2>2 DEF ReadBy
  <2> QED BY <2>3 DEF h
<1>4. ReadBy("SI1145", SI1145.harvest)
  <2> DEFINE h == SI1145.harvest
  <2>1. Len(h) = 1 /\ DOMAIN h = 1..1 /\ h[1] = <<LockOf("max44009"), Read("uv"), Read("visible"), UnlockOf("max44009")>>
    BY DEF SI1145
  <2>2. Reads("SI1145", <<LockOf("max44009"), Read("uv"), Read("visible"), UnlockOf("max44009")>>)
    <3> DEFINE p == <<LockOf("max44009"), Read("uv"), Read("visible"), UnlockOf("max44009")>>
    <3>1. /\ Len(p) = 4 /\ DOMAIN p = 1..4
          /\ p[1] = LockOf("max44009") /\ p[2] = Read("uv") /\ p[3] = Read("visible")
          /\ p[4] = UnlockOf("max44009")
      OBVIOUS
    <3> HIDE DEF p
    <3>2. Reads("SI1145", p)
      BY <3>1, StepFields DEF Reads
    <3> QED BY <3>2 DEF p
  <2> HIDE DEF h
  <2>3. ReadBy("SI1145", h)
    BY <2>1, <2>2 DEF ReadBy
  <2> QED BY <2>3 DEF h
<1>5. ReadBy("ADXL345", ADXL345.harvest)
  <2> DEFINE h == ADXL345.harvest
  <2>1. Len(h) = 1 /\ DOMAIN h = 1..1 /\ h[1] = <<Read("axes")>>
    BY DEF ADXL345
  <2>2. Reads("ADXL345", <<Read("axes")>>)
    <3> DEFINE p == <<Read("axes")>>
    <3>1. /\ Len(p) = 1 /\ DOMAIN p = 1..1
          /\ p[1] = Read("axes")
      OBVIOUS
    <3> HIDE DEF p
    <3>2. Reads("ADXL345", p)
      BY <3>1, StepFields DEF Reads
    <3> QED BY <3>2 DEF p
  <2> HIDE DEF h
  <2>3. ReadBy("ADXL345", h)
    BY <2>1, <2>2 DEF ReadBy
  <2> QED BY <2>3 DEF h
<1>6. ReadBy("BMP280", BMP280.harvest)
  <2> DEFINE h == BMP280.harvest
  <2>1. Len(h) = 1 /\ DOMAIN h = 1..1 /\ h[1] = <<Lock, Sense("pressure"), Unlock>>
    BY DEF BMP280
  <2>2. Reads("BMP280", <<Lock, Sense("pressure"), Unlock>>)
    <3> DEFINE p == <<Lock, Sense("pressure"), Unlock>>
    <3>1. /\ Len(p) = 3 /\ DOMAIN p = 1..3
          /\ p[1] = Lock /\ p[2] = Sense("pressure") /\ p[3] = Unlock
      OBVIOUS
    <3> HIDE DEF p
    <3>2. Reads("BMP280", p)
      BY <3>1, StepFields DEF Reads
    <3> QED BY <3>2 DEF p
  <2> HIDE DEF h
  <2>3. ReadBy("BMP280", h)
    BY <2>1, <2>2 DEF ReadBy
  <2> QED BY <2>3 DEF h
<1>7. ReadBy("LSM303A", LSM303A.harvest)
  <2> DEFINE h == LSM303A.harvest
  <2>1. Len(h) = 1 /\ DOMAIN h = 1..1 /\ h[1] = <<Lock, Sense("axes"), Unlock>>
    BY DEF LSM303A
  <2>2. Reads("LSM303A", <<Lock, Sense("axes"), Unlock>>)
    <3> DEFINE p == <<Lock, Sense("axes"), Unlock>>
    <3>1. /\ Len(p) = 3 /\ DOMAIN p = 1..3
          /\ p[1] = Lock /\ p[2] = Sense("axes") /\ p[3] = Unlock
      OBVIOUS
    <3> HIDE DEF p
    <3>2. Reads("LSM303A", p)
      BY <3>1, StepFields DEF Reads
    <3> QED BY <3>2 DEF p
  <2> HIDE DEF h
  <2>3. ReadBy("LSM303A", h)
    BY <2>1, <2>2 DEF ReadBy
  <2> QED BY <2>3 DEF h
<1>8. ReadBy("LSM303M", LSM303M.harvest)
  <2> DEFINE h == LSM303M.harvest
  <2>1. Len(h) = 1 /\ DOMAIN h = 1..1 /\ h[1] = <<Lock, Sense("axes"), Unlock, Sense("temperature")>>
    BY DEF LSM303M
  <2>2. Reads("LSM303M", <<Lock, Sense("axes"), Unlock, Sense("temperature")>>)
    <3> DEFINE p == <<Lock, Sense("axes"), Unlock, Sense("temperature")>>
    <3>1. /\ Len(p) = 4 /\ DOMAIN p = 1..4
          /\ p[1] = Lock /\ p[2] = Sense("axes") /\ p[3] = Unlock
          /\ p[4] = Sense("temperature")
      OBVIOUS
    <3> HIDE DEF p
    <3>2. Reads("LSM303M", p)
      BY <3>1, StepFields DEF Reads
    <3> QED BY <3>2 DEF p
  <2> HIDE DEF h
  <2>3. ReadBy("LSM303M", h)
    BY <2>1, <2>2 DEF ReadBy
  <2> QED BY <2>3 DEF h
<1>9. ReadBy("MAX30102", MAX30102.harvest)
  <2> DEFINE h == MAX30102.harvest
  <2>1. Len(h) = 1 /\ DOMAIN h = 1..1 /\ h[1] = <<Sense("heartRate"), Sense("oxygen")>>
    BY DEF MAX30102
  <2>2. Reads("MAX30102", <<Sense("heartRate"), Sense("oxygen")>>)
    <3> DEFINE p == <<Sense("heartRate"), Sense("oxygen")>>
    <3>1. /\ Len(p) = 2 /\ DOMAIN p = 1..2
          /\ p[1] = Sense("heartRate") /\ p[2] = Sense("oxygen")
      OBVIOUS
    <3> HIDE DEF p
    <3>2. Reads("MAX30102", p)
      BY <3>1, StepFields DEF Reads
    <3> QED BY <3>2 DEF p
  <2> HIDE DEF h
  <2>3. ReadBy("MAX30102", h)
    BY <2>1, <2>2 DEF ReadBy
  <2> QED BY <2>3 DEF h
<1>10. ReadBy("ADC", ADC.harvest)
  <2> DEFINE h == ADC.harvest
  <2>1. Len(h) = 1 /\ DOMAIN h = 1..1 /\ h[1] = <<Step("sense", "sample", "forever")>>
    BY DEF ADC
  <2>2. Reads("ADC", <<Step("sense", "sample", "forever")>>)
    <3> DEFINE p == <<Step("sense", "sample", "forever")>>
    <3>1. /\ Len(p) = 1 /\ DOMAIN p = 1..1
          /\ p[1] = Step("sense", "sample", "forever")
      OBVIOUS
    <3> HIDE DEF p
    <3>2. Reads("ADC", p)
      BY <3>1, StepFields DEF Reads
    <3> QED BY <3>2 DEF p
  <2> HIDE DEF h
  <2>3. ReadBy("ADC", h)
    BY <2>1, <2>2 DEF ReadBy
  <2> QED BY <2>3 DEF h
<1> QED BY <1>1, <1>2, <1>3, <1>4, <1>5, <1>6, <1>7, <1>8, <1>9, <1>10, DriverFields DEF AllDrivers

USE DriverAssumption

--------------------------------------------------------------------------------
(* Types, and what a program is of.                                         *)

ChipType == \E V : chip \in [set : SUBSET Settings, latch : V, pointer : V, by : V]

\* Who wakes a sensor up or harvests it is where its request is.
RolesKept ==
    \A k \in Workers :
        /\ task[k].op = "init" => k \in Requests \X {1} /\ reader[k[1]] = "init"
        /\ task[k].op = "harvest" => k \in Requests \X Parts /\ reader[k[1]] = "harvest"
        /\ task[k].op = "verify" => k \in Scans

\* The inductive invariant.
DriverInv == TypeOK /\ ChipType /\ RolesKept

Places == {"idle", "init", "check", "harvest", "over", "failed"}
TaskRecords == [op : {"none", "init", "harvest", "verify", "over"}, at : 1..9, tries : 0..Attempts]

LEMMA StartedType ==
    ASSUME NEW op \in {"none", "init", "harvest", "verify", "over"}
    PROVE  Started(op) \in TaskRecords /\ Started(op).op = op /\ Started(op).at = 1
BY DEF Started, TaskRecords

LEMMA KnownDrivers == kind \in Kinds => kind \in AllDrivers
BY DEF AllDrivers

\* A harvest has one or two parts, each with its program.
LEMMA PartsType == kind \in Kinds => Parts \subseteq {1, 2} /\ Parts # {} /\ DOMAIN Driver.harvest = Parts
<1> SUFFICES ASSUME kind \in Kinds
             PROVE  Parts \subseteq {1, 2} /\ Parts # {} /\ DOMAIN Driver.harvest = Parts
  OBVIOUS
<1>1. Len(Driver.harvest) \in 1..2 /\ DOMAIN Driver.harvest = 1..Len(Driver.harvest)
  BY KnownDrivers, HarvestPrograms DEF ReadBy, Driver
<1>2. 1 \in Parts
  BY <1>1 DEF Parts
<1>3. \A n \in Parts : n = 1 \/ n = 2
  <2>1. \A len \in 1..2 : \A n \in 1..len : n = 1 \/ n = 2
    OBVIOUS
  <2> QED BY <1>1, <2>1 DEF Parts
<1>4. DOMAIN Driver.harvest = Parts
  BY <1>1 DEF Parts
<1> QED BY <1>2, <1>3, <1>4

\* A scan reads the chip's identity.
LEMMA VerifyProgram ==
    /\ Len(Verify) = 1 /\ DOMAIN Verify = 1..1
    /\ Verify[1].what = "check" /\ Verify[1].onError = "return"
<1>1. Len(Verify) = 1 /\ DOMAIN Verify = 1..1 /\ Verify[1] = Check("id", "return")
  BY DEF Verify
<1>2. Check("id", "return").what = "check" /\ Check("id", "return").onError = "return"
  BY DEF Check, Step
<1> QED BY <1>1, <1>2

\* The program that a worker runs, by what it does.
LEMMA Programs ==
    ASSUME kind \in Kinds, RolesKept, NEW k \in Workers, Running(k)
    PROVE  /\ Len(Program(k)) \in 1..9
           /\ DOMAIN Program(k) = 1..Len(Program(k))
           /\ \/ task[k].op = "init" /\ Program(k) = Driver.init /\ WakesUp(kind, Program(k))
              \/ task[k].op = "harvest" /\ Program(k) = Driver.harvest[k[2]] /\ Reads(kind, Program(k))
              \/ task[k].op = "verify" /\ Program(k) = Verify
<1>1. CASE task[k].op = "init"
  BY <1>1, KnownDrivers, InitPrograms DEF Program, Driver, WakesUp
<1>2. CASE task[k].op = "harvest"
  <2>1. k[2] \in Parts
    BY <1>2 DEF RolesKept
  <2>2. Reads(kind, Driver.harvest[k[2]])
    BY <2>1, KnownDrivers, HarvestPrograms DEF ReadBy, Parts, Driver
  <2>3. Program(k) = Driver.harvest[k[2]]
    BY <1>2 DEF Program
  <2> QED BY <1>2, <2>2, <2>3 DEF Reads
<1>3. CASE task[k].op = "verify"
  <2>1. Program(k) = Verify
    BY <1>3 DEF Program
  <2> QED BY <1>3, <2>1, VerifyProgram
<1> QED BY <1>1, <1>2, <1>3 DEF Running

\* What a step is says whose it can be.
LEMMA StepsOf ==
    ASSUME DriverInv, NEW k \in Workers, Running(k), NEW w, Current(k).what = w
    PROVE  /\ w \in InitSteps \ {"send", "check"} => task[k].op = "init"
           /\ w \in HarvestSteps \ {"send"} => task[k].op = "harvest"
           /\ w = "send" => task[k].op \in {"init", "harvest"}
           /\ w = "check" => task[k].op \in {"init", "verify"}
<1> USE DEF InitSteps, HarvestSteps
<1>1. task[k].at \in 1..Len(Program(k))
  BY Programs DEF DriverInv, TypeOK
<1>2. CASE task[k].op = "init"
  BY <1>1, <1>2, Programs DEF DriverInv, TypeOK, WakesUp, Current
<1>3. CASE task[k].op = "harvest"
  BY <1>1, <1>3, Programs DEF DriverInv, TypeOK, Reads, Current
<1>4. CASE task[k].op = "verify"
  BY <1>1, <1>4, Programs, VerifyProgram DEF DriverInv, TypeOK, Current
<1> QED BY <1>2, <1>3, <1>4 DEF Running

\* What a step does to the programs: its own goes on, ends, or gives up.
TaskEffect(k) ==
    /\ task' \in [Workers -> TaskRecords]
    /\ \A j \in Workers \ {k} : task'[j] = task[j]
    /\ \/ /\ task'[k].op = task[k].op /\ task'[k].at \in DOMAIN Program(k)
          /\ reader' = reader
       \/ task'[k] = Started("over") /\ reader' = reader
       \/ /\ task'[k] = Started("over") /\ task[k].op = "init"
          /\ reader' = [reader EXCEPT ![k[1]] = "failed"]

MutexType == mutex \in [Mutexes -> Workers \cup {Nil}]

LEMMA TaskTyped ==
    ASSUME DriverInv
    PROVE  task \in [Workers -> TaskRecords] /\ kind \in Kinds /\ MutexType
BY DEF DriverInv, TypeOK, TaskRecords, MutexType, Mutexes

\* A program that is over.
LEMMA FinishEffect ==
    ASSUME DriverInv, NEW k \in Workers, task' = Finish(k)
    PROVE  /\ task' \in [Workers -> TaskRecords]
           /\ \A j \in Workers \ {k} : task'[j] = task[j]
           /\ task'[k] = Started("over")
BY TaskTyped, StartedType DEF Finish

\* A program that runs is at one of its steps.
LEMMA AtInProgram ==
    ASSUME DriverInv, NEW k \in Workers, Running(k)
    PROVE  /\ task[k].at \in 1..Len(Program(k)) /\ DOMAIN Program(k) = 1..Len(Program(k))
           /\ Len(Program(k)) \in 1..9
BY Programs DEF DriverInv, TypeOK

\* A program that goes on is at a later step, or over.
LEMMA AdvanceEffect ==
    ASSUME DriverInv, NEW k \in Workers, Running(k), NEW n \in {1, 2}, AdvanceBy(k, n)
    PROVE  /\ TaskEffect(k) /\ reader' = reader /\ mutex' = mutex
           /\ task[k].at + n <= Len(Program(k)) =>
                 task'[k].op = task[k].op /\ task'[k].at = task[k].at + n
           /\ task[k].at + n > Len(Program(k)) => task'[k] = Started("over")
<1>1. reader' = reader /\ mutex' = mutex
  BY DEF AdvanceBy
<1>2. CASE task[k].at + n > Len(Program(k))
  <2>1. task' = Finish(k)
    BY <1>2 DEF AdvanceBy
  <2> QED BY <1>1, <1>2, <2>1, FinishEffect, AtInProgram DEF TaskEffect
<1>3. CASE ~(task[k].at + n > Len(Program(k)))
  <2>1. task[k].at + n \in 1..Len(Program(k)) /\ task[k].at + n \in 1..9
    <3> DEFINE at == task[k].at
               len == Len(Program(k))
    <3>1. len \in 1..9 /\ at \in 1..len /\ ~(at + n > len)
      BY <1>3, AtInProgram
    <3> HIDE DEF at, len
    <3>2. at + n \in 1..len /\ at + n \in 1..9
      BY <3>1
    <3> QED BY <3>2 DEF at, len
  <2>2. task' = [task EXCEPT ![k] = [op |-> @.op, at |-> @.at + n, tries |-> Attempts]]
    BY <1>3 DEF AdvanceBy
  <2>3. task[k] \in TaskRecords
    BY TaskTyped
  <2> DEFINE r == [op |-> task[k].op, at |-> task[k].at + n, tries |-> Attempts]
  <2>4. r \in TaskRecords /\ r.op = task[k].op /\ r.at = task[k].at + n
    <3>1. Attempts \in 0..Attempts
      OBVIOUS
    <3> QED BY <2>1, <2>3, <3>1 DEF TaskRecords
  <2>5. task' = [task EXCEPT ![k] = r]
    BY <2>2
  <2> HIDE DEF r
  <2>6. /\ task' \in [Workers -> TaskRecords] /\ task'[k] = r
        /\ \A j \in Workers \ {k} : task'[j] = task[j]
    BY <2>4, <2>5, TaskTyped
  <2> QED BY <1>1, <1>3, <2>1, <2>4, <2>6, AtInProgram DEF TaskEffect
<1> QED BY <1>2, <1>3

LEMMA NextEffect ==
    ASSUME DriverInv, NEW k \in Workers, Running(k), Advance(k)
    PROVE  /\ TaskEffect(k) /\ reader' = reader /\ mutex' = mutex
           /\ task[k].at + 1 <= Len(Program(k)) =>
                 task'[k].op = task[k].op /\ task'[k].at = task[k].at + 1
           /\ task[k].at + 1 > Len(Program(k)) => task'[k] = Started("over")
BY AdvanceEffect DEF Advance

\* A program that gives up is over, and what it held is free.
LEMMA ReturnEffect ==
    ASSUME DriverInv, NEW k \in Workers, Running(k), Return(k)
    PROVE  TaskEffect(k) /\ MutexType' /\ task'[k] = Started("over")
<1>1. task' = Finish(k)
  BY DEF Return
<1>2. reader' = reader \/ (task[k].op = "init" /\ reader' = [reader EXCEPT ![k[1]] = "failed"])
  BY DEF Return
<1>3. MutexType'
  BY TaskTyped DEF Return, MutexType
<1> QED BY <1>1, <1>2, <1>3, FinishEffect DEF TaskEffect

\* A step that is tried again stays where it is, or gives up.
LEMMA AgainEffect ==
    ASSUME DriverInv, NEW k \in Workers, Running(k), NEW least \in {0, 1}, Again(k, least)
    PROVE  /\ TaskEffect(k) /\ MutexType'
           /\ \/ Return(k)
              \/ /\ mutex' = mutex /\ reader' = reader
                 /\ task'[k].op = task[k].op /\ task'[k].at = task[k].at
<1>1. CASE task[k].tries > least
  <2>1. task[k] \in TaskRecords
    BY TaskTyped
  <2> DEFINE r == [task[k] EXCEPT !.tries = @ - 1]
  <2>2. task' = [task EXCEPT ![k] = r] /\ reader' = reader /\ mutex' = mutex
    BY <1>1 DEF Again
  <2>3. r \in TaskRecords /\ r.op = task[k].op /\ r.at = task[k].at
    <3>1. task[k].tries - 1 \in 0..Attempts
      BY <1>1, <2>1 DEF TaskRecords
    <3> QED BY <2>1, <3>1 DEF TaskRecords
  <2> HIDE DEF r
  <2>4. /\ task' \in [Workers -> TaskRecords] /\ task'[k] = r
        /\ \A j \in Workers \ {k} : task'[j] = task[j]
    BY <2>2, <2>3, TaskTyped
  <2> QED BY <2>2, <2>3, <2>4, AtInProgram, TaskTyped DEF TaskEffect, MutexType
<1>2. CASE ~(task[k].tries > least)
  BY <1>2, ReturnEffect DEF Again
<1> QED BY <1>1, <1>2

LEMMA StayEffect ==
    ASSUME DriverInv, NEW k \in Workers, Running(k), UNCHANGED <<task, reader>>
    PROVE  TaskEffect(k)
BY TaskTyped, AtInProgram DEF TaskEffect

\* What becomes of an error is written at every step that can fail.
LEMMA AnswersOf ==
    ASSUME DriverInv, NEW k \in Workers, Running(k), Current(k).what \notin {"lock", "unlock"}
    PROVE  Current(k).onError \in Answers
<1>1. task[k].at \in 1..Len(Program(k))
  BY AtInProgram
<1> USE DEF DriverInv, TypeOK
<1>2. CASE task[k].op = "init"
  BY <1>1, <1>2, Programs DEF WakesUp, Current, Answers
<1>3. CASE task[k].op = "harvest"
  BY <1>1, <1>3, Programs DEF Reads, Current
<1>4. CASE task[k].op = "verify"
  BY <1>1, <1>4, Programs, VerifyProgram DEF Current, Answers
<1> QED BY <1>2, <1>3, <1>4 DEF Running

\* An error is one of these.
LEMMA ErrorEffect ==
    ASSUME DriverInv, NEW k \in Workers, Running(k), Current(k).what \notin {"lock", "unlock"},
           Error(k)
    PROVE  /\ TaskEffect(k) /\ MutexType'
           /\ \/ Return(k)
              \/ mutex' = mutex /\ reader' = reader
<1>1. \/ Return(k) \/ Advance(k) \/ AdvanceBy(k, 2) \/ Again(k, 0)
      \/ UNCHANGED <<task, reader, mutex>>
  BY AnswersOf DEF Error, Answers
<1>2. MutexType
  BY TaskTyped
<1>3. CASE Return(k)
  BY <1>3, ReturnEffect
<1>4. CASE Advance(k)
  BY <1>2, <1>4, NextEffect DEF MutexType
<1>5. CASE AdvanceBy(k, 2)
  BY <1>2, <1>5, AdvanceEffect DEF MutexType
<1>6. CASE Again(k, 0)
  BY <1>6, AgainEffect
<1>7. CASE UNCHANGED <<task, reader, mutex>>
  BY <1>2, <1>7, StayEffect DEF MutexType
<1> QED BY <1>1, <1>3, <1>4, <1>5, <1>6, <1>7

\* A chip whose settings are among those of its driver.
Chips(V) == [set : SUBSET Settings, latch : V, pointer : V, by : V]

\* What a transaction does to the chip besides what it writes.
LEMMA Pointed ==
    ASSUME DriverInv, NEW k \in Workers
    PROVE  /\ \E V : Points(k) \in Chips(V)
           /\ Points(k).set = chip.set /\ Points(k).latch = chip.latch
           /\ kind = "HDC1080" => Points(k).pointer = Current(k).register /\ Points(k).by = k
<1>1. PICK V : chip \in Chips(V)
  BY DEF DriverInv, ChipType, Chips
<1>2. CASE kind = "HDC1080"
  <2> DEFINE r == Current(k).register
             p == [chip EXCEPT !.pointer = r, !.by = k]
             W == V \cup {r, k}
  <2>1. Points(k) = p
    BY <1>2 DEF Points
  <2>2. chip \in [set : SUBSET Settings, latch : W, pointer : W, by : W] /\ r \in W /\ k \in W
    BY <1>1 DEF Chips
  <2> HIDE DEF r, W
  <2>3. /\ p \in [set : SUBSET Settings, latch : W, pointer : W, by : W]
        /\ p.set = chip.set /\ p.latch = chip.latch /\ p.pointer = r /\ p.by = k
    BY <2>2
  <2> HIDE DEF p
  <2> QED BY <2>1, <2>3 DEF Chips, r
<1>3. CASE kind # "HDC1080"
  BY <1>1, <1>3 DEF Points
<1> QED BY <1>2, <1>3

\* The write that drops a chip's settings.
Resets(step) == step.what = "write" /\ step.register = "reset"

\* What a write leaves in the chip: a value for a parameter, a parameter that
\* has another's value, no setting or one more.
LEMMA WrittenTo ==
    ASSUME DriverInv, NEW k \in Workers
    PROVE  /\ \E V : Written(k) \in Chips(V)
           /\ kind = "HDC1080" =>
                 Written(k).pointer = Current(k).register /\ Written(k).by = k
           /\ \/ /\ Current(k).what = "param"
                 /\ Written(k).set = chip.set /\ Written(k).latch = Current(k).register
              \/ /\ Current(k).what = "command" /\ chip.latch # Current(k).register
                 /\ Written(k).set = chip.set \ {Current(k).register}
                 /\ Written(k).latch = chip.latch
              \/ Resets(Current(k)) /\ Written(k).set = {} /\ Written(k).latch = chip.latch
              \/ /\ Current(k).what # "param" /\ ~Resets(Current(k))
                 /\ Current(k).what = "command" => chip.latch = Current(k).register
                 /\ Written(k).set = chip.set \cup ({Current(k).register} \cap Settings)
                 /\ Written(k).latch = chip.latch
<1> DEFINE r == Current(k).register
           p == Points(k)
<1>1. PICK V : p \in Chips(V)
  BY Pointed
<1>2. /\ p.set = chip.set /\ p.latch = chip.latch
      /\ kind = "HDC1080" => p.pointer = r /\ p.by = k
  BY Pointed
<1> DEFINE W == V \cup {r}
<1>3. p \in [set : SUBSET Settings, latch : W, pointer : W, by : W] /\ r \in W
  BY <1>1 DEF Chips
<1>4. Chips(W) = [set : SUBSET Settings, latch : W, pointer : W, by : W]
  BY DEF Chips
<1>5. Written(k) = CASE Current(k).what = "param" -> [p EXCEPT !.latch = r]
                     [] Current(k).what = "command" /\ chip.latch # r -> [p EXCEPT !.set = @ \ {r}]
                     [] Current(k).what = "write" /\ r = "reset" -> [p EXCEPT !.set = {}]
                     [] OTHER -> [p EXCEPT !.set = @ \cup ({r} \cap Settings)]
  BY DEF Written
<1> HIDE DEF p, W
<1>6. CASE Current(k).what = "param"
  <2>1. Written(k) = [p EXCEPT !.latch = r]
    BY <1>5, <1>6
  <2> HIDE DEF r
  <2>2. /\ Written(k) \in Chips(W) /\ Written(k).latch = r
        /\ Written(k).set = p.set /\ Written(k).pointer = p.pointer /\ Written(k).by = p.by
    BY <1>3, <1>4, <2>1
  <2> QED BY <1>2, <1>6, <2>2 DEF r
<1>7. CASE Current(k).what = "command" /\ chip.latch # r
  <2>1. Written(k) = [p EXCEPT !.set = @ \ {r}]
    BY <1>5, <1>7
  <2> HIDE DEF r
  <2>2. /\ Written(k) \in Chips(W) /\ Written(k).set = p.set \ {r}
        /\ Written(k).latch = p.latch /\ Written(k).pointer = p.pointer /\ Written(k).by = p.by
    BY <1>3, <1>4, <2>1
  <2> QED BY <1>2, <1>7, <2>2 DEF r
<1>8. CASE Current(k).what = "write" /\ r = "reset"
  <2>1. Written(k) = [p EXCEPT !.set = {}]
    BY <1>5, <1>8
  <2>2. /\ Written(k) \in Chips(W) /\ Written(k).set = {}
        /\ Written(k).latch = p.latch /\ Written(k).pointer = p.pointer /\ Written(k).by = p.by
    BY <1>3, <1>4, <2>1
  <2> QED BY <1>2, <1>8, <2>2 DEF Resets
<1>9. CASE /\ Current(k).what # "param" /\ ~(Current(k).what = "command" /\ chip.latch # r)
           /\ ~(Current(k).what = "write" /\ r = "reset")
  <2>1. Written(k) = [p EXCEPT !.set = @ \cup ({r} \cap Settings)]
    BY <1>5, <1>9
  <2> HIDE DEF r
  <2>2. /\ Written(k) \in Chips(W) /\ Written(k).set = p.set \cup ({r} \cap Settings)
        /\ Written(k).latch = p.latch /\ Written(k).pointer = p.pointer /\ Written(k).by = p.by
    BY <1>3, <1>4, <2>1
  <2> QED BY <1>2, <1>9, <2>2 DEF r, Resets
<1> QED BY <1>6, <1>7, <1>8, <1>9

Origins == {"own", "other", "blank", "unready"}
GotType == got \in [Requests -> SUBSET Origins]

\* A delivery is the request's own.
LEMMA Delivered ==
    ASSUME DriverInv, NEW k \in Workers, task[k].op = "harvest",
           NEW from \in SUBSET Origins, Deliver(k, from)
    PROVE  /\ k[1] \in Requests /\ GotType'
           /\ \A q \in Requests : q # k[1] => got'[q] = got[q]
           /\ got'[k[1]] = got[k[1]] \cup from
                              \cup (IF Settings \subseteq chip.set THEN {} ELSE {"unready"})
<1>1. k[1] \in Requests
  BY DEF DriverInv, RolesKept
<1>2. GotType
  BY DEF DriverInv, TypeOK, GotType, Origins
<1> DEFINE unready == IF Settings \subseteq chip.set THEN {} ELSE {"unready"}
<1>3. unready \in SUBSET Origins
  BY DEF Origins
<1>4. got' = [got EXCEPT ![k[1]] = @ \cup from \cup unready]
  BY DEF Deliver
<1> HIDE DEF unready
<1>5. /\ GotType'
      /\ \A q \in Requests : q # k[1] => got'[q] = got[q]
      /\ got'[k[1]] = got[k[1]] \cup from \cup unready
  BY <1>1, <1>2, <1>3, <1>4 DEF GotType
<1> QED BY <1>1, <1>5 DEF unready

--------------------------------------------------------------------------------
(* Every step of a program keeps the invariant.                             *)

\* What a step of a program leaves of the types.
StepEffect(k) ==
    /\ TaskEffect(k) /\ MutexType'
    /\ active' \in BOOLEAN
    /\ bus' \in {"none", "open", "closed", "lost"}
    /\ device' \in {"nil", "live", "dead"}
    /\ \E V : chip' \in Chips(V)
    /\ GotType'
    /\ flawed' \in BOOLEAN /\ panicked' \in BOOLEAN

\* The invariant's types, variable by variable.
LEMMA StateTyped ==
    ASSUME DriverInv
    PROVE  /\ MutexType /\ active \in BOOLEAN
           /\ bus \in {"none", "open", "closed", "lost"}
           /\ device \in {"nil", "live", "dead"}
           /\ \E V : chip \in Chips(V)
           /\ GotType
           /\ flawed \in BOOLEAN /\ panicked \in BOOLEAN
           /\ shared \in BOOLEAN /\ overtaken \in BOOLEAN
           /\ reader \in [Requests -> Places]
BY DEF DriverInv, TypeOK, ChipType, Chips, MutexType, Mutexes, GotType, Origins, Places

LEMMA GotKept == ASSUME DriverInv, got' = got PROVE GotType'
BY StateTyped DEF GotType

LEMMA ChipKept == ASSUME DriverInv, chip' = chip PROVE \E V : chip' \in Chips(V)
BY StateTyped

LEMMA AdvanceKeeps ==
    ASSUME DriverInv, NEW k \in Workers, Running(k), Advance(k)
    PROVE  TaskEffect(k) /\ MutexType'
BY NextEffect, StateTyped DEF MutexType

LEMMA OpenEffect ==
    ASSUME DriverInv, NEW k \in Workers, OpenStep(k) PROVE StepEffect(k)
<1>1. Running(k) /\ UNCHANGED <<device, chip, got, flawed, panicked>>
  BY DEF OpenStep, Doing
<1>2. CASE active' = TRUE /\ bus' = "open" /\ Advance(k)
  BY <1>1, <1>2, AdvanceKeeps, StateTyped, GotKept, ChipKept DEF StepEffect
<1>3. CASE bus' = (IF BusOpen THEN "lost" ELSE "none") /\ Return(k) /\ active' = active
  BY <1>1, <1>3, ReturnEffect, StateTyped, GotKept, ChipKept DEF StepEffect
<1> QED BY <1>2, <1>3 DEF OpenStep

LEMMA MakeEffect ==
    ASSUME DriverInv, NEW k \in Workers, MakeStep(k) PROVE StepEffect(k)
<1>1. Running(k) /\ UNCHANGED <<bus, chip, got, panicked>>
  BY DEF MakeStep, Doing
<1>2. CASE device' = "live" /\ active' = (active \/ kind = "ADC") /\ Advance(k) /\ flawed' = flawed
  <2>1. active' \in BOOLEAN
    BY <1>2, StateTyped
  <2> QED BY <1>1, <1>2, <2>1, AdvanceKeeps, StateTyped, GotKept, ChipKept DEF StepEffect
<1>3. CASE device' = "nil" /\ flawed' = TRUE /\ Return(k) /\ active' = active
  BY <1>1, <1>3, ReturnEffect, StateTyped, GotKept, ChipKept DEF StepEffect
<1> QED BY <1>2, <1>3 DEF MakeStep

LEMMA StartupEffect ==
    ASSUME DriverInv, NEW k \in Workers, StartupStep(k) PROVE StepEffect(k)
<1>1. Running(k) /\ UNCHANGED <<driverVars, chip, got>>
  BY DEF StartupStep, Doing
<1> USE DEF driverVars
<1>2. CASE Advance(k) /\ UNCHANGED <<flawed, panicked>>
  BY <1>1, <1>2, AdvanceKeeps, StateTyped, GotKept, ChipKept DEF StepEffect
<1>3. CASE Return(k) /\ flawed' = TRUE /\ panicked' = panicked
  BY <1>1, <1>3, ReturnEffect, StateTyped, GotKept, ChipKept DEF StepEffect
<1>4. CASE panicked' = TRUE /\ UNCHANGED <<task, reader, mutex, flawed>>
  BY <1>1, <1>4, StayEffect, StateTyped, GotKept, ChipKept DEF StepEffect, MutexType
<1> QED BY <1>2, <1>3, <1>4 DEF StartupStep

\* A mutex is taken by harvests only, and never in their last step.
LEMMA LockPrograms ==
    ASSUME DriverInv, NEW k \in Workers, Running(k), Current(k).what \in {"lock", "unlock"}
    PROVE  /\ task[k].op = "harvest" /\ Current(k).register \in Mutexes
           /\ Current(k).what = "lock" => task[k].at < Len(Program(k))
<1>1. task[k].op = "harvest"
  BY StepsOf DEF HarvestSteps
<1>2. task[k].at \in 1..Len(Program(k)) /\ Reads(kind, Program(k))
  BY <1>1, AtInProgram, Programs DEF DriverInv, TypeOK
<1> QED BY <1>1, <1>2 DEF Reads, Current

LEMMA StepOn ==
    ASSUME DriverInv, NEW k \in Workers, Running(k), task[k].at < Len(Program(k)),
           task' = [task EXCEPT ![k].at = @ + 1]
    PROVE  /\ task' \in [Workers -> TaskRecords]
           /\ \A j \in Workers \ {k} : task'[j] = task[j]
           /\ task'[k].op = task[k].op /\ task'[k].at = task[k].at + 1
           /\ task'[k].at \in DOMAIN Program(k)
<1>1. task[k] \in TaskRecords
  BY TaskTyped
<1>2. task[k].at + 1 \in 1..9 /\ task[k].at + 1 \in 1..Len(Program(k))
  <2> DEFINE at == task[k].at
             len == Len(Program(k))
  <2>1. len \in 1..9 /\ at \in 1..len /\ at < len
    BY AtInProgram
  <2> HIDE DEF at, len
  <2>2. at + 1 \in 1..9 /\ at + 1 \in 1..len
    BY <2>1
  <2> QED BY <2>2 DEF at, len
<1> DEFINE r == [task[k] EXCEPT !.at = @ + 1]
<1>3. r \in TaskRecords /\ r.op = task[k].op /\ r.at = task[k].at + 1
  BY <1>1, <1>2 DEF TaskRecords
<1>4. task' = [task EXCEPT ![k] = r]
  OBVIOUS
<1> HIDE DEF r
<1> QED BY <1>2, <1>3, <1>4, TaskTyped, AtInProgram

LEMMA LockEffect ==
    ASSUME DriverInv, NEW k \in Workers, LockStep(k) PROVE StepEffect(k)
<1>1. Running(k) /\ Current(k).what = "lock"
  BY DEF LockStep, Doing
<1>2. /\ UNCHANGED <<reader, active, bus, device, chip, got, flawed, panicked>>
      /\ mutex' = [mutex EXCEPT ![Current(k).register] = k]
      /\ task' = [task EXCEPT ![k].at = @ + 1]
  BY DEF LockStep, driverVars
<1>3. MutexType'
  BY <1>2, StateTyped DEF MutexType
<1>4. TaskEffect(k)
  BY <1>1, <1>2, LockPrograms, StepOn DEF TaskEffect
<1> QED BY <1>2, <1>3, <1>4, StateTyped, GotKept, ChipKept DEF StepEffect

LEMMA UnlockEffect ==
    ASSUME DriverInv, NEW k \in Workers, UnlockStep(k) PROVE StepEffect(k)
<1>1. Running(k) /\ Current(k).what = "unlock"
  BY DEF UnlockStep, Doing
<1>2. /\ UNCHANGED <<reader, active, bus, device, chip, got, flawed, panicked>>
      /\ mutex' = [mutex EXCEPT ![Current(k).register] = Nil]
      /\ task' = IF task[k].at = Len(Program(k)) THEN Finish(k) ELSE [task EXCEPT ![k].at = @ + 1]
  BY DEF UnlockStep, driverVars
<1>3. MutexType'
  BY <1>2, StateTyped DEF MutexType
<1>4. CASE task[k].at = Len(Program(k))
  <2>1. TaskEffect(k)
    BY <1>2, <1>4, FinishEffect DEF TaskEffect
  <2> QED BY <1>2, <1>3, <2>1, StateTyped, GotKept, ChipKept DEF StepEffect
<1>5. CASE task[k].at # Len(Program(k))
  <2>1. task[k].at < Len(Program(k))
    BY <1>1, <1>5, AtInProgram
  <2>2. TaskEffect(k)
    BY <1>1, <1>2, <1>5, <2>1, StepOn DEF TaskEffect
  <2> QED BY <1>2, <1>3, <2>2, StateTyped, GotKept, ChipKept DEF StepEffect
<1> QED BY <1>4, <1>5

\* An error of a step that can fail.
LEMMA ErrorKeeps ==
    ASSUME DriverInv, NEW k \in Workers, Running(k), Error(k),
           NEW w \in InitSteps \cup (HarvestSteps \ {"lock", "unlock"}), Current(k).what = w
    PROVE  TaskEffect(k) /\ MutexType'
BY ErrorEffect DEF InitSteps

LEMMA FlawsTyped == ASSUME DriverInv, NEW k, Flaws(k) PROVE flawed' \in BOOLEAN
BY StateTyped DEF Flaws

LEMMA WriteEffect ==
    ASSUME DriverInv, NEW k \in Workers, WriteStep(k) PROVE StepEffect(k)
<1>1. Running(k) /\ Current(k).what \in {"send", "write", "param", "command"}
  BY DEF WriteStep, Doing
<1>2. UNCHANGED <<active, bus, device, got, panicked>>
  BY DEF WriteStep, driverVars
<1>3. CASE chip' = Written(k) /\ Advance(k) /\ flawed' = flawed
  BY <1>1, <1>2, <1>3, AdvanceKeeps, WrittenTo, StateTyped, GotKept DEF StepEffect
<1>4. CASE Error(k) /\ Flaws(k) /\ chip' = chip
  <2>1. TaskEffect(k) /\ MutexType'
    BY <1>1, <1>4, ErrorKeeps DEF InitSteps
  <2> QED BY <1>2, <1>4, <2>1, FlawsTyped, StateTyped, GotKept, ChipKept DEF StepEffect
<1> QED BY <1>3, <1>4 DEF WriteStep

LEMMA CheckEffect ==
    ASSUME DriverInv, NEW k \in Workers, CheckStep(k) PROVE StepEffect(k)
<1>1. Running(k) /\ Current(k).what = "check"
  BY DEF CheckStep, Doing
<1>2. UNCHANGED <<active, bus, device, got, panicked>>
  BY DEF CheckStep, driverVars
<1>3. CASE chip' = Points(k) /\ Advance(k) /\ flawed' = flawed
  BY <1>1, <1>2, <1>3, AdvanceKeeps, Pointed, StateTyped, GotKept DEF StepEffect
<1>4. CASE (Error(k) \/ Advance(k)) /\ Flaws(k) /\ chip' = chip
  <2>1. TaskEffect(k) /\ MutexType'
    BY <1>1, <1>4, ErrorKeeps, AdvanceKeeps DEF InitSteps
  <2> QED BY <1>2, <1>4, <2>1, FlawsTyped, StateTyped, GotKept, ChipKept DEF StepEffect
<1> QED BY <1>3, <1>4 DEF CheckStep

LEMMA PollEffect ==
    ASSUME DriverInv, NEW k \in Workers, PollStep(k) PROVE StepEffect(k)
<1>1. Running(k) /\ UNCHANGED <<active, bus, device, got, flawed, panicked>>
  BY DEF PollStep, Doing, driverVars
<1>2. chip' \in {chip, Points(k)} /\ (Advance(k) \/ Again(k, 1) \/ Return(k))
  BY DEF PollStep
<1>3. TaskEffect(k) /\ MutexType'
  BY <1>1, <1>2, AdvanceKeeps, AgainEffect, ReturnEffect
<1>4. \E V : chip' \in Chips(V)
  BY <1>2, Pointed, StateTyped
<1> QED BY <1>1, <1>3, <1>4, StateTyped, GotKept DEF StepEffect

LEMMA ReadEffect ==
    ASSUME DriverInv, NEW k \in Workers, ReadStep(k) PROVE StepEffect(k)
<1>1. Running(k) /\ Current(k).what \in {"read", "nonzero"}
  BY DEF ReadStep, Doing
<1>2. UNCHANGED <<active, bus, device, flawed, panicked>>
  BY DEF ReadStep, driverVars
<1>3. task[k].op = "harvest"
  BY <1>1, StepsOf DEF HarvestSteps
<1>4. Advance(k) \/ Error(k)
  BY DEF ReadStep
<1>5. TaskEffect(k) /\ MutexType'
  BY <1>1, <1>4, AdvanceKeeps, ErrorKeeps DEF HarvestSteps
<1>6. \E V : chip' \in Chips(V)
  BY Pointed, StateTyped DEF ReadStep
<1>7. GotType'
  <2>1. Deliver(k, {"own"}) \/ Deliver(k, {"blank"}) \/ got' = got
    BY DEF ReadStep
  <2>2. {"own"} \in SUBSET Origins /\ {"blank"} \in SUBSET Origins
    BY DEF Origins
  <2> QED BY <1>3, <2>1, <2>2, Delivered, GotKept
<1> QED BY <1>2, <1>5, <1>6, <1>7, StateTyped DEF StepEffect

LEMMA FetchEffect ==
    ASSUME DriverInv, NEW k \in Workers, FetchStep(k) PROVE StepEffect(k)
<1>1. Running(k) /\ Current(k).what = "fetch"
  BY DEF FetchStep, Doing
<1>2. UNCHANGED <<active, bus, device, chip, flawed, panicked>>
  BY DEF FetchStep, driverVars
<1>3. task[k].op = "harvest"
  BY <1>1, StepsOf DEF HarvestSteps
<1>4. Advance(k) \/ Error(k)
  BY DEF FetchStep
<1>5. TaskEffect(k) /\ MutexType'
  BY <1>1, <1>4, AdvanceKeeps, ErrorKeeps DEF HarvestSteps
<1>6. GotType'
  <2>1. Deliver(k, {"own"}) \/ Deliver(k, {"other"}) \/ Deliver(k, {"blank"}) \/ got' = got
    BY DEF FetchStep
  <2>2. {"own"} \in SUBSET Origins /\ {"other"} \in SUBSET Origins /\ {"blank"} \in SUBSET Origins
    BY DEF Origins
  <2> QED BY <1>3, <2>1, <2>2, Delivered, GotKept
<1> QED BY <1>2, <1>5, <1>6, StateTyped, ChipKept DEF StepEffect

LEMMA SenseEffect ==
    ASSUME DriverInv, NEW k \in Workers, SenseStep(k) PROVE StepEffect(k)
<1>1. Running(k) /\ Current(k).what = "sense"
  BY DEF SenseStep, Doing
<1>2. UNCHANGED <<active, bus, device, chip, flawed>>
  BY DEF SenseStep, driverVars
<1>3. CASE Deliver(k, {"own"}) /\ Advance(k) /\ panicked' = panicked
  <2>1. task[k].op = "harvest"
    BY <1>1, <1>3, StepsOf DEF HarvestSteps
  <2>2. {"own"} \in SUBSET Origins
    BY DEF Origins
  <2>3. GotType'
    BY <1>3, <2>1, <2>2, Delivered
  <2> QED BY <1>1, <1>2, <1>3, <2>3, AdvanceKeeps, StateTyped, ChipKept DEF StepEffect
<1>4. CASE Error(k) /\ UNCHANGED <<got, panicked>>
  <2>1. TaskEffect(k) /\ MutexType'
    BY <1>1, <1>4, ErrorKeeps DEF HarvestSteps
  <2> QED BY <1>2, <1>4, <2>1, StateTyped, GotKept, ChipKept DEF StepEffect
<1>5. CASE panicked' = TRUE /\ UNCHANGED <<task, reader, mutex, got>>
  BY <1>1, <1>2, <1>5, StayEffect, StateTyped, GotKept, ChipKept DEF StepEffect, MutexType
<1> QED BY <1>3, <1>4, <1>5 DEF SenseStep

\* What every step of a program does, and what it leaves alone.
LEMMA TaskStepEffect ==
    ASSUME DriverInv, NEW k \in Workers, TaskStep(k)
    PROVE  StepEffect(k) /\ Running(k) /\ UNCHANGED <<kind, closes, closedIn, shared, overtaken>>
<1>1. Running(k)
  BY DEF TaskStep, OpenStep, MakeStep, StartupStep, LockStep, UnlockStep, WriteStep, CheckStep,
         PollStep, ReadStep, FetchStep, SenseStep, Doing
<1> QED BY <1>1, OpenEffect, MakeEffect, StartupEffect, LockEffect, UnlockEffect, WriteEffect,
           CheckEffect, PollEffect, ReadEffect, FetchEffect, SenseEffect DEF TaskStep

\* The parts of the invariant that the other variables have no part in.
RunningPart ==
    /\ task \in [Workers -> TaskRecords]
    /\ reader \in [Requests -> Places]
    /\ \A k \in Workers : Running(k) => task[k].at \in DOMAIN Program(k)
    /\ RolesKept

OtherPart ==
    /\ kind \in Kinds
    /\ active \in BOOLEAN
    /\ bus \in {"none", "open", "closed", "lost"}
    /\ device \in {"nil", "live", "dead"}
    /\ \E V : chip \in Chips(V)
    /\ MutexType /\ GotType
    /\ closes \in 0..MaxCloses
    /\ closedIn \subseteq Requests
    /\ shared \in BOOLEAN /\ overtaken \in BOOLEAN
    /\ flawed \in BOOLEAN /\ panicked \in BOOLEAN

\* The invariant is what the programs and the requests are at, and the rest.
LEMMA TwoParts == DriverInv <=> RunningPart /\ OtherPart
<1>1. DriverInv => RunningPart /\ OtherPart
  BY DEF DriverInv, TypeOK, ChipType, RunningPart, OtherPart, Chips, MutexType, Mutexes, GotType,
         Origins, Places, TaskRecords
<1>2. OtherPart => chip.set \subseteq Settings /\ ChipType
  BY DEF OtherPart, ChipType, Chips
<1>3. RunningPart /\ OtherPart => DriverInv
  BY <1>2 DEF DriverInv, TypeOK, RunningPart, OtherPart, MutexType, Mutexes, GotType,
              Origins, Places, TaskRecords
<1> QED BY <1>1, <1>3

LEMMA TwoPartsNext == DriverInv' <=> RunningPart' /\ OtherPart'
BY TwoParts, PTL

\* A worker that does what it did runs the same program.
LEMMA SameProgram ==
    ASSUME kind' = kind, NEW k \in Workers, task'[k].op = task[k].op
    PROVE  Running(k)' = Running(k) /\ Program(k)' = Program(k)
BY DEF Running, Program, Driver

LEMMA SameParts == kind' = kind => Parts' = Parts /\ Settings' = Settings
BY DEF Parts, Driver, Settings

LEMMA RequestWorkers ==
    \A k \in Requests \X {1, 2} : /\ k[1] \in Requests /\ k[2] \in {1, 2} /\ k = <<k[1], k[2]>>
                                  /\ k \in Workers
BY DEF Workers

LEMMA StartedNotRunning ==
    \A k \in Workers : task[k] = Started("over") => ~Running(k) /\ task[k].op = "over"
BY DEF Running, Started

\* A step of one program leaves every other where it is.
LEMMA TaskKeepsRunning ==
    ASSUME DriverInv, NEW k \in Workers, TaskEffect(k), Running(k), kind' = kind
    PROVE  RunningPart'
<1> USE TwoParts DEF RunningPart
<1>1. \/ reader' = reader
      \/ task[k].op = "init" /\ reader' = [reader EXCEPT ![k[1]] = "failed"]
  BY DEF TaskEffect
<1>2. reader' \in [Requests -> Places]
  BY <1>1 DEF Places
<1>3. ASSUME NEW j \in Workers
      PROVE  /\ Running(j)' => task'[j].at \in DOMAIN Program(j)'
             /\ task'[j].op = task[j].op \/ task'[j].op = "over"
  <2>1. CASE task'[j].op = task[j].op
    <3>1. Running(j)' = Running(j) /\ Program(j)' = Program(j)
      BY <2>1, SameProgram
    <3>2. CASE j = k
      BY <2>1, <3>1, <3>2, StartedNotRunning DEF TaskEffect, Running, Started
    <3>3. CASE j # k
      BY <2>1, <3>1, <3>3 DEF TaskEffect
    <3> QED BY <3>2, <3>3
  <2>2. CASE task'[j].op # task[j].op
    <3>1. j = k /\ task'[j] = Started("over")
      BY <2>2 DEF TaskEffect
    <3> QED BY <3>1 DEF Running, Started
  <2> QED BY <2>1, <2>2
<1>4. ASSUME NEW j \in Workers, task'[j].op \in {"init", "harvest"}
      PROVE  j[1] \in Requests /\ reader'[j[1]] = reader[j[1]] /\ task[j].op = task'[j].op
  <2>1. task[j].op = task'[j].op
    BY <1>3, <1>4
  <2>2. j \in Requests \X {1, 2} /\ reader[j[1]] = task[j].op /\ (task[j].op = "init" => j[2] = 1)
    BY <1>4, <2>1, PartsType DEF RolesKept, OtherPart
  <2>3. CASE reader' = reader
    BY <2>1, <2>2, <2>3
  <2>4. CASE task[k].op = "init" /\ reader' = [reader EXCEPT ![k[1]] = "failed"]
    <3>1. k \in Requests \X {1} /\ reader[k[1]] = "init"
      BY <2>4 DEF RolesKept
    <3>2. task'[k].op # "init"
      <4>1. CASE task'[k] = Started("over")
        BY <4>1 DEF Started
      <4>2. CASE task'[k] # Started("over")
        <5>1. reader' = reader
          BY <4>2 DEF TaskEffect
        <5>2. reader'[k[1]] = "failed"
          BY <2>4, <3>1
        <5> QED BY <3>1, <5>1, <5>2
      <4> QED BY <4>1, <4>2
    <3>3. j[1] # k[1]
      BY <1>4, <2>1, <2>2, <2>4, <3>1, <3>2, RequestWorkers
    <3> QED BY <2>1, <2>2, <2>4, <3>3
  <2> QED BY <1>1, <2>3, <2>4
<1>5. RolesKept'
  <2> SUFFICES ASSUME NEW j \in Workers
               PROVE  /\ task'[j].op = "init" => j \in Requests \X {1} /\ reader'[j[1]] = "init"
                      /\ task'[j].op = "harvest" =>
                            j \in Requests \X Parts /\ reader'[j[1]] = "harvest"
                      /\ task'[j].op = "verify" => j \in Scans
    BY SameParts DEF RolesKept
  <2>1. CASE task'[j].op = task[j].op
    BY <1>4, <2>1 DEF RolesKept
  <2>2. CASE task'[j].op = "over"
    BY <2>2
  <2> QED BY <1>3, <2>1, <2>2
<1> QED BY <1>2, <1>3, <1>5 DEF TaskEffect

LEMMA TaskKeeps ==
    ASSUME DriverInv, NEW k \in Workers, TaskStep(k) PROVE DriverInv'
<1>1. StepEffect(k) /\ Running(k) /\ UNCHANGED <<kind, closes, closedIn, shared, overtaken>>
  BY TaskStepEffect
<1>2. RunningPart'
  BY <1>1, TaskKeepsRunning DEF StepEffect
<1>3. \E V : chip' \in [set : SUBSET (Settings'), latch : V, pointer : V, by : V]
  BY <1>1, SameParts DEF StepEffect, Chips
<1>4. OtherPart'
  BY <1>1, <1>3, TwoParts DEF StepEffect, OtherPart, Chips
<1> QED BY <1>2, <1>4, TwoPartsNext

\* The variables that a request and a scan leave alone.
LEMMA OthersKept ==
    ASSUME DriverInv, UNCHANGED <<kind, driverVars, chip, mutex, got, closes, closedIn, flawed, panicked>>,
           shared' \in BOOLEAN, overtaken' \in BOOLEAN
    PROVE  OtherPart'
<1>1. \E V : chip' \in [set : SUBSET (Settings'), latch : V, pointer : V, by : V]
  BY SameParts, TwoParts DEF OtherPart, Chips
<1> QED BY <1>1, TwoParts DEF OtherPart, Chips, driverVars, MutexType, GotType

\* A request moves, and with it its programs.
LEMMA Moves ==
    ASSUME DriverInv, NEW q \in Requests, NEW to \in Places, kind' = kind,
           reader' = [reader EXCEPT ![q] = to],
           task' \in [Workers -> TaskRecords],
           \A k \in Workers : k \notin {q} \X {1, 2} => task'[k] = task[k],
           \A k \in {q} \X {1, 2} :
               \/ ~Running(k)'
               \/ task'[k] = Started("init") /\ k[2] = 1 /\ to = "init"
               \/ task'[k] = Started("harvest") /\ k[2] \in Parts /\ to = "harvest"
    PROVE  RunningPart'
<1> USE TwoParts DEF RunningPart
<1>1. reader' \in [Requests -> Places]
  OBVIOUS
<1>2. ASSUME NEW k \in {q} \X {1, 2}, Running(k)'
      PROVE  /\ task'[k].at \in DOMAIN Program(k)'
             /\ k[1] = q /\ reader'[q] = to /\ k \in Requests \X {1, 2}
             /\ \/ task'[k].op = "init" /\ k[2] = 1 /\ to = "init"
                \/ task'[k].op = "harvest" /\ k[2] \in Parts /\ to = "harvest"
  <2>1. k[1] = q /\ reader'[q] = to /\ k \in Requests \X {1, 2} /\ k \in Workers
    BY RequestWorkers
  <2>2. Driver' = Driver /\ kind \in AllDrivers
    BY KnownDrivers DEF Driver, OtherPart
  <2>3. CASE task'[k] = Started("init") /\ k[2] = 1 /\ to = "init"
    <3>1. Program(k)' = Driver.init /\ task'[k].at = 1 /\ task'[k].op = "init"
      BY <2>2, <2>3, StartedType DEF Program
    <3>2. 1 \in DOMAIN Driver.init
      BY <2>2, InitPrograms DEF WakesUp, Driver
    <3> QED BY <2>1, <2>3, <3>1, <3>2
  <2>4. CASE task'[k] = Started("harvest") /\ k[2] \in Parts /\ to = "harvest"
    <3>1. Program(k)' = Driver.harvest[k[2]] /\ task'[k].at = 1 /\ task'[k].op = "harvest"
      BY <2>2, <2>4, StartedType DEF Program
    <3>2. 1 \in DOMAIN Driver.harvest[k[2]]
      <4>1. k[2] \in 1..Len(Driver.harvest)
        BY <2>4 DEF Parts
      <4>2. Reads(kind, Driver.harvest[k[2]])
        BY <2>2, <4>1, HarvestPrograms DEF ReadBy, Driver
      <4> DEFINE p == Driver.harvest[k[2]]
      <4>3. Len(p) \in 1..9 /\ DOMAIN p = 1..Len(p)
        BY <4>2 DEF Reads
      <4> HIDE DEF p
      <4>4. 1 \in DOMAIN p
        BY <4>3
      <4> QED BY <4>4 DEF p
    <3> QED BY <2>1, <2>4, <3>1, <3>2
  <2> QED BY <1>2, <2>3, <2>4
<1>3. ASSUME NEW k \in Workers, k \notin {q} \X {1, 2}
      PROVE  /\ Running(k)' => task'[k].at \in DOMAIN Program(k)'
             /\ task'[k].op \in {"init", "harvest"} => reader'[k[1]] = reader[k[1]]
  <2>1. task'[k] = task[k]
    BY <1>3
  <2>2. Running(k)' = Running(k) /\ Program(k)' = Program(k)
    BY <2>1, SameProgram
  <2>3. ASSUME task[k].op \in {"init", "harvest"} PROVE k[1] # q /\ k[1] \in Requests
    <3>1. k \in Requests \X {1, 2}
      BY <2>3, PartsType DEF RolesKept, OtherPart
    <3> QED BY <1>3, <3>1, RequestWorkers
  <2> QED BY <2>1, <2>2, <2>3
<1>4. RolesKept'
  <2> SUFFICES ASSUME NEW k \in Workers
               PROVE  /\ task'[k].op = "init" => k \in Requests \X {1} /\ reader'[k[1]] = "init"
                      /\ task'[k].op = "harvest" =>
                            k \in Requests \X Parts /\ reader'[k[1]] = "harvest"
                      /\ task'[k].op = "verify" => k \in Scans
    BY SameParts DEF RolesKept
  <2>1. CASE k \in {q} \X {1, 2}
    <3>1. CASE Running(k)'
      BY <1>2, <2>1, <3>1, RequestWorkers
    <3>2. CASE ~Running(k)'
      BY <3>2 DEF Running
    <3> QED BY <3>1, <3>2
  <2>2. CASE k \notin {q} \X {1, 2}
    BY <1>3, <2>2 DEF RolesKept
  <2> QED BY <2>1, <2>2
<1> QED BY <1>1, <1>2, <1>3, <1>4

\* A request that comes upon the sensor.
LEMMA BeginKeeps ==
    ASSUME DriverInv, NEW q \in Requests, Begin(q), kind' = kind
    PROVE  RunningPart' /\ shared' \in BOOLEAN
<1>1. <<q, 1>> \in Workers /\ <<q, 1>> \in {q} \X {1, 2}
  BY DEF Workers
<1>2. shared' \in BOOLEAN
  BY StateTyped DEF Begin
<1>3. CASE Active
  <2>1. task' = task /\ reader' = [reader EXCEPT ![q] = "check"] /\ reader[q] = "idle"
    BY <1>3 DEF Begin, ReaderGoes
  <2>2. \A k \in {q} \X {1, 2} : ~Running(k) \/ k \in Scans
    BY <2>1, RequestWorkers, PartsType DEF DriverInv, RolesKept, Running
  <2>3. \A k \in {q} \X {1, 2} : ~Running(k)'
    BY <2>1, <2>2 DEF Running
  <2> QED BY <1>2, <2>1, <2>3, TaskTyped, Moves DEF Places
<1>4. CASE ~Active
  <2>1. /\ task' = [task EXCEPT ![<<q, 1>>] = Started("init")]
        /\ reader' = [reader EXCEPT ![q] = "init"] /\ reader[q] = "idle"
    BY <1>4 DEF Begin, ReaderGoes
  <2>2. \A k \in {q} \X {1, 2} : k # <<q, 1>> => ~Running(k)
    BY <2>1, RequestWorkers, PartsType DEF DriverInv, RolesKept, Running
  <2>3. task' \in [Workers -> TaskRecords] /\ task'[<<q, 1>>] = Started("init")
    BY <1>1, <2>1, TaskTyped, StartedType
  <2>4. \A k \in Workers : k # <<q, 1>> => task'[k] = task[k]
    BY <2>1, TaskTyped
  <2>5. \A k \in {q} \X {1, 2} : k = <<q, 1>> \/ ~Running(k)'
    BY <2>2, <2>4, RequestWorkers DEF Running
  <2>6. <<q, 1>>[2] = 1
    OBVIOUS
  <2> QED BY <1>1, <1>2, <2>1, <2>3, <2>4, <2>5, <2>6, Moves DEF Places
<1> QED BY <1>3, <1>4

LEMMA AwakeKeeps ==
    ASSUME DriverInv, NEW q \in Requests, Awake(q), kind' = kind
    PROVE  RunningPart' /\ shared' \in BOOLEAN
<1>1. /\ task' = task /\ shared' = shared /\ task[<<q, 1>>].op = "over"
      /\ reader' = [reader EXCEPT ![q] = "check"] /\ reader[q] = "init"
  BY DEF Awake, ReaderGoes
<1>2. \A k \in {q} \X {1, 2} : ~Running(k)
  <2>1. \A k \in {q} \X {1, 2} : k = <<q, 1>> \/ ~Running(k)
    BY <1>1, RequestWorkers, PartsType DEF DriverInv, RolesKept, Running
  <2> QED BY <1>1, <2>1 DEF Running
<1>3. \A k \in {q} \X {1, 2} : ~Running(k)'
  BY <1>1, <1>2 DEF Running
<1> QED BY <1>1, <1>3, TaskTyped, StateTyped, Moves DEF Places

\* A request that harvests it.
LEMMA HarvestKeeps ==
    ASSUME DriverInv, NEW q \in Requests, Harvest(q), kind' = kind
    PROVE  RunningPart' /\ shared' \in BOOLEAN
<1>1. reader[q] = "check" /\ shared' = shared /\ shared \in BOOLEAN
  BY StateTyped DEF Harvest, ReaderGoes
<1>2. \A k \in {q} \X {1, 2} : ~Running(k)
  BY <1>1, RequestWorkers, PartsType DEF DriverInv, RolesKept, Running
<1>3. CASE Active
  <2> DEFINE started == [k \in Workers |-> IF k \in {q} \X Parts THEN Started("harvest") ELSE task[k]]
  <2>1. task' = started /\ reader' = [reader EXCEPT ![q] = "harvest"]
    BY <1>3 DEF Harvest, ReaderGoes
  <2>2. started \in [Workers -> TaskRecords]
    BY TaskTyped, StartedType
  <2>3. Parts \subseteq {1, 2}
    BY PartsType, TaskTyped
  <2>4. \A k \in Workers : k \notin {q} \X {1, 2} => task'[k] = task[k]
    BY <2>1, <2>3
  <2>5. \A k \in {q} \X {1, 2} : \/ ~Running(k)'
                                 \/ task'[k] = Started("harvest") /\ k[2] \in Parts
    <3> SUFFICES ASSUME NEW k \in {q} \X {1, 2}
                 PROVE  ~Running(k)' \/ (task'[k] = Started("harvest") /\ k[2] \in Parts)
      OBVIOUS
    <3>1. k \in Workers
      BY RequestWorkers
    <3>2. CASE k \in {q} \X Parts
      BY <2>1, <3>1, <3>2
    <3>3. CASE k \notin {q} \X Parts
      BY <1>2, <2>1, <3>1, <3>3 DEF Running
    <3> QED BY <3>2, <3>3
  <2> QED BY <1>1, <2>1, <2>2, <2>4, <2>5, Moves DEF Places
<1>4. CASE ~Active
  <2>1. reader' = [reader EXCEPT ![q] = "over"]
    BY <1>4 DEF Harvest, ReaderGoes
  <2>2. task' = [k \in Workers |-> task[k]]
    BY <1>4 DEF Harvest
  <2>3. task' = task
    BY <2>2, TaskTyped
  <2>4. \A k \in {q} \X {1, 2} : ~Running(k)'
    BY <1>2, <2>3 DEF Running
  <2> QED BY <1>1, <2>1, <2>3, <2>4, TaskTyped, Moves DEF Places
<1> QED BY <1>3, <1>4

LEMMA HarvestedKeeps ==
    ASSUME DriverInv, NEW q \in Requests, Harvested(q), kind' = kind
    PROVE  RunningPart' /\ shared' \in BOOLEAN
<1>1. /\ task' = task /\ shared' = shared /\ \A n \in Parts : task[<<q, n>>].op = "over"
      /\ reader' = [reader EXCEPT ![q] = "over"] /\ reader[q] = "harvest"
  BY DEF Harvested, ReaderGoes
<1>2. \A k \in {q} \X {1, 2} : ~Running(k)
  BY <1>1, RequestWorkers, PartsType DEF DriverInv, RolesKept, Running
<1>3. \A k \in {q} \X {1, 2} : ~Running(k)'
  BY <1>1, <1>2 DEF Running
<1> QED BY <1>1, <1>3, TaskTyped, StateTyped, Moves DEF Places

LEMMA ReaderKeeps ==
    ASSUME DriverInv, NEW q \in Requests, ReaderStep(q) PROVE DriverInv'
<1>1. UNCHANGED <<kind, driverVars, chip, mutex, got, closes, closedIn, flawed, panicked>>
  BY DEF ReaderStep
<1>2. RunningPart' /\ shared' \in BOOLEAN
  BY <1>1, BeginKeeps, AwakeKeeps, HarvestKeeps, HarvestedKeeps DEF ReaderStep
<1>3. overtaken' \in BOOLEAN
  BY StateTyped DEF ReaderStep, Begin, Awake, Harvest, Harvested
<1> QED BY <1>1, <1>2, <1>3, OthersKept, TwoPartsNext

LEMMA ScanKeeps ==
    ASSUME DriverInv, NEW s \in Scans, Scan(s) PROVE DriverInv'
<1>1. /\ task[s].op = "none" /\ task' = [task EXCEPT ![s] = Started("verify")]
      /\ UNCHANGED <<kind, reader, driverVars, chip, mutex, got, closes, closedIn, flawed, panicked>>
      /\ shared' = shared /\ overtaken' = overtaken /\ s \in Workers
  BY DEF Scan, historyVars, Workers
<1>2. OtherPart'
  BY <1>1, StateTyped, OthersKept
<1>3. task' \in [Workers -> TaskRecords] /\ task'[s] = Started("verify")
  BY <1>1, TaskTyped, StartedType
<1>4. \A k \in Workers \ {s} : task'[k] = task[k]
  BY <1>1, TaskTyped
<1>5. ASSUME NEW k \in Workers, k # s
      PROVE  Running(k)' => task'[k].at \in DOMAIN Program(k)'
  BY <1>1, <1>4, <1>5, SameProgram, TwoParts DEF RunningPart
<1>6. Running(s)' => task'[s].at \in DOMAIN Program(s)'
  <2>1. Program(s)' = Verify /\ task'[s].at = 1
    BY <1>3, StartedType DEF Program
  <2> QED BY <2>1, VerifyProgram
<1>7. RolesKept'
  BY <1>1, <1>3, <1>4, SameParts, StartedType DEF RolesKept, DriverInv
<1>8. RunningPart'
  BY <1>1, <1>3, <1>5, <1>6, <1>7, StateTyped DEF RunningPart
<1> QED BY <1>2, <1>8, TwoPartsNext

LEMMA CloseKeeps == ASSUME DriverInv, Close PROVE DriverInv'
<1>1. UNCHANGED <<kind, reader, task, chip, mutex, got, shared, overtaken, flawed>>
  BY DEF Close
<1>2. RunningPart'
  <2>1. \A k \in Workers : Running(k)' = Running(k) /\ Program(k)' = Program(k)
    BY <1>1, SameProgram
  <2>2. RolesKept'
    BY <1>1, SameParts DEF RolesKept, DriverInv
  <2> QED BY <1>1, <2>1, <2>2, TwoParts DEF RunningPart
<1>3. OtherPart'
  <2>1. \E V : chip' \in [set : SUBSET (Settings'), latch : V, pointer : V, by : V]
    BY <1>1, SameParts, TwoParts DEF OtherPart, Chips
  <2>2. closes' \in 0..MaxCloses
    BY TwoParts DEF OtherPart, Close
  <2>3. closedIn' \subseteq Requests
    BY TwoParts DEF OtherPart, Close
  <2>4. device' \in {"nil", "live", "dead"}
    <3>1. device' = "nil" \/ device' = "dead" \/ device' = device
      BY DEF Close
    <3> QED BY <3>1, StateTyped
  <2>5. panicked' \in BOOLEAN
    <3>1. CASE kind \in {"MAX30102", "ADC"}
      BY <3>1 DEF Close
    <3>2. CASE kind \notin {"MAX30102", "ADC"}
      BY <3>2 DEF Close
    <3> QED BY <3>1, <3>2
  <2>6. bus' \in {"none", "open", "closed", "lost"} /\ active' \in BOOLEAN
    BY StateTyped DEF Close
  <2> QED BY <1>1, <2>1, <2>2, <2>3, <2>4, <2>5, <2>6, TwoParts
          DEF OtherPart, Chips, MutexType, GotType
<1> QED BY <1>2, <1>3, TwoPartsNext

\* The invariant holds at first, and every step keeps it.
LEMMA DriverStarts == Init => DriverInv
<1> SUFFICES ASSUME Init PROVE DriverInv
  OBVIOUS
<1>1. \A k \in Workers : task[k] = Started("none") /\ task[k].op = "none" /\ ~Running(k)
  BY StartedType DEF Init, Running
<1>2. RunningPart
  <2>1. task \in [Workers -> TaskRecords]
    BY StartedType DEF Init
  <2>2. reader \in [Requests -> Places]
    BY DEF Init, Places
  <2>3. RolesKept
    BY <1>1 DEF RolesKept
  <2> QED BY <1>1, <2>1, <2>2, <2>3 DEF RunningPart
<1>3. OtherPart
  <2>1. chip \in Chips({Nil})
    BY DEF Init, Chips
  <2>2. closes \in 0..MaxCloses
    BY DEF Init
  <2>3. GotType /\ MutexType
    BY DEF Init, GotType, MutexType, Mutexes
  <2> QED BY <2>1, <2>2, <2>3 DEF Init, OtherPart
<1> QED BY <1>2, <1>3, TwoParts

LEMMA DriverKept == ASSUME DriverInv, [Next]_vars PROVE DriverInv'
<1>1. CASE Next
  BY <1>1, TaskKeeps, ReaderKeeps, ScanKeeps, CloseKeeps DEF Next
<1>2. CASE UNCHANGED vars
  <2>1. RunningPart'
    <3>1. \A k \in Workers : Running(k)' = Running(k) /\ Program(k)' = Program(k)
      BY <1>2, SameProgram DEF vars
    <3>2. RolesKept'
      BY <1>2, SameParts DEF RolesKept, DriverInv, vars
    <3> QED BY <1>2, <3>1, <3>2, TwoParts DEF RunningPart, vars
  <2>2. OtherPart'
    BY <1>2, OthersKept, StateTyped DEF vars, driverVars, historyVars
  <2> QED BY <2>1, <2>2, TwoPartsNext
<1> QED BY <1>1, <1>2

\* Every driver's programs stay within their steps, its chip has only settings of
\* its own, and nobody is where its request is not: for any number of requests
\* and scans that use a sensor at a time, whatever fails (src/drivers).
THEOREM TypeCorrect == Spec => []TypeOK
<1>1. DriverInv => TypeOK
  BY DEF DriverInv
<1> QED BY <1>1, DriverStarts, DriverKept, PTL DEF Spec

--------------------------------------------------------------------------------
(* HDC1080 answers the conversion that was asked for.                       *)

\* From the pointer to the conversion, the mutex is its goroutine's, and the
\* pointer is where that goroutine has put it.
Converting ==
    kind = "HDC1080" =>
        \A k \in Workers : task[k].op = "harvest" =>
            /\ task[k].at \in 2..4 => mutex["own"] = k
            /\ task[k].at = 3 => chip.pointer = Current(k).register /\ chip.by = k

ConversionInv == DriverInv /\ Converting /\ OwnConversions

\* The programs of HDC1080, step by step.
LEMMA HDC1080Steps ==
    ASSUME DriverInv, kind = "HDC1080", NEW k \in Workers, Running(k)
    PROVE  /\ task[k].op = "harvest" =>
                 /\ Len(Program(k)) = 4 /\ task[k].at \in 1..4
                 /\ task[k].at = 1 => Current(k).what = "lock" /\ Current(k).register = "own"
                 /\ task[k].at = 2 => Current(k).what = "send" /\ Current(k).onError = "return"
                 /\ task[k].at = 3 => Current(k).what = "fetch" /\ Current(k).onError = "again"
                 /\ task[k].at = 4 => Current(k).what = "unlock" /\ Current(k).register = "own"
                 /\ Program(k)[2].register = Program(k)[3].register
           /\ task[k].op = "init" => Current(k).what \in {"open", "write"}
           /\ task[k].op = "verify" => Current(k).what = "check"
<1>1. task[k].at \in 1..Len(Program(k))
  BY AtInProgram
<1>2. Drivers["HDC1080"] = HDC1080
  BY DriverFields
<1>3. CASE task[k].op = "harvest"
  <2>1. k[2] \in Parts
    BY <1>3 DEF DriverInv, RolesKept
  <2>2. Len(HDC1080.harvest) = 2 /\ HDC1080.harvest[1] = Conversion("temperature")
        /\ HDC1080.harvest[2] = Conversion("humidity")
    BY DEF HDC1080
  <2>3. PICK r \in {"temperature", "humidity"} : HDC1080.harvest[k[2]] = Conversion(r)
    <3>1. k[2] \in 1..2
      BY <1>2, <2>1, <2>2 DEF Parts, Driver
    <3>2. k[2] = 1 \/ k[2] = 2
      BY <3>1
    <3> QED BY <2>2, <3>2
  <2> DEFINE p == Conversion(r)
  <2>4. Program(k) = p
    BY <1>2, <1>3, <2>3 DEF Program, Driver
  <2>5. Len(p) = 4 /\ p[1] = Lock /\ p[2] = Send(r) /\ p[3] = Fetch(r) /\ p[4] = Unlock
    BY DEF Conversion
  <2> HIDE DEF p
  <2> QED BY <1>1, <1>3, <2>4, <2>5, StepFields DEF Current
<1>4. CASE task[k].op = "init"
  <2> DEFINE p == HDC1080.init
  <2>1. Len(p) = 2 /\ p[1] = Open /\ p[2] = Write("config", "return")
    BY DEF HDC1080
  <2>2. Program(k) = p
    BY <1>2, <1>4 DEF Program, Driver
  <2> HIDE DEF p
  <2>3. task[k].at = 1 \/ task[k].at = 2
    <3>1. Len(Program(k)) = 2
      BY <2>1, <2>2
    <3>2. task[k].at \in 1..2
      BY <1>1, <3>1
    <3> QED BY ONLY <3>2
  <2> QED BY <1>4, <2>1, <2>2, <2>3, StepFields DEF Current
<1>5. CASE task[k].op = "verify"
  <2>1. Program(k) = Verify
    BY <1>5 DEF Program
  <2> QED BY <1>1, <1>5, <2>1, VerifyProgram DEF Current
<1> QED BY <1>3, <1>4, <1>5

\* Neither going on nor giving up frees what another holds.
LEMMA HeldByAnother ==
    ASSUME DriverInv, NEW j \in Workers, Running(j), NEW k \in Workers, k # j, mutex["own"] = k,
           \/ Advance(j)
           \/ Return(j)
           \/ Current(j).what \notin {"lock", "unlock"} /\ Error(j)
           \/ Again(j, 1)
    PROVE  mutex'["own"] = k
<1>1. DOMAIN mutex = Mutexes /\ "own" \in Mutexes
  BY StateTyped DEF MutexType, Mutexes
<1>2. CASE Return(j)
  BY <1>1, <1>2 DEF Return
<1>3. CASE mutex' = mutex
  BY <1>3
<1> QED BY <1>2, <1>3, NextEffect, ErrorEffect, AgainEffect

\* While one holds the mutex, the others leave it and the chip alone.
LEMMA OthersWait ==
    ASSUME DriverInv, Converting, kind = "HDC1080",
           NEW j \in Workers, TaskStep(j), NEW k \in Workers, k # j, mutex["own"] = k
    PROVE  mutex'["own"] = k /\ chip' = chip
<1>1. ~LockedStep(j)
  BY DEF LockedStep, Workers
<1>2. Running(j)
  BY TaskStepEffect
<1>3. ~(task[j].op = "harvest" /\ task[j].at \in 2..4)
  BY DEF Converting
<1>4. Current(j).what \notin {"send", "fetch", "unlock"}
  BY <1>2, <1>3, HDC1080Steps DEF Running
<1>5. ~LockStep(j)
  <2>1. SUFFICES ASSUME Current(j).what = "lock" PROVE mutex[Current(j).register] # Nil
    BY DEF LockStep, Doing
  <2>2. task[j].op = "harvest"
    BY <1>2, <2>1, HDC1080Steps DEF Running
  <2>3. Current(j).register = "own"
    BY <1>2, <1>3, <2>2, HDC1080Steps
  <2> QED BY <2>3 DEF Workers
<1>6. ~UnlockStep(j) /\ ~WriteStep(j) /\ ~CheckStep(j) /\ ~PollStep(j) /\ ~ReadStep(j) /\ ~FetchStep(j)
  BY <1>1, <1>4 DEF UnlockStep, WriteStep, CheckStep, PollStep, ReadStep, FetchStep, Doing
<1>7. OpenStep(j) \/ MakeStep(j) \/ StartupStep(j) \/ SenseStep(j)
  BY <1>5, <1>6 DEF TaskStep
<1>8. chip' = chip
  BY <1>7 DEF OpenStep, MakeStep, StartupStep, SenseStep
<1>9. Current(j).what \notin {"lock", "unlock"}
  BY <1>7 DEF OpenStep, MakeStep, StartupStep, SenseStep, Doing
<1>10. Advance(j) \/ Return(j) \/ Error(j) \/ mutex' = mutex
  BY <1>7 DEF OpenStep, MakeStep, StartupStep, SenseStep
<1> QED BY <1>2, <1>8, <1>9, <1>10, HeldByAnother

\* The goroutine itself: lock, pointer, conversion, unlock.
LEMMA OwnStep ==
    ASSUME DriverInv, Converting, kind = "HDC1080", NEW k \in Workers, TaskStep(k),
           task'[k].op = "harvest"
    PROVE  /\ task'[k].at \in 2..4 => mutex'["own"] = k
           /\ task'[k].at = 3 => chip'.pointer = Current(k)'.register /\ chip'.by = k
<1>1. Running(k) /\ kind' = kind /\ TaskEffect(k)
  BY TaskStepEffect DEF StepEffect
<1>2. task'[k] # Started("over")
  BY DEF Started
<1>3. task[k].op = "harvest" /\ Program(k)' = Program(k) /\ reader' = reader
  BY <1>1, <1>2, SameProgram DEF TaskEffect
<1>4. task[k].at \in 1..4 /\ Len(Program(k)) = 4 /\ DOMAIN Program(k) = 1..4
  BY <1>1, <1>3, HDC1080Steps, AtInProgram
<1>5. ~Return(k)
  BY <1>1, <1>2, ReturnEffect
<1>6. DOMAIN mutex = Mutexes /\ "own" \in Mutexes
  BY StateTyped DEF MutexType, Mutexes
<1>7. CASE task[k].at = 1
  <2>1. Current(k).what = "lock" /\ Current(k).register = "own"
    BY <1>1, <1>3, <1>7, HDC1080Steps
  <2>2. LockStep(k)
    BY <2>1 DEF TaskStep, OpenStep, MakeStep, StartupStep, UnlockStep, WriteStep, CheckStep,
                PollStep, ReadStep, FetchStep, SenseStep, Doing
  <2>3. task'[k].at = 2
    <3>1. task' = [task EXCEPT ![k].at = @ + 1]
      BY <2>2 DEF LockStep
    <3>2. task[k].at < Len(Program(k))
      BY <1>4, <1>7
    <3>3. task'[k].at = task[k].at + 1
      BY <1>1, <3>1, <3>2, StepOn
    <3> QED BY <1>7, <3>3
  <2>4. mutex'["own"] = k
    BY <1>6, <2>1, <2>2 DEF LockStep
  <2> QED BY <2>3, <2>4
<1>8. CASE task[k].at = 2
  <2>1. Current(k).what = "send" /\ Current(k).onError = "return"
    BY <1>1, <1>3, <1>8, HDC1080Steps
  <2>2. WriteStep(k)
    BY <2>1 DEF TaskStep, OpenStep, MakeStep, StartupStep, LockStep, UnlockStep, CheckStep,
                PollStep, ReadStep, FetchStep, SenseStep, Doing
  <2>3. chip' = Written(k) /\ Advance(k)
    BY <1>5, <2>1, <2>2 DEF WriteStep, Error
  <2>4. task'[k].at = 3 /\ mutex' = mutex
    BY <1>1, <1>4, <1>8, <2>3, NextEffect
  <2>5. mutex["own"] = k
    BY <1>3, <1>8 DEF Converting
  <2>6. Current(k)'.register = Current(k).register
    <3>1. Program(k)[2].register = Program(k)[3].register
      BY <1>1, <1>3, HDC1080Steps
    <3>2. Current(k)' = Program(k)[3] /\ Current(k) = Program(k)[2]
      BY <1>3, <1>8, <2>4 DEF Current
    <3> QED BY <3>1, <3>2
  <2> QED BY <2>3, <2>4, <2>5, <2>6, WrittenTo
<1>9. CASE task[k].at = 3
  <2>1. Current(k).what = "fetch" /\ Current(k).onError = "again"
    BY <1>1, <1>3, <1>9, HDC1080Steps
  <2>2. FetchStep(k)
    BY <2>1 DEF TaskStep, OpenStep, MakeStep, StartupStep, LockStep, UnlockStep, WriteStep,
                CheckStep, PollStep, ReadStep, SenseStep, Doing
  <2>3. chip' = chip /\ (Advance(k) \/ Again(k, 0))
    BY <2>1, <2>2 DEF FetchStep, Error
  <2>4. mutex' = mutex /\ task'[k].at \in {3, 4}
    BY <1>1, <1>4, <1>5, <1>9, <2>3, NextEffect, AgainEffect
  <2>5. mutex["own"] = k /\ chip.pointer = Current(k).register /\ chip.by = k
    BY <1>3, <1>9 DEF Converting
  <2>6. task'[k].at = 3 => Current(k)' = Current(k)
    BY <1>3, <1>9 DEF Current
  <2> QED BY <2>3, <2>4, <2>5, <2>6
<1>10. CASE task[k].at = 4
  <2>1. Current(k).what = "unlock"
    BY <1>1, <1>3, <1>10, HDC1080Steps
  <2>2. UnlockStep(k)
    BY <2>1 DEF TaskStep, OpenStep, MakeStep, StartupStep, LockStep, WriteStep, CheckStep,
                PollStep, ReadStep, FetchStep, SenseStep, Doing
  <2>3. task'[k] = Started("over")
    BY <1>4, <1>10, <2>2, FinishEffect DEF UnlockStep
  <2> QED BY <1>2, <2>3
<1> QED BY <1>4, <1>7, <1>8, <1>9, <1>10

\* What the conversion delivers.
LEMMA OwnDelivered ==
    ASSUME ConversionInv, NEW k \in Workers, TaskStep(k) PROVE OwnConversions'
<1> USE DEF ConversionInv
<1>1. Running(k)
  BY TaskStepEffect
<1>2. CASE got' = got
  BY <1>2 DEF OwnConversions
<1>3. CASE task[k].op = "harvest" /\ (Deliver(k, {"own"}) \/ Deliver(k, {"blank"}))
  <2>1. {"own"} \in SUBSET Origins /\ {"blank"} \in SUBSET Origins
    BY DEF Origins
  <2>2. /\ k[1] \in Requests
        /\ \A q \in Requests : q # k[1] => got'[q] = got[q]
        /\ "other" \notin got'[k[1]]
    <3>1. PICK from \in {{"own"}, {"blank"}} : Deliver(k, from)
      BY <1>3
    <3>2. from \in SUBSET Origins /\ "other" \notin from
      BY <2>1
    <3>3. /\ k[1] \in Requests
          /\ \A q \in Requests : q # k[1] => got'[q] = got[q]
          /\ got'[k[1]] = got[k[1]] \cup from
                             \cup (IF Settings \subseteq chip.set THEN {} ELSE {"unready"})
      BY <1>3, <3>1, <3>2, Delivered
    <3> QED BY <3>2, <3>3 DEF OwnConversions
  <2> QED BY <2>2 DEF OwnConversions
<1>4. CASE FetchStep(k)
  <2>1. Current(k).what = "fetch" /\ task[k].op = "harvest"
    BY <1>1, <1>4, StepsOf DEF FetchStep, Doing, HarvestSteps
  <2>2. kind = "HDC1080" /\ task[k].at \in 1..Len(Program(k))
    <3>1. task[k].at \in 1..Len(Program(k)) /\ Reads(kind, Program(k))
      BY <1>1, <2>1, AtInProgram, Programs DEF DriverInv, TypeOK
    <3> QED BY <2>1, <3>1 DEF Reads, Current
  <2>3. task[k].at = 3
    BY <1>1, <2>1, <2>2, HDC1080Steps
  <2>4. chip.pointer = Current(k).register /\ chip.by = k
    BY <2>1, <2>2, <2>3 DEF Converting
  <2>5. Deliver(k, {"own"}) \/ Deliver(k, {"blank"}) \/ got' = got
    BY <1>4, <2>4 DEF FetchStep
  <2> QED BY <1>2, <1>3, <2>1, <2>5
<1>5. CASE ReadStep(k) \/ SenseStep(k)
  <2>1. task[k].op = "harvest"
    BY <1>1, <1>5, StepsOf DEF ReadStep, SenseStep, Doing, HarvestSteps
  <2> QED BY <1>2, <1>3, <1>5, <2>1 DEF ReadStep, SenseStep
<1>6. CASE OpenStep(k) \/ MakeStep(k) \/ StartupStep(k) \/ LockStep(k) \/ UnlockStep(k)
           \/ WriteStep(k) \/ CheckStep(k) \/ PollStep(k)
  BY <1>2, <1>6 DEF OpenStep, MakeStep, StartupStep, LockStep, UnlockStep, WriteStep, CheckStep, PollStep
<1> QED BY <1>4, <1>5, <1>6 DEF TaskStep

\* Every step of a program keeps the conversions.
LEMMA ConversionTask ==
    ASSUME ConversionInv, NEW j \in Workers, TaskStep(j) PROVE ConversionInv'
<1> USE DEF ConversionInv
<1>1. DriverInv' /\ OwnConversions'
  BY TaskKeeps, OwnDelivered
<1>2. kind' = kind /\ StepEffect(j)
  BY TaskStepEffect
<1>3. ASSUME kind = "HDC1080", NEW k \in Workers, task'[k].op = "harvest"
      PROVE  /\ task'[k].at \in 2..4 => mutex'["own"] = k
             /\ task'[k].at = 3 => chip'.pointer = Current(k)'.register /\ chip'.by = k
  <2>1. CASE k = j
    BY <1>3, <2>1, OwnStep
  <2>2. CASE k # j
    <3>1. task'[k] = task[k]
      BY <1>2, <2>2 DEF StepEffect, TaskEffect
    <3>2. Current(k)' = Current(k)
      BY <1>2, <3>1, SameProgram DEF Current
    <3>3. task[k].at \in 2..4 => mutex'["own"] = k /\ chip' = chip
      BY <1>3, <2>2, <3>1, OthersWait DEF Converting
    <3> QED BY <1>3, <3>1, <3>2, <3>3 DEF Converting
  <2> QED BY <2>1, <2>2
<1>4. Converting'
  BY <1>2, <1>3 DEF Converting, Workers
<1> QED BY <1>1, <1>4

LEMMA ConversionStarts == Init => ConversionInv
<1> SUFFICES ASSUME Init PROVE ConversionInv
  OBVIOUS
<1>1. \A k \in Workers : task[k].op = "none"
  BY StartedType DEF Init
<1> QED BY <1>1, DriverStarts DEF ConversionInv, Converting, OwnConversions, Init

\* Who else changes the programs only begins them.
LEMMA OthersBegin ==
    ASSUME DriverInv, \/ \E q \in Requests : ReaderStep(q)
                      \/ \E s \in Scans : Scan(s)
                      \/ Close
                      \/ UNCHANGED vars
    PROVE  /\ UNCHANGED <<kind, chip, mutex, got>>
           /\ \A k \in Workers : task'[k] = task[k] \/ task'[k].at = 1
<1>1. CASE \E q \in Requests : ReaderStep(q)
  <2>1. PICK q \in Requests : ReaderStep(q)
    BY <1>1
  <2>2. UNCHANGED <<kind, chip, mutex, got>>
    BY <2>1 DEF ReaderStep
  <2>3. \A k \in Workers : task'[k] = task[k] \/ task'[k] = Started("init") \/ task'[k] = Started("harvest")
    BY <2>1, TaskTyped DEF ReaderStep, Begin, Awake, Harvest, Harvested
  <2> QED BY <2>2, <2>3, StartedType
<1>2. CASE \E s \in Scans : Scan(s)
  <2>1. PICK s \in Scans : Scan(s)
    BY <1>2
  <2>2. \A k \in Workers : task'[k] = task[k] \/ task'[k] = Started("verify")
    BY <2>1, TaskTyped DEF Scan
  <2> QED BY <2>1, <2>2, StartedType DEF Scan
<1>3. CASE Close
  BY <1>3 DEF Close
<1>4. CASE UNCHANGED vars
  BY <1>4 DEF vars
<1> QED BY <1>1, <1>2, <1>3, <1>4

LEMMA ConversionKept == ASSUME ConversionInv, [Next]_vars PROVE ConversionInv'
<1>1. CASE \E k \in Workers : TaskStep(k)
  BY <1>1, ConversionTask
<1>2. CASE \/ \E q \in Requests : ReaderStep(q)
           \/ \E s \in Scans : Scan(s)
           \/ Close
           \/ UNCHANGED vars
  <2>1. DriverInv'
    BY DriverKept DEF ConversionInv
  <2>2. /\ UNCHANGED <<kind, chip, mutex, got>>
        /\ \A k \in Workers : task'[k] = task[k] \/ task'[k].at = 1
    BY <1>2, OthersBegin DEF ConversionInv
  <2>3. \A k \in Workers : task'[k] = task[k] => Current(k)' = Current(k)
    BY <2>2, SameProgram DEF Current
  <2>4. Converting'
    BY <2>2, <2>3 DEF ConversionInv, Converting, Workers
  <2> QED BY <2>1, <2>2, <2>4 DEF ConversionInv, OwnConversions
<1> QED BY <1>1, <1>2 DEF Next

\* What HDC1080 answers a goroutine is the conversion that it has started itself,
\* for any number of requests and scans: the mutex is held from the pointer to
\* the conversion, and whoever else writes the pointer takes it
\* (hdc1080.go and i2c.go).
THEOREM ConversionsOwned == Spec => []OwnConversions
<1>1. ConversionInv => OwnConversions
  BY DEF ConversionInv
<1> QED BY <1>1, ConversionStarts, ConversionKept, PTL DEF Spec

--------------------------------------------------------------------------------
(* Zeros that no chip has sent.                                             *)

\* A request that harvests a sensor has it awake, or it was closed meanwhile.
HarvestedAwake ==
    kind # "MAX30102" =>
        \A q \in Requests : reader[q] = "harvest" => active \/ q \in closedIn

ZerosInv == DriverInv /\ HarvestedAwake /\ ZerosOnlyIfClosed

\* What a step of a program delivers.
LEMMA Deliveries ==
    ASSUME DriverInv, NEW k \in Workers, TaskStep(k)
    PROVE  \/ got' = got
           \/ /\ task[k].op = "harvest" /\ k[1] \in Requests
              /\ \A q \in Requests : q # k[1] => got'[q] = got[q]
              /\ \E from \in SUBSET {"own", "other", "blank"} :
                    /\ got'[k[1]] = got[k[1]] \cup from
                           \cup (IF Settings \subseteq chip.set THEN {} ELSE {"unready"})
                    /\ "blank" \in from => ~active /\ kind # "MAX30102"
<1>1. Running(k)
  BY TaskStepEffect
<1>2. ASSUME task[k].op = "harvest", NEW from \in SUBSET {"own", "other", "blank"}, Deliver(k, from),
             "blank" \in from => ~active /\ kind # "MAX30102"
      PROVE  /\ task[k].op = "harvest" /\ k[1] \in Requests
             /\ \A q \in Requests : q # k[1] => got'[q] = got[q]
             /\ \E f \in SUBSET {"own", "other", "blank"} :
                   /\ got'[k[1]] = got[k[1]] \cup f
                          \cup (IF Settings \subseteq chip.set THEN {} ELSE {"unready"})
                   /\ "blank" \in f => ~active /\ kind # "MAX30102"
  <2>1. from \in SUBSET Origins
    BY DEF Origins
  <2>2. /\ k[1] \in Requests
        /\ \A q \in Requests : q # k[1] => got'[q] = got[q]
        /\ got'[k[1]] = got[k[1]] \cup from
                           \cup (IF Settings \subseteq chip.set THEN {} ELSE {"unready"})
    BY <1>2, <2>1, Delivered
  <2> QED BY <1>2, <2>2
<1>3. CASE ReadStep(k)
  <2>1. Current(k).what \in {"read", "nonzero"}
    BY <1>3 DEF ReadStep, Doing
  <2>2. task[k].op = "harvest"
    BY <1>1, <2>1, StepsOf DEF HarvestSteps
  <2>3. kind # "MAX30102"
    <3>1. task[k].at \in 1..Len(Program(k)) /\ Reads(kind, Program(k))
      BY <1>1, <2>2, AtInProgram, Programs DEF DriverInv, TypeOK
    <3> QED BY <2>1, <3>1 DEF Reads, Current
  <2>4. got' = got \/ Deliver(k, {"own"}) \/ (~active /\ Deliver(k, {"blank"}))
    BY <1>3 DEF ReadStep
  <2> QED BY <1>2, <2>2, <2>3, <2>4
<1>4. CASE FetchStep(k)
  <2>1. Current(k).what = "fetch"
    BY <1>4 DEF FetchStep, Doing
  <2>2. task[k].op = "harvest"
    BY <1>1, <2>1, StepsOf DEF HarvestSteps
  <2>3. kind # "MAX30102"
    <3>1. task[k].at \in 1..Len(Program(k)) /\ Reads(kind, Program(k))
      BY <1>1, <2>2, AtInProgram, Programs DEF DriverInv, TypeOK
    <3> QED BY <2>1, <3>1 DEF Reads, Current
  <2>4. \/ got' = got \/ Deliver(k, {"own"}) \/ Deliver(k, {"other"})
        \/ ~active /\ Deliver(k, {"blank"})
    BY <1>4 DEF FetchStep
  <2> QED BY <1>2, <2>2, <2>3, <2>4
<1>5. CASE SenseStep(k)
  <2>1. task[k].op = "harvest"
    BY <1>1, <1>5, StepsOf DEF SenseStep, Doing, HarvestSteps
  <2>2. got' = got \/ Deliver(k, {"own"})
    BY <1>5 DEF SenseStep
  <2> QED BY <1>2, <2>1, <2>2
<1>6. CASE OpenStep(k) \/ MakeStep(k) \/ StartupStep(k) \/ LockStep(k) \/ UnlockStep(k)
           \/ WriteStep(k) \/ CheckStep(k) \/ PollStep(k)
  BY <1>6 DEF OpenStep, MakeStep, StartupStep, LockStep, UnlockStep, WriteStep, CheckStep, PollStep
<1> QED BY <1>3, <1>4, <1>5, <1>6 DEF TaskStep

\* Nothing that a program does puts the sensor to sleep.
LEMMA StaysActive ==
    ASSUME NEW k, TaskStep(k), active PROVE active'
BY DEF TaskStep, OpenStep, MakeStep, StartupStep, LockStep, UnlockStep, WriteStep, CheckStep,
       PollStep, ReadStep, FetchStep, SenseStep, driverVars

\* A program moves its request only where its Init fails.
LEMMA ReaderOfTask ==
    ASSUME DriverInv, NEW k \in Workers, TaskStep(k), NEW q \in Requests
    PROVE  \/ reader'[q] = reader[q]
           \/ reader[q] = "init" /\ reader'[q] = "failed" /\ task[k].op = "init" /\ q = k[1]
<1>1. \/ reader' = reader
      \/ task[k].op = "init" /\ reader' = [reader EXCEPT ![k[1]] = "failed"]
  BY TaskStepEffect DEF StepEffect, TaskEffect
<1>2. task[k].op = "init" => reader[k[1]] = "init"
  BY DEF DriverInv, RolesKept
<1> QED BY <1>1, <1>2, StateTyped

LEMMA ZerosKept == ASSUME ZerosInv, [Next]_vars PROVE ZerosInv'
<1> USE DEF ZerosInv
<1>1. DriverInv'
  BY DriverKept
<1>2. CASE \E k \in Workers : TaskStep(k)
  <2>1. PICK k \in Workers : TaskStep(k)
    BY <1>2
  <2>2. kind' = kind /\ closedIn' = closedIn
    BY <2>1, TaskStepEffect
  <2>3. HarvestedAwake'
    BY <2>1, <2>2, ReaderOfTask, StaysActive DEF HarvestedAwake
  <2>4. ZerosOnlyIfClosed'
    <3>1. CASE got' = got
      BY <2>2, <3>1 DEF ZerosOnlyIfClosed
    <3>2. CASE got' # got
      <4>1. task[k].op = "harvest" /\ k[1] \in Requests
        BY <2>1, <3>2, Deliveries
      <4>2. \A q \in Requests : q # k[1] => got'[q] = got[q]
        BY <2>1, <3>2, Deliveries
      <4>3. "blank" \in got'[k[1]] => "blank" \in got[k[1]] \/ (~active /\ kind # "MAX30102")
        BY <2>1, <3>2, Deliveries
      <4>4. reader[k[1]] = "harvest"
        BY <4>1 DEF DriverInv, RolesKept
      <4>5. "blank" \in got'[k[1]] => k[1] \in closedIn
        BY <4>1, <4>3, <4>4 DEF HarvestedAwake, ZerosOnlyIfClosed
      <4> QED BY <2>2, <4>2, <4>5 DEF ZerosOnlyIfClosed
    <3> QED BY <3>1, <3>2
  <2> QED BY <1>1, <2>3, <2>4
<1>3. CASE \E q \in Requests : ReaderStep(q)
  <2>1. PICK q \in Requests : ReaderStep(q)
    BY <1>3
  <2>2. UNCHANGED <<kind, active, got, closedIn>>
    BY <2>1 DEF ReaderStep, driverVars
  <2>3. kind # "MAX30102" /\ Active => active
    BY DEF Active
  <2>4. \A p \in Requests : reader'[p] = "harvest" => reader[p] = "harvest" \/ Active
    BY <2>1, StateTyped DEF ReaderStep, Begin, Awake, Harvest, Harvested, ReaderGoes
  <2> QED BY <1>1, <2>2, <2>3, <2>4 DEF HarvestedAwake, ZerosOnlyIfClosed
<1>4. CASE \E s \in Scans : Scan(s)
  BY <1>1, <1>4 DEF Scan, driverVars, historyVars, HarvestedAwake, ZerosOnlyIfClosed
<1>5. CASE Close
  BY <1>1, <1>5 DEF Close, HarvestedAwake, ZerosOnlyIfClosed
<1>6. CASE UNCHANGED vars
  BY <1>1, <1>6 DEF vars, driverVars, historyVars, HarvestedAwake, ZerosOnlyIfClosed
<1> QED BY <1>2, <1>3, <1>4, <1>5, <1>6 DEF Next

\* Zeros of I2C.Tx, which it gives without an error when it is not active, are
\* read only by requests under whose harvest the driver was closed.
THEOREM ZerosOfClosed == Spec => []ZerosOnlyIfClosed
<1>1. Init => ZerosInv
  BY DriverStarts DEF Init, ZerosInv, HarvestedAwake, ZerosOnlyIfClosed
<1>2. ZerosInv => ZerosOnlyIfClosed
  BY DEF ZerosInv
<1> QED BY <1>1, <1>2, ZerosKept, PTL DEF Spec

--------------------------------------------------------------------------------
(* A chip that is read has been set up.                                     *)

IsSet == Settings \subseteq chip.set

WokenUpOnce == \A p, q \in Requests : reader[p] = "init" /\ reader[q] = "init" => p = q

Sets(step) == step.what \in {"write", "send", "command"}

\* What a program has set so far is in the chip, and a command is about its
\* own value.
SetSoFar ==
    \A k \in Workers : task[k].op = "init" =>
        /\ \A n \in DOMAIN Program(k) :
               n < task[k].at /\ Sets(Program(k)[n]) =>
                   Program(k)[n].register \in chip.set \cup {"reset"}
        /\ Current(k).what = "command" => chip.latch = Current(k).register

ReadyOnceWoken ==
    \A q \in Requests :
        /\ reader[q] \in {"check", "harvest"} => IsSet
        /\ reader[q] = "init" /\ task[<<q, 1>>].op = "over" => IsSet

\* The sensor is active from the first step of its Init.
ReadyWhenActive ==
    active => \/ IsSet
              \/ \E q \in Requests : task[<<q, 1>>].op = "init" /\ task[<<q, 1>>].at > 1

Ready == SetSoFar /\ ReadyOnceWoken /\ ReadyWhenActive

\* A request that wakes the sensor up has no other about to read it.
WakesAlone ==
    \A p, q \in Requests : reader[p] = "init" => reader[q] \notin {"check", "harvest"}

\* A chip that one request reads and another resets.
ResetUnder == kind = "CCS811" /\ overtaken

ReadyInv ==
    /\ DriverInv /\ ReadySensors
    /\ ~shared => WokenUpOnce
    /\ ~shared /\ ~overtaken => WakesAlone
    /\ ~shared /\ ~flawed /\ ~ResetUnder => Ready

\* The settings are what the steps of Init set, but for the reset.
LEMMA SettingsAre ==
    ASSUME kind \in AllDrivers
    PROVE  /\ \A n \in DOMAIN Driver.init :
                 Sets(Driver.init[n]) =>
                     Driver.init[n].register = "reset" \/ Driver.init[n].register \in Settings
           /\ \A r \in Settings : r # "reset" /\ \E n \in DOMAIN Driver.init :
                 Sets(Driver.init[n]) /\ r = Driver.init[n].register
<1>1. kind \in DOMAIN Drivers
  BY DriverFields
<1>2. Settings = {Driver.init[n].register : n \in {m \in DOMAIN Driver.init :
                      Driver.init[m].what \in {"write", "send", "command"}}} \ {"reset"}
  BY <1>1 DEF Settings, SettingsOf, Driver
<1> QED BY <1>2 DEF Sets

LEMMA OneOrTwo == \A n \in 1..2 : n = 1 \/ n = 2
OBVIOUS

\* MAX30102's settings are the library's.
LEMMA NoSettings == kind = "MAX30102" => Settings = {}
<1> SUFFICES ASSUME kind = "MAX30102" PROVE Settings = {}
  OBVIOUS
<1>1. Driver.init = MAX30102.init /\ kind \in AllDrivers
  BY DriverFields DEF Driver, AllDrivers
<1> DEFINE p == MAX30102.init
<1>2. Len(p) = 2 /\ DOMAIN p = 1..2 /\ p[1] = Make /\ p[2] = Step("startup", "", "return")
  BY DEF MAX30102
<1> HIDE DEF p
<1>3. p[1].what = "make" /\ p[2].what = "startup"
  <2>1. Step("startup", "", "return").what = "startup"
    BY DEF Step
  <2> QED BY <1>2, <2>1, StepFields
<1>4. \A n \in DOMAIN p : n = 1 \/ n = 2
  BY <1>2, OneOrTwo
<1>5. \A n \in DOMAIN p : ~Sets(p[n])
  BY <1>3, <1>4 DEF Sets
<1>6. Driver.init = p
  BY <1>1 DEF p
<1> QED BY <1>1, <1>5, <1>6, SettingsAre

\* An Init is of a request that wakes the sensor up.
LEMMA InitWorkers ==
    ASSUME DriverInv, NEW k \in Workers, task[k].op = "init"
    PROVE  k[1] \in Requests /\ reader[k[1]] = "init" /\ k = <<k[1], 1>>
BY RequestWorkers DEF DriverInv, RolesKept

\* The steps of an Init in which nothing goes wrong.
LEMMA InitStep ==
    ASSUME DriverInv, NEW k \in Workers, TaskStep(k), task[k].op = "init", ~flawed'
    PROVE  \/ /\ Advance(k)
              /\ \/ Current(k).what \in {"send", "write", "param", "command"} /\ chip' = Written(k)
                 \/ /\ Current(k).what \in {"open", "make", "startup", "check"}
                    /\ chip' \in {chip, Points(k)}
           \/ Return(k) /\ Current(k).what = "open" /\ chip' = chip /\ active' = active
           \/ UNCHANGED <<task, reader, chip, active>>
<1>1. Running(k)
  BY TaskStepEffect
<1>2. Current(k).what \notin HarvestSteps \ {"send"}
  <2>1. \A w \in HarvestSteps \ {"send"} : Current(k).what # w
    BY <1>1, StepsOf
  <2> QED BY <2>1
<1>3. ~LockStep(k) /\ ~UnlockStep(k) /\ ~PollStep(k) /\ ~ReadStep(k) /\ ~FetchStep(k) /\ ~SenseStep(k)
  BY <1>2 DEF LockStep, UnlockStep, PollStep, ReadStep, FetchStep, SenseStep, Doing, HarvestSteps
<1>4. ~Flaws(k)
  BY DEF Flaws
<1>5. CASE OpenStep(k)
  BY <1>5 DEF OpenStep, Doing
<1>6. CASE MakeStep(k)
  BY <1>6 DEF MakeStep, Doing
<1>7. CASE StartupStep(k)
  BY <1>7 DEF StartupStep, Doing, driverVars
<1>8. CASE WriteStep(k)
  BY <1>4, <1>8 DEF WriteStep, Doing
<1>9. CASE CheckStep(k)
  BY <1>4, <1>9 DEF CheckStep, Doing
<1> QED BY <1>3, <1>5, <1>6, <1>7, <1>8, <1>9 DEF TaskStep

\* The steps of the others leave what is set, and the latch.
LEMMA OtherStep ==
    ASSUME DriverInv, NEW k \in Workers, TaskStep(k), task[k].op # "init"
    PROVE  /\ chip.set \subseteq chip'.set /\ chip'.latch = chip.latch
           /\ active' = active /\ reader' = reader
<1>1. Running(k) /\ TaskEffect(k)
  BY TaskStepEffect DEF StepEffect
<1>2. reader' = reader
  BY <1>1 DEF TaskEffect
<1>3. Current(k).what \notin InitSteps \ {"send", "check"}
  <2>1. \A w \in InitSteps \ {"send", "check"} : Current(k).what # w
    BY <1>1, StepsOf
  <2> QED BY <2>1
<1>4. ~OpenStep(k) /\ ~MakeStep(k) /\ ~StartupStep(k)
  BY <1>3 DEF OpenStep, MakeStep, StartupStep, Doing, InitSteps
<1>5. active' = active
  BY <1>4 DEF TaskStep, LockStep, UnlockStep, WriteStep, CheckStep, PollStep, ReadStep, FetchStep,
              SenseStep, driverVars
<1>6. CASE WriteStep(k)
  <2>1. Current(k).what = "send"
    BY <1>3, <1>6 DEF WriteStep, Doing, InitSteps
  <2>2. chip' = chip \/ chip' = Written(k)
    BY <1>6 DEF WriteStep
  <2> QED BY <1>2, <1>5, <2>1, <2>2, WrittenTo DEF Resets
<1>7. CASE ~WriteStep(k)
  <2>1. chip' = chip \/ chip' = Points(k)
    BY <1>4, <1>7 DEF TaskStep, LockStep, UnlockStep, CheckStep, PollStep, ReadStep, FetchStep,
                      SenseStep
  <2> QED BY <1>2, <1>5, <2>1, Pointed
<1> QED BY <1>6, <1>7

\* What has gone wrong is remembered.
LEMMA FlawStays == ASSUME NEW k, TaskStep(k), flawed PROVE flawed'
BY DEF TaskStep, OpenStep, MakeStep, StartupStep, LockStep, UnlockStep, WriteStep, CheckStep,
       PollStep, ReadStep, FetchStep, SenseStep, Flaws

\* One step of the Init that runs, and what is set after it.
LEMMA InitSets ==
    ASSUME DriverInv, SetSoFar, kind' = kind, NEW k \in Workers, task[k].op = "init", Advance(k),
           \/ Current(k).what \in {"send", "write", "param", "command"} /\ chip' = Written(k)
           \/ /\ Current(k).what \in {"open", "make", "startup", "check"}
              /\ chip' \in {chip, Points(k)}
    PROVE  /\ ~Resets(Current(k)) => chip.set \subseteq chip'.set
           /\ \A n \in DOMAIN Program(k) :
                 n < task[k].at + 1 /\ Sets(Program(k)[n]) =>
                     Program(k)[n].register \in chip'.set \cup {"reset"}
           /\ Current(k).what = "param" => chip'.latch = Current(k).register
<1>1. Running(k)
  BY DEF Running
<1>2. /\ task[k].at \in 1..Len(Program(k)) /\ DOMAIN Program(k) = 1..Len(Program(k))
      /\ Program(k) = Driver.init /\ kind \in AllDrivers
  BY <1>1, AtInProgram, Programs, KnownDrivers, TaskTyped DEF DriverInv
<1>3. Current(k).what = "command" => chip.latch = Current(k).register
  BY DEF SetSoFar
<1>4. /\ ~Resets(Current(k)) => chip.set \subseteq chip'.set
      /\ Current(k).what = "param" => chip'.latch = Current(k).register
      /\ Sets(Current(k)) => {Current(k).register} \cap Settings \subseteq chip'.set
  <2>1. CASE Current(k).what \in {"send", "write", "param", "command"} /\ chip' = Written(k)
    BY <1>2, <1>3, <2>1, WrittenTo, SettingsAre DEF Sets, Resets
  <2>2. CASE /\ Current(k).what \in {"open", "make", "startup", "check"}
             /\ chip' \in {chip, Points(k)}
    BY <2>2, Pointed DEF Sets
  <2> QED BY <2>1, <2>2
<1>5. ASSUME NEW n \in DOMAIN Program(k), n < task[k].at + 1, Sets(Program(k)[n])
      PROVE  Program(k)[n].register \in chip'.set \cup {"reset"}
  <2>1. n < task[k].at \/ n = task[k].at
    BY <1>2, <1>5
  <2>2. CASE n < task[k].at
    <3>1. CASE ~Resets(Current(k))
      BY <1>4, <1>5, <2>2, <3>1 DEF SetSoFar
    <3>2. CASE Resets(Current(k))
      <4>1. task[k].at = 2 /\ Program(k)[1].what = "open"
        BY <1>1, <1>2, <3>2, Programs, TaskTyped DEF WakesUp, Resets, Current, DriverInv
      <4>2. n = 1
        BY <1>2, <2>2, <4>1
      <4> QED BY <1>5, <4>1, <4>2 DEF Sets
    <3> QED BY <3>1, <3>2
  <2>3. CASE n = task[k].at
    <3>1. Program(k)[n] = Current(k)
      BY <2>3 DEF Current
    <3>2. Current(k).register = "reset" \/ Current(k).register \in Settings
      BY <1>2, <1>5, <3>1, SettingsAre
    <3> QED BY <1>4, <1>5, <3>1, <3>2
  <2> QED BY <2>1, <2>2, <2>3
<1> QED BY <1>4, <1>5

\* Once its last step is taken, an Init has set everything.
LEMMA AllSet ==
    ASSUME DriverInv, SetSoFar, kind' = kind, NEW k \in Workers, task[k].op = "init", Advance(k),
           \/ Current(k).what \in {"send", "write", "param", "command"} /\ chip' = Written(k)
           \/ /\ Current(k).what \in {"open", "make", "startup", "check"}
              /\ chip' \in {chip, Points(k)},
           task'[k].op # "init"
    PROVE  IsSet'
<1>1. Running(k)
  BY DEF Running
<1>2. /\ task[k].at \in 1..Len(Program(k)) /\ DOMAIN Program(k) = 1..Len(Program(k))
      /\ Program(k) = Driver.init /\ kind \in AllDrivers
  BY <1>1, AtInProgram, Programs, KnownDrivers, TaskTyped DEF DriverInv
<1>3. task[k].at + 1 > Len(Program(k))
  <2>1. Len(Program(k)) \in Nat /\ task[k].at + 1 \in Nat
    BY <1>1, AtInProgram
  <2> QED BY <1>1, <2>1, NextEffect
<1>4. \A n \in DOMAIN Program(k) : n < task[k].at + 1
  BY <1>2, <1>3
<1>5. ASSUME NEW r \in Settings PROVE r \in chip'.set
  <2>1. PICK n \in DOMAIN Program(k) : Sets(Program(k)[n]) /\ r = Program(k)[n].register
    BY <1>2, SettingsAre
  <2>2. r # "reset"
    BY <1>2, SettingsAre
  <2> QED BY <1>4, <2>1, <2>2, InitSets
<1> QED BY <1>5, SameParts DEF IsSet

\* An Init that goes on has set what it has passed.
LEMMA SetSoFarAdvances ==
    ASSUME DriverInv, SetSoFar, kind' = kind, NEW k \in Workers, task[k].op = "init", Advance(k),
           \/ Current(k).what \in {"send", "write", "param", "command"} /\ chip' = Written(k)
           \/ /\ Current(k).what \in {"open", "make", "startup", "check"}
              /\ chip' \in {chip, Points(k)},
           task'[k].op = "init"
    PROVE  /\ \A n \in DOMAIN Program(k)' :
                 n < task'[k].at /\ Sets(Program(k)'[n]) =>
                     Program(k)'[n].register \in chip'.set \cup {"reset"}
           /\ Current(k)'.what = "command" => chip'.latch = Current(k)'.register
           /\ task'[k].at > 1
<1>1. Running(k)
  BY DEF Running
<1>2. /\ task[k].at \in 1..Len(Program(k)) /\ DOMAIN Program(k) = 1..Len(Program(k))
      /\ WakesUp(kind, Program(k)) /\ Len(Program(k)) \in 1..9
  BY <1>1, AtInProgram, Programs, TaskTyped DEF DriverInv
<1>3. Program(k)' = Program(k)
  BY SameProgram
<1>4. task[k].at + 1 <= Len(Program(k)) /\ task'[k].at = task[k].at + 1
  <2>1. task[k].at + 1 > Len(Program(k)) => task'[k].op = "over"
    BY <1>1, NextEffect DEF Started
  <2>2. task[k].at + 1 <= Len(Program(k))
    BY <1>2, <2>1
  <2> QED BY <1>1, <2>2, NextEffect
<1>5. \A n \in DOMAIN Program(k)' :
          n < task'[k].at /\ Sets(Program(k)'[n]) =>
              Program(k)'[n].register \in chip'.set \cup {"reset"}
  BY <1>3, <1>4, InitSets
<1>6. Current(k)'.what = "command" => chip'.latch = Current(k)'.register
  <2> DEFINE n == task[k].at + 1
  <2>1. Current(k)' = Program(k)[n] /\ n \in 1..Len(Program(k)) /\ n - 1 = task[k].at
    BY <1>2, <1>3, <1>4 DEF Current
  <2>2. Current(k) = Program(k)[n - 1]
    BY <2>1 DEF Current
  <2> HIDE DEF n
  <2>3. Program(k)[n].what = "command" =>
            Program(k)[n - 1].what = "param" /\ Program(k)[n - 1].register = Program(k)[n].register
    BY <1>2, <2>1 DEF WakesUp
  <2> QED BY <2>1, <2>2, <2>3, InitSets
<1> QED BY <1>2, <1>4, <1>5, <1>6

\* The only Init, of the only request that wakes the sensor up.
LEMMA OnlyInit ==
    ASSUME DriverInv, WokenUpOnce, NEW k \in Workers, task[k].op = "init"
    PROVE  /\ \A j \in Workers : task[j].op = "init" => j = k
           /\ \A q \in Requests : reader[q] = "init" => <<q, 1>> = k
BY InitWorkers DEF WokenUpOnce

\* A step of the only Init.
LEMMA InitReady ==
    ASSUME DriverInv, WokenUpOnce, kind = "CCS811" => WakesAlone, Ready,
           NEW k \in Workers, TaskStep(k), task[k].op = "init", ~flawed'
    PROVE  Ready'
<1> USE DEF Ready
<1>1. Running(k) /\ kind' = kind /\ TaskEffect(k)
  BY TaskStepEffect DEF StepEffect
<1>2. k[1] \in Requests /\ reader[k[1]] = "init" /\ k = <<k[1], 1>>
  BY InitWorkers
<1>3. \A j \in Workers \ {k} : task'[j] = task[j] /\ task[j].op # "init"
  BY <1>1, OnlyInit DEF TaskEffect
<1>4. ASSUME NEW q \in Requests, reader'[q] # reader[q]
      PROVE  reader'[q] = "failed"
  BY <1>4, ReaderOfTask
<1>5. CASE /\ Advance(k)
           /\ \/ Current(k).what \in {"send", "write", "param", "command"} /\ chip' = Written(k)
              \/ /\ Current(k).what \in {"open", "make", "startup", "check"}
                 /\ chip' \in {chip, Points(k)}
  <2>1. ASSUME NEW q \in Requests, reader[q] \in {"check", "harvest"} PROVE IsSet'
    <3>1. ~Resets(Current(k))
      <4>1. ASSUME Resets(Current(k)) PROVE kind = "CCS811"
        <5>1. WakesUp(kind, Program(k)) /\ task[k].at \in 1..Len(Program(k))
          BY <1>1, AtInProgram, Programs, TaskTyped DEF DriverInv
        <5> QED BY <4>1, <5>1 DEF WakesUp, Resets, Current
      <4> QED BY <1>2, <2>1, <4>1 DEF WakesAlone
    <3>2. IsSet
      BY <2>1 DEF ReadyOnceWoken
    <3> QED BY <1>1, <1>5, <3>1, <3>2, InitSets, SameParts DEF IsSet
  <2>2. task'[k].op # "init" => IsSet'
    BY <1>1, <1>5, AllSet
  <2>3. SetSoFar'
    <3> SUFFICES ASSUME NEW j \in Workers, task'[j].op = "init"
                 PROVE  /\ \A n \in DOMAIN Program(j)' :
                              n < task'[j].at /\ Sets(Program(j)'[n]) =>
                                  Program(j)'[n].register \in chip'.set \cup {"reset"}
                        /\ Current(j)'.what = "command" => chip'.latch = Current(j)'.register
      BY DEF SetSoFar, Sets, Workers
    <3>1. j = k
      BY <1>3
    <3> QED BY <1>1, <1>5, <3>1, SetSoFarAdvances
  <2>4. reader' = reader
    BY <1>1, <1>5, NextEffect
  <2>5. ReadyOnceWoken'
    BY <1>2, <2>1, <2>2, <2>4, OnlyInit DEF ReadyOnceWoken
  <2>6. ReadyWhenActive'
    <3>1. CASE task'[k].op = "init"
      BY <1>1, <1>2, <1>5, <3>1, SetSoFarAdvances DEF ReadyWhenActive
    <3>2. CASE task'[k].op # "init"
      BY <2>2, <3>2 DEF ReadyWhenActive
    <3> QED BY <3>1, <3>2
  <2> QED BY <2>3, <2>5, <2>6
<1>6. CASE Return(k) /\ Current(k).what = "open" /\ chip' = chip /\ active' = active
  <2>1. task'[k].op = "over" /\ reader' = [reader EXCEPT ![k[1]] = "failed"]
    <3>1. task'[k] = Started("over")
      BY <1>1, <1>6, ReturnEffect
    <3>2. reader' = [reader EXCEPT ![k[1]] = "failed"]
      BY <1>6 DEF Return
    <3> QED BY <3>1, <3>2 DEF Started
  <2>2. IsSet' = IsSet
    BY <1>1, <1>6, SameParts DEF IsSet
  <2>3. SetSoFar'
    BY <1>3, <2>1 DEF SetSoFar, Workers
  <2>4. ReadyOnceWoken'
    <3> SUFFICES ASSUME NEW q \in Requests
                 PROVE  /\ reader'[q] \in {"check", "harvest"} => IsSet'
                        /\ reader'[q] = "init" /\ task'[<<q, 1>>].op = "over" => IsSet'
      BY DEF ReadyOnceWoken
    <3>1. reader'[k[1]] = "failed"
      BY <1>2, <2>1, StateTyped
    <3>2. CASE q # k[1]
      <4>1. reader'[q] = reader[q] /\ reader[q] # "init"
        BY <1>2, <2>1, <3>2, StateTyped DEF WokenUpOnce
      <4> QED BY <2>2, <4>1 DEF ReadyOnceWoken
    <3> QED BY <3>1, <3>2
  <2>5. ReadyWhenActive'
    <3>1. task[k].at = 1
      <4>1. task[k].at \in 1..Len(Program(k)) /\ WakesUp(kind, Program(k))
        BY <1>1, AtInProgram, Programs, TaskTyped DEF DriverInv
      <4> QED BY <1>6, <4>1 DEF WakesUp, Current
    <3>2. \A q \in Requests : task[<<q, 1>>].op = "init" => <<q, 1>> = k
      BY <1>3 DEF Workers
    <3>3. \A q \in Requests : ~(task[<<q, 1>>].op = "init" /\ task[<<q, 1>>].at > 1)
      <4>1. ~(1 > 1)
        OBVIOUS
      <4> QED BY <3>1, <3>2, <4>1
    <3>4. active => IsSet
      BY <3>3 DEF ReadyWhenActive
    <3> QED BY <1>6, <2>2, <3>4 DEF ReadyWhenActive
  <2> QED BY <2>3, <2>4, <2>5
<1>7. CASE UNCHANGED <<task, reader, chip, active>>
  <2>1. \A j \in Workers : Program(j)' = Program(j) /\ Current(j)' = Current(j)
    BY <1>1, <1>7, SameProgram DEF Current
  <2>2. IsSet' = IsSet
    BY <1>1, <1>7, SameParts DEF IsSet
  <2>3. SetSoFar'
    BY <1>7, <2>1 DEF SetSoFar, Workers, Sets
  <2> QED BY <1>7, <2>2, <2>3 DEF ReadyOnceWoken, ReadyWhenActive
<1> QED BY <1>5, <1>6, <1>7, InitStep

\* A step of any other program.
LEMMA OtherReady ==
    ASSUME DriverInv, Ready, NEW k \in Workers, TaskStep(k), task[k].op # "init"
    PROVE  Ready'
<1> USE DEF Ready
<1>1. Running(k) /\ kind' = kind /\ TaskEffect(k)
  BY TaskStepEffect DEF StepEffect
<1>2. /\ chip.set \subseteq chip'.set /\ chip'.latch = chip.latch
      /\ active' = active /\ reader' = reader
  BY OtherStep
<1>3. \A j \in Workers \ {k} : task'[j] = task[j]
  BY <1>1 DEF TaskEffect
<1>4. task'[k].op # "init"
  BY <1>1 DEF TaskEffect, Started
<1>5. IsSet => IsSet'
  BY <1>1, <1>2, SameParts DEF IsSet
<1>6. SetSoFar'
  <2> SUFFICES ASSUME NEW j \in Workers, task'[j].op = "init"
               PROVE  /\ \A n \in DOMAIN Program(j)' :
                            n < task'[j].at /\ Sets(Program(j)'[n]) =>
                                Program(j)'[n].register \in chip'.set \cup {"reset"}
                      /\ Current(j)'.what = "command" => chip'.latch = Current(j)'.register
    BY DEF SetSoFar, Sets, Workers
  <2>1. task'[j] = task[j]
    BY <1>3, <1>4
  <2>2. Program(j)' = Program(j) /\ Current(j)' = Current(j)
    BY <1>1, <2>1, SameProgram DEF Current
  <2> QED BY <1>2, <2>1, <2>2 DEF SetSoFar
<1>7. ReadyOnceWoken'
  <2> SUFFICES ASSUME NEW q \in Requests
               PROVE  /\ reader'[q] \in {"check", "harvest"} => IsSet'
                      /\ reader'[q] = "init" /\ task'[<<q, 1>>].op = "over" => IsSet'
    BY DEF ReadyOnceWoken
  <2>1. CASE <<q, 1>> = k
    <3>1. task[k].op = "harvest"
      BY <1>1, <2>1 DEF Running, DriverInv, RolesKept
    <3>2. reader[q] = "harvest"
      BY <2>1, <3>1 DEF DriverInv, RolesKept
    <3> QED BY <1>2, <1>5, <3>2 DEF ReadyOnceWoken
  <2>2. CASE <<q, 1>> # k
    <3>1. task'[<<q, 1>>] = task[<<q, 1>>]
      BY <1>3, <2>2 DEF Workers
    <3> QED BY <1>2, <1>5, <3>1 DEF ReadyOnceWoken
  <2> QED BY <2>1, <2>2
<1>8. ReadyWhenActive'
  <2> SUFFICES ASSUME active, ~IsSet
               PROVE  \E q \in Requests : task'[<<q, 1>>].op = "init" /\ task'[<<q, 1>>].at > 1
    BY <1>2, <1>5 DEF ReadyWhenActive
  <2>1. PICK q \in Requests : task[<<q, 1>>].op = "init" /\ task[<<q, 1>>].at > 1
    BY DEF ReadyWhenActive
  <2>2. task'[<<q, 1>>] = task[<<q, 1>>]
    BY <1>3, <2>1 DEF Workers
  <2> QED BY <2>1, <2>2
<1> QED BY <1>6, <1>7, <1>8

\* A sensor that is found active is set up.
LEMMA NobodyWakesUp ==
    ASSUME DriverInv, Ready, \A p \in Requests : reader[p] # "init", Active
    PROVE  IsSet
<1>1. CASE kind = "MAX30102"
  BY <1>1, NoSettings DEF IsSet
<1>2. CASE kind # "MAX30102"
  <2>1. active
    BY <1>2 DEF Active
  <2>2. \A q \in Requests : task[<<q, 1>>].op # "init"
    BY InitWorkers DEF Workers
  <2> QED BY <2>1, <2>2 DEF Ready, ReadyWhenActive
<1> QED BY <1>1, <1>2

\* A request comes upon the sensor and nobody wakes it up.
LEMMA BeginReady ==
    ASSUME DriverInv, NEW q \in Requests, Begin(q), ~shared', UNCHANGED <<kind, chip, active>>
    PROVE  WokenUpOnce' /\ (~overtaken' => WakesAlone') /\ (Ready => Ready')
<1>1. \A p \in Requests : reader[p] # "init"
  BY DEF Begin
<1>2. \A k \in Workers : task[k].op # "init"
  BY <1>1, InitWorkers
<1>3. reader' = [reader EXCEPT ![q] = IF Active THEN "check" ELSE "init"]
  BY DEF Begin, ReaderGoes
<1>4. WokenUpOnce'
  BY <1>1, <1>3, StateTyped DEF WokenUpOnce
<1>9. ~overtaken' => WakesAlone'
  <2>1. CASE Active
    BY <1>1, <1>3, <2>1, StateTyped DEF WakesAlone
  <2>2. CASE ~Active
    <3> SUFFICES ASSUME ~overtaken' PROVE WakesAlone'
      OBVIOUS
    <3>1. \A p \in Requests : reader[p] \notin {"check", "harvest"}
      BY <2>2 DEF Begin
    <3>2. \A p \in Requests : reader'[p] = reader[p] \/ reader'[p] = "init"
      BY <1>3, <2>2, StateTyped
    <3> QED BY <3>1, <3>2 DEF WakesAlone
  <2> QED BY <2>1, <2>2
<1> SUFFICES ASSUME Ready PROVE Ready'
  BY <1>4, <1>9
<1>5. IsSet' = IsSet
  BY SameParts DEF IsSet
<1>6. active => IsSet
  <2>1. \A p \in Requests : task[<<p, 1>>].op # "init"
    BY <1>2 DEF Workers
  <2> QED BY <2>1 DEF Ready, ReadyWhenActive
<1>7. CASE Active
  <2>1. IsSet
    BY <1>1, <1>7, NobodyWakesUp
  <2>2. task' = task
    BY <1>7 DEF Begin
  <2>3. SetSoFar'
    BY <1>2, <2>2 DEF SetSoFar, Workers
  <2> QED BY <1>5, <2>1, <2>3 DEF Ready, ReadyOnceWoken, ReadyWhenActive
<1>8. CASE ~Active
  <2>1. task' = [task EXCEPT ![<<q, 1>>] = Started("init")] /\ <<q, 1>> \in Workers
    BY <1>8 DEF Begin, Workers
  <2>2. task'[<<q, 1>>] = Started("init") /\ \A k \in Workers : k # <<q, 1>> => task'[k] = task[k]
    BY <2>1, TaskTyped
  <2>3. Started("init").op = "init" /\ Started("init").at = 1
    BY StartedType
  <2>4. SetSoFar'
    <3> SUFFICES ASSUME NEW k \in Workers, task'[k].op = "init"
                 PROVE  /\ \A n \in DOMAIN Program(k)' :
                              n < task'[k].at /\ Sets(Program(k)'[n]) =>
                                  Program(k)'[n].register \in chip'.set \cup {"reset"}
                        /\ Current(k)'.what = "command" => chip'.latch = Current(k)'.register
      BY DEF SetSoFar, Sets, Workers
    <3>1. k = <<q, 1>> /\ task'[k].at = 1
      BY <1>2, <2>2, <2>3
    <3>2. Program(k)' = Driver.init /\ kind \in AllDrivers
      BY KnownDrivers, TaskTyped DEF Program, Driver
    <3>3. WakesUp(kind, Driver.init)
      BY <3>2, InitPrograms DEF Driver
    <3>4. DOMAIN Driver.init = 1..Len(Driver.init) /\ Len(Driver.init) \in 1..9
      BY <3>3 DEF WakesUp
    <3>5. 1 \in 1..Len(Driver.init) /\ ~(1 > 1) /\ \A n \in 1..Len(Driver.init) : ~(n < 1)
      <4> DEFINE len == Len(Driver.init)
      <4>1. len \in 1..9
        BY <3>4
      <4> HIDE DEF len
      <4>2. 1 \in 1..len /\ ~(1 > 1) /\ \A n \in 1..len : ~(n < 1)
        BY <4>1
      <4> QED BY <4>2 DEF len
    <3>6. Driver.init[1].what # "command"
      BY <3>3, <3>5 DEF WakesUp
    <3>7. Current(k)' = Driver.init[1]
      BY <3>1, <3>2 DEF Current
    <3> QED BY <3>1, <3>2, <3>4, <3>5, <3>6, <3>7
  <2>5. ReadyOnceWoken'
    <3> SUFFICES ASSUME NEW p \in Requests
                 PROVE  /\ reader'[p] \in {"check", "harvest"} => IsSet'
                        /\ reader'[p] = "init" /\ task'[<<p, 1>>].op = "over" => IsSet'
      BY DEF ReadyOnceWoken
    <3>1. reader'[p] = "init" => p = q
      BY <1>1, <1>3, StateTyped
    <3>2. task'[<<q, 1>>].op = "init"
      BY <2>2, <2>3
    <3>3. reader'[p] \in {"check", "harvest"} => reader[p] \in {"check", "harvest"}
      BY <1>3, <1>8, StateTyped
    <3> QED BY <1>5, <3>1, <3>2, <3>3 DEF Ready, ReadyOnceWoken
  <2>6. ReadyWhenActive'
    BY <1>5, <1>6 DEF ReadyWhenActive
  <2> QED BY <2>4, <2>5, <2>6 DEF Ready
<1> QED BY <1>7, <1>8

\* A request that is awake goes on; nobody's Init is disturbed.
LEMMA GoesOnReady ==
    ASSUME DriverInv, NEW q \in Requests, Awake(q) \/ Harvest(q) \/ Harvested(q), WokenUpOnce,
           UNCHANGED <<kind, chip, active>>
    PROVE  WokenUpOnce' /\ (WakesAlone => WakesAlone') /\ (Ready => Ready')
<1>1. /\ \A p \in Requests : reader'[p] = "init" => reader[p] = "init"
      /\ \A p \in Requests : p # q => reader'[p] = reader[p]
  BY StateTyped DEF Awake, Harvest, Harvested, ReaderGoes
<1>2. WokenUpOnce'
  BY <1>1 DEF WokenUpOnce
<1>9. WakesAlone => WakesAlone'
  <2> SUFFICES ASSUME WakesAlone, NEW p \in Requests, NEW r \in Requests, reader'[p] = "init",
                      reader'[r] \in {"check", "harvest"}
               PROVE  FALSE
    BY DEF WakesAlone
  <2>1. reader[p] = "init"
    BY <1>1
  <2>2. reader[r] \notin {"check", "harvest"}
    BY <2>1 DEF WakesAlone
  <2>3. r = q /\ reader[q] = "init" /\ reader'[q] # "init"
    BY <1>1, <2>2, StateTyped DEF Awake, Harvest, Harvested, ReaderGoes
  <2> QED BY <2>1, <2>3 DEF WokenUpOnce
<1> SUFFICES ASSUME Ready PROVE Ready'
  BY <1>2, <1>9
<1>3. IsSet' = IsSet
  BY SameParts DEF IsSet
<1>4. \A k \in Workers : task'[k] = task[k] \/ (task'[k] = Started("harvest") /\ k[1] = q /\ reader[q] = "check")
  BY TaskTyped DEF Awake, Harvest, Harvested, ReaderGoes
<1>5. \A k \in Workers : task'[k].op = "init" \/ task[k].op = "init" => task'[k] = task[k]
  <2> SUFFICES ASSUME NEW k \in Workers, task'[k] # task[k]
               PROVE  task'[k].op # "init" /\ task[k].op # "init"
    OBVIOUS
  <2>1. task'[k] = Started("harvest") /\ k[1] = q /\ reader[q] = "check"
    BY <1>4
  <2> QED BY <2>1, StartedType DEF DriverInv, RolesKept
<1>6. SetSoFar'
  <2> SUFFICES ASSUME NEW k \in Workers, task'[k].op = "init"
               PROVE  /\ \A n \in DOMAIN Program(k)' :
                            n < task'[k].at /\ Sets(Program(k)'[n]) =>
                                Program(k)'[n].register \in chip'.set \cup {"reset"}
                      /\ Current(k)'.what = "command" => chip'.latch = Current(k)'.register
    BY DEF SetSoFar, Sets, Workers
  <2>1. task'[k] = task[k]
    BY <1>5
  <2>2. Program(k)' = Program(k) /\ Current(k)' = Current(k)
    BY <2>1, SameProgram DEF Current
  <2> QED BY <2>1, <2>2 DEF Ready, SetSoFar
<1>7. ReadyOnceWoken'
  <2> SUFFICES ASSUME NEW p \in Requests
               PROVE  /\ reader'[p] \in {"check", "harvest"} => IsSet'
                      /\ reader'[p] = "init" /\ task'[<<p, 1>>].op = "over" => IsSet'
    BY DEF ReadyOnceWoken
  <2>1. CASE p # q
    <3>1. task'[<<p, 1>>] = task[<<p, 1>>]
      <4>1. <<p, 1>> \in Workers /\ <<p, 1>>[1] # q
        BY <2>1 DEF Workers
      <4> QED BY <1>4, <4>1
    <3> QED BY <1>1, <1>3, <2>1, <3>1 DEF Ready, ReadyOnceWoken
  <2>2. CASE p = q
    <3>1. reader'[q] \in {"check", "harvest"} =>
              \/ reader[q] = "init" /\ task[<<q, 1>>].op = "over"
              \/ reader[q] = "check"
      BY StateTyped DEF Awake, Harvest, Harvested, ReaderGoes
    <3>2. reader'[q] # "init"
      BY StateTyped DEF Awake, Harvest, Harvested, ReaderGoes
    <3> QED BY <1>3, <2>2, <3>1, <3>2 DEF Ready, ReadyOnceWoken
  <2> QED BY <2>1, <2>2
<1>8. ReadyWhenActive'
  <2>1. \A p \in Requests : task[<<p, 1>>].op = "init" => task'[<<p, 1>>] = task[<<p, 1>>]
    BY <1>5 DEF Workers
  <2> QED BY <1>3, <2>1 DEF Ready, ReadyWhenActive
<1> QED BY <1>6, <1>7, <1>8 DEF Ready

LEMMA ScanReady ==
    ASSUME DriverInv, NEW s \in Scans, Scan(s), Ready PROVE Ready'
<1>1. /\ UNCHANGED <<kind, reader, active, chip>>
      /\ task' = [task EXCEPT ![s] = Started("verify")] /\ task[s].op = "none"
  BY DEF Scan, driverVars
<1>2. IsSet' = IsSet
  BY <1>1, SameParts DEF IsSet
<1>3. \A k \in Workers : k # s => task'[k] = task[k]
  BY <1>1, TaskTyped
<1>4. task'[s].op = "verify"
  BY <1>1, TaskTyped, StartedType DEF Workers
<1>5. \A q \in Requests : <<q, 1>> # s /\ <<q, 1>> \in Workers
  BY DEF Workers
<1>6. SetSoFar'
  <2> SUFFICES ASSUME NEW k \in Workers, task'[k].op = "init"
               PROVE  /\ \A n \in DOMAIN Program(k)' :
                            n < task'[k].at /\ Sets(Program(k)'[n]) =>
                                Program(k)'[n].register \in chip'.set \cup {"reset"}
                      /\ Current(k)'.what = "command" => chip'.latch = Current(k)'.register
    BY DEF SetSoFar, Sets, Workers
  <2>1. task'[k] = task[k]
    BY <1>3, <1>4
  <2>2. Program(k)' = Program(k) /\ Current(k)' = Current(k)
    BY <1>1, <2>1, SameProgram DEF Current
  <2> QED BY <1>1, <2>1, <2>2 DEF Ready, SetSoFar
<1>7. \A q \in Requests : task'[<<q, 1>>] = task[<<q, 1>>]
  BY <1>3, <1>5
<1> QED BY <1>1, <1>2, <1>6, <1>7 DEF Ready, ReadyOnceWoken, ReadyWhenActive

\* Nothing but the sensor's activity changes.
LEMMA QuietReady ==
    ASSUME UNCHANGED <<kind, reader, task, chip>>, active' => active, Ready PROVE Ready'
<1>1. IsSet' = IsSet
  BY SameParts DEF IsSet
<1>2. SetSoFar'
  <2>1. \A k \in Workers : task'[k].op = "init" =>
            Program(k)' = Program(k) /\ Current(k)' = Current(k)
    BY SameProgram DEF Current
  <2> QED BY <2>1 DEF Ready, SetSoFar, Sets, Workers
<1> QED BY <1>1, <1>2 DEF Ready, ReadyOnceWoken, ReadyWhenActive

\* What a harvest delivers is of a chip that is set up.
LEMMA ReadyDelivered ==
    ASSUME ReadyInv, NEW k \in Workers, TaskStep(k) PROVE ReadySensors'
<1> USE DEF ReadyInv
<1>1. /\ shared' = shared /\ (flawed => flawed') /\ overtaken' = overtaken
      /\ kind' = kind /\ ResetUnder' = ResetUnder
  BY TaskStepEffect, FlawStays DEF ResetUnder
<1>2. CASE got' = got
  BY <1>1, <1>2 DEF ReadySensors
<1>3. CASE shared \/ flawed \/ ResetUnder
  BY <1>1, <1>3 DEF ReadySensors, ResetUnder
<1>4. CASE got' # got /\ ~shared /\ ~flawed /\ ~ResetUnder
  <2>1. /\ task[k].op = "harvest" /\ k[1] \in Requests
        /\ \A q \in Requests : q # k[1] => got'[q] = got[q]
        /\ \E from \in SUBSET {"own", "other", "blank"} :
              got'[k[1]] = got[k[1]] \cup from
                     \cup (IF Settings \subseteq chip.set THEN {} ELSE {"unready"})
    BY <1>4, Deliveries
  <2>2. reader[k[1]] = "harvest"
    BY <2>1 DEF DriverInv, RolesKept
  <2>3. Settings \subseteq chip.set
    BY <1>4, <2>1, <2>2 DEF Ready, ReadyOnceWoken, IsSet
  <2>4. "unready" \notin got'[k[1]]
    BY <1>4, <2>1, <2>3 DEF ReadySensors, ResetUnder
  <2> QED BY <1>4, <2>1, <2>4 DEF ReadySensors, ResetUnder
<1> QED BY <1>2, <1>3, <1>4

LEMMA ReadyKept == ASSUME ReadyInv, [Next]_vars PROVE ReadyInv'
<1> USE DEF ReadyInv
<1>1. DriverInv'
  BY DriverKept
<1>2. CASE \E k \in Workers : TaskStep(k)
  <2>1. PICK k \in Workers : TaskStep(k)
    BY <1>2
  <2>2. /\ shared' = shared /\ (flawed => flawed') /\ overtaken' = overtaken
        /\ ResetUnder' = ResetUnder
    BY <2>1, TaskStepEffect, FlawStays DEF ResetUnder
  <2>3. /\ ~shared => WokenUpOnce'
        /\ ~shared /\ ~overtaken => WakesAlone'
    BY <2>1, ReaderOfTask DEF WokenUpOnce, WakesAlone
  <2>4. ~shared /\ ~flawed' /\ ~ResetUnder => Ready'
    BY <2>1, <2>2, InitReady, OtherReady DEF ResetUnder
  <2> QED BY <1>1, <2>1, <2>2, <2>3, <2>4, ReadyDelivered
<1>3. CASE \E q \in Requests : ReaderStep(q)
  <2>1. PICK q \in Requests : ReaderStep(q)
    BY <1>3
  <2>2. /\ UNCHANGED <<kind, chip, active, got, flawed>>
        /\ (shared => shared') /\ (overtaken => overtaken')
    <3>1. UNCHANGED <<kind, chip, active, got, flawed>>
      BY <2>1 DEF ReaderStep, driverVars
    <3>2. CASE Begin(q)
      BY <3>1, <3>2 DEF Begin
    <3>3. CASE Awake(q) \/ Harvest(q) \/ Harvested(q)
      <4>1. shared' = shared /\ overtaken' = overtaken
        BY <3>3 DEF Awake, Harvest, Harvested
      <4> QED BY <3>1, <4>1
    <3> QED BY <2>1, <3>2, <3>3 DEF ReaderStep
  <2>3. ~shared' => WokenUpOnce' /\ (~overtaken' => WakesAlone') /\ (Ready => Ready')
    BY <2>1, <2>2, BeginReady, GoesOnReady DEF ReaderStep
  <2>4. ReadySensors' /\ (ResetUnder => ResetUnder')
    BY <2>2 DEF ReadySensors, ResetUnder
  <2> QED BY <1>1, <2>2, <2>3, <2>4
<1>4. CASE \E s \in Scans : Scan(s)
  <2>1. PICK s \in Scans : Scan(s)
    BY <1>4
  <2>2. UNCHANGED <<kind, reader, got, shared, overtaken, flawed>>
    BY <2>1 DEF Scan, historyVars
  <2>3. ~shared /\ ~flawed /\ ~ResetUnder => Ready'
    BY <2>1, ScanReady
  <2> QED BY <1>1, <2>2, <2>3 DEF WokenUpOnce, WakesAlone, ReadySensors, ResetUnder
<1>5. CASE Close
  <2>1. UNCHANGED <<kind, reader, task, chip, got, shared, overtaken, flawed>> /\ ~active'
    BY <1>5 DEF Close
  <2> QED BY <1>1, <2>1, QuietReady DEF WokenUpOnce, WakesAlone, ReadySensors, ResetUnder
<1>6. CASE UNCHANGED vars
  <2>1. UNCHANGED <<kind, reader, task, active, chip, got, shared, overtaken, flawed>>
    BY <1>6 DEF vars, driverVars, historyVars
  <2> QED BY <1>1, <2>1, QuietReady DEF WokenUpOnce, WakesAlone, ReadySensors, ResetUnder
<1> QED BY <1>2, <1>3, <1>4, <1>5, <1>6 DEF Next

LEMMA ReadyStarts == Init => ReadyInv
<1> SUFFICES ASSUME Init PROVE ReadyInv
  OBVIOUS
<1>1. \A k \in Workers : task[k].op = "none"
  BY StartedType DEF Init
<1>2. /\ \A q \in Requests : reader[q] = "idle" /\ got[q] = {}
      /\ ~active
  BY DEF Init
<1>3. SetSoFar
  BY <1>1 DEF SetSoFar
<1> QED BY <1>2, <1>3, DriverStarts
        DEF ReadyInv, Ready, ReadySensors, WokenUpOnce, WakesAlone, ReadyOnceWoken,
            ReadyWhenActive

\* A chip that is not set up is read only if two requests woke it up at once, a
\* step of its Init failed, or it is a CCS811 that was closed and reset by one
\* request before another's reading, although a sensor is active from Init's
\* first step: whatever closes and scans come between (I2C.Init, Init).
THEOREM SensorsReady == Spec => []ReadySensors
<1>1. ReadyInv => ReadySensors
  BY DEF ReadyInv
<1> QED BY <1>1, ReadyStarts, ReadyKept, PTL DEF Spec

--------------------------------------------------------------------------------
(* The library's driver is there when it is asked.                          *)

\* The drivers that ask it and look before.
Sensing == {"BMP280", "MAX30102", "ADC"}

\* An Init makes the library's driver, and finds none.
MadeByInit ==
    \A k \in Workers : task[k].op = "init" =>
        /\ device # "nil" <=> kind = "MAX30102" /\ task[k].at = 2
        /\ kind = "BMP280" /\ task[k].at = 2 => active

MadeForHarvest == \A q \in Requests : reader[q] = "harvest" => device # "nil"

\* A driver that has been made is active, and ADC's is made when it is.
MadeActive ==
    /\ device \in {"nil", "live"}
    /\ kind # "MAX30102" /\ device # "nil" => active
    /\ kind = "ADC" /\ active => device # "nil"

Made == MadeByInit /\ MadeForHarvest /\ MadeActive

PanicInv ==
    /\ DriverInv /\ PanicsOnlyIfClosed
    /\ ~shared => WokenUpOnce
    /\ kind \in Sensing /\ closes = 0 /\ ~shared => Made

\* The Inits of these drivers.
LEMMA SensingSteps ==
    ASSUME DriverInv, kind \in Sensing, NEW k \in Workers, task[k].op = "init"
    PROVE  \/ kind = "BMP280" /\ task[k].at = 1 /\ Current(k).what = "open" /\ Len(Program(k)) = 2
           \/ kind = "BMP280" /\ task[k].at = 2 /\ Current(k).what = "make" /\ Len(Program(k)) = 2
           \/ kind = "MAX30102" /\ task[k].at = 1 /\ Current(k).what = "make" /\ Len(Program(k)) = 2
           \/ kind = "MAX30102" /\ task[k].at = 2 /\ Current(k).what = "startup" /\ Len(Program(k)) = 2
           \/ kind = "ADC" /\ task[k].at = 1 /\ Current(k).what = "make" /\ Len(Program(k)) = 1
<1>1. task[k].at \in 1..Len(Program(k)) /\ Program(k) = Driver.init
  BY AtInProgram DEF Running, Program
<1>2. Step("startup", "", "return").what = "startup"
  BY DEF Step
<1>3. CASE kind = "BMP280"
  <2> DEFINE p == BMP280.init
  <2>1. Len(p) = 2 /\ p[1] = Open /\ p[2] = Make
    BY DEF BMP280
  <2>2. Program(k) = p
    BY <1>1, <1>3, DriverFields DEF Driver
  <2> HIDE DEF p
  <2>3. task[k].at \in 1..2
    BY <1>1, <2>1, <2>2
  <2>4. task[k].at = 1 \/ task[k].at = 2
    BY <2>3, OneOrTwo
  <2> QED BY <1>3, <2>1, <2>2, <2>4, StepFields DEF Current
<1>4. CASE kind = "MAX30102"
  <2> DEFINE p == MAX30102.init
  <2>1. Len(p) = 2 /\ p[1] = Make /\ p[2] = Step("startup", "", "return")
    BY DEF MAX30102
  <2>2. Program(k) = p
    BY <1>1, <1>4, DriverFields DEF Driver
  <2> HIDE DEF p
  <2>3. task[k].at \in 1..2
    BY <1>1, <2>1, <2>2
  <2>4. task[k].at = 1 \/ task[k].at = 2
    BY <2>3, OneOrTwo
  <2>5. p[1].what = "make" /\ p[2].what = "startup"
    BY <1>2, <2>1, StepFields
  <2> QED BY <1>4, <2>1, <2>2, <2>4, <2>5 DEF Current
<1>5. CASE kind = "ADC"
  <2> DEFINE p == ADC.init
  <2>1. Len(p) = 1 /\ p[1] = Make
    BY DEF ADC
  <2>2. Program(k) = p
    BY <1>1, <1>5, DriverFields DEF Driver
  <2> HIDE DEF p
  <2>3. task[k].at \in 1..1
    BY <1>1, <2>1, <2>2
  <2>4. task[k].at = 1
    BY <2>3
  <2> QED BY <1>5, <2>1, <2>2, <2>4, StepFields DEF Current
<1> QED BY <1>3, <1>4, <1>5 DEF Sensing

\* Who asks a driver that is not there.
LEMMA WhoPanics ==
    ASSUME PanicInv, ~panicked, NEW k \in Workers, TaskStep(k) PROVE PanicsOnlyIfClosed'
<1> USE DEF PanicInv
<1>1. Running(k) /\ UNCHANGED <<kind, closes, shared>>
  BY TaskStepEffect
<1>2. CASE panicked' = panicked
  BY <1>2 DEF PanicsOnlyIfClosed
<1>3. CASE kind \notin Sensing
  <2>1. CASE SenseStep(k)
    <3>1. task[k].op = "harvest" /\ Current(k).what = "sense"
      BY <1>1, <2>1, StepsOf DEF SenseStep, Doing, HarvestSteps
    <3>2. task[k].at \in 1..Len(Program(k)) /\ Reads(kind, Program(k))
      BY <1>1, <3>1, AtInProgram, Programs, TaskTyped DEF DriverInv
    <3>3. kind \in {"LSM303A", "LSM303M"}
      BY <1>3, <3>1, <3>2 DEF Reads, Current, Sensing
    <3> QED BY <1>1, <3>3 DEF PanicsOnlyIfClosed
  <2>2. CASE StartupStep(k)
    <3>1. task[k].op = "init" /\ Current(k).what = "startup"
      BY <1>1, <2>2, StepsOf DEF StartupStep, Doing, InitSteps
    <3>2. task[k].at \in 1..Len(Program(k)) /\ WakesUp(kind, Program(k))
      BY <1>1, <3>1, AtInProgram, Programs, TaskTyped DEF DriverInv
    <3>3. kind = "MAX30102"
      BY <3>1, <3>2 DEF WakesUp, Current
    <3> QED BY <1>3, <3>3 DEF Sensing
  <2>3. CASE ~SenseStep(k) /\ ~StartupStep(k)
    <3>1. panicked' = panicked
      BY <2>3 DEF TaskStep, OpenStep, MakeStep, LockStep, UnlockStep, WriteStep, CheckStep, PollStep,
                  ReadStep, FetchStep
    <3> QED BY <1>2, <3>1
  <2> QED BY <2>1, <2>2, <2>3
<1>4. CASE closes # 0 \/ shared
  BY <1>1, <1>4, TwoParts DEF PanicsOnlyIfClosed, OtherPart
<1>5. CASE kind \in Sensing /\ closes = 0 /\ ~shared
  <2>1. CASE SenseStep(k)
    <3>1. task[k].op = "harvest"
      BY <1>1, <2>1, StepsOf DEF SenseStep, Doing, HarvestSteps
    <3>2. k[1] \in Requests /\ reader[k[1]] = "harvest"
      BY <3>1 DEF DriverInv, RolesKept
    <3>3. device # "nil"
      BY <1>5, <3>2 DEF Made, MadeForHarvest
    <3> QED BY <1>2, <2>1, <3>3 DEF SenseStep
  <2>2. CASE StartupStep(k)
    <3>1. task[k].op = "init" /\ Current(k).what = "startup"
      BY <1>1, <2>2, StepsOf DEF StartupStep, Doing, InitSteps
    <3>2. device # "nil"
      BY <1>5, <3>1, SensingSteps DEF Made, MadeByInit
    <3> QED BY <1>2, <2>2, <3>2 DEF StartupStep
  <2>3. CASE ~SenseStep(k) /\ ~StartupStep(k)
    <3>1. panicked' = panicked
      BY <2>3 DEF TaskStep, OpenStep, MakeStep, LockStep, UnlockStep, WriteStep, CheckStep, PollStep,
                  ReadStep, FetchStep
    <3> QED BY <1>2, <3>1
  <2> QED BY <2>1, <2>2, <2>3
<1> QED BY <1>3, <1>4, <1>5

\* What an Init does to the driver underneath.
LEMMA MadeStep ==
    ASSUME DriverInv, WokenUpOnce, kind \in Sensing, Made, NEW k \in Workers, TaskStep(k),
           task[k].op = "init"
    PROVE  Made'
<1> USE DEF Made
<1>1. Running(k) /\ kind' = kind /\ TaskEffect(k)
  BY TaskStepEffect DEF StepEffect
<1>2. \A j \in Workers \ {k} : task'[j] = task[j] /\ task[j].op # "init"
  BY <1>1, OnlyInit DEF TaskEffect
<1>3. \A q \in Requests : reader'[q] = "harvest" => reader[q] = "harvest"
  BY ReaderOfTask
<1>4. /\ device # "nil" <=> kind = "MAX30102" /\ task[k].at = 2
      /\ kind = "BMP280" /\ task[k].at = 2 => active
  BY DEF MadeByInit
<1>5. \/ Current(k).what = "open" /\ kind = "BMP280" /\ task[k].at = 1
      \/ Current(k).what = "make" /\ kind = "BMP280" /\ task[k].at = 2 /\ Len(Program(k)) = 2
      \/ Current(k).what = "make" /\ kind = "MAX30102" /\ task[k].at = 1
      \/ Current(k).what = "make" /\ kind = "ADC" /\ task[k].at = 1 /\ Len(Program(k)) = 1
      \/ Current(k).what = "startup" /\ kind = "MAX30102" /\ task[k].at = 2 /\ Len(Program(k)) = 2
  BY SensingSteps
<1>6. OpenStep(k) \/ MakeStep(k) \/ StartupStep(k)
  <2>1. Current(k).what \in {"open", "make", "startup"}
    BY <1>5
  <2> QED BY <2>1 DEF TaskStep, LockStep, UnlockStep, WriteStep, CheckStep, PollStep, ReadStep,
                      FetchStep, SenseStep, Doing
\* An Init that is over leaves no other.
<1>7. ASSUME task'[k].op # "init", MadeActive', device' = "nil" => device = "nil"
      PROVE  Made'
  <2>1. \A j \in Workers : task'[j].op # "init"
    BY <1>2, <1>7
  <2> QED BY <1>3, <1>7, <2>1 DEF MadeByInit, MadeForHarvest, Workers
<1>8. Return(k) => task'[k].op # "init"
  BY <1>1, ReturnEffect DEF Started
<1>9. Advance(k) /\ task[k].at + 1 > Len(Program(k)) => task'[k].op # "init"
  BY <1>1, NextEffect DEF Started
<1>10. Advance(k) => task'[k].op # "init" \/ task'[k].at = task[k].at + 1
  <2>1. task[k].at + 1 <= Len(Program(k)) \/ task[k].at + 1 > Len(Program(k))
    <3>1. task[k].at + 1 \in Nat /\ Len(Program(k)) \in Nat
      BY <1>1, AtInProgram
    <3> QED BY <3>1
  <2> QED BY <1>1, <1>9, <2>1, NextEffect
<1>11. CASE OpenStep(k)
  <2>1. kind = "BMP280" /\ task[k].at = 1 /\ device = "nil" /\ device' = device
    BY <1>4, <1>5, <1>11 DEF OpenStep, Doing
  <2>2. CASE Return(k) /\ active' = active
    BY <1>1, <1>7, <1>8, <2>1, <2>2 DEF MadeActive
  <2>3. CASE Advance(k) /\ active' = TRUE
    <3>1. \A j \in Workers : task'[j].op = "init" => j = k
      BY <1>2
    <3>2. MadeForHarvest'
      BY <1>3, <2>1 DEF MadeForHarvest
    <3> QED BY <1>1, <2>1, <2>3, <3>1, <3>2 DEF MadeByInit, MadeActive, Workers
  <2> QED BY <1>11, <2>2, <2>3 DEF OpenStep
<1>12. CASE MakeStep(k)
  <2>1. device = "nil" /\ (kind = "BMP280" => active) /\ Current(k).what = "make"
    BY <1>4, <1>5, <1>12 DEF MakeStep, Doing
  <2>2. CASE device' = "nil" /\ Return(k) /\ active' = active
    BY <1>1, <1>7, <1>8, <2>1, <2>2 DEF MadeActive
  <2>3. CASE device' = "live" /\ active' = (active \/ kind = "ADC") /\ Advance(k)
    <3>1. MadeActive'
      BY <1>1, <1>5, <2>1, <2>3 DEF MadeActive
    <3>2. CASE kind \in {"BMP280", "ADC"}
      <4>1. (task[k].at = 2 /\ Len(Program(k)) = 2) \/ (task[k].at = 1 /\ Len(Program(k)) = 1)
        BY <1>5, <2>1, <3>2
      <4>2. task[k].at + 1 > Len(Program(k))
        <5>1. CASE task[k].at = 2 /\ Len(Program(k)) = 2
          BY <5>1
        <5>2. CASE task[k].at = 1 /\ Len(Program(k)) = 1
          BY <5>2
        <5> QED BY <4>1, <5>1, <5>2
      <4>3. task'[k].op # "init"
        BY <1>9, <2>3, <4>2
      <4> QED BY <1>7, <2>1, <2>3, <3>1, <4>3
    <3>3. CASE kind = "MAX30102"
      <4>1. task'[k].op = "init" => task'[k].at = 2
        BY <1>5, <1>10, <2>1, <2>3, <3>3
      <4>2. \A j \in Workers : task'[j].op = "init" => j = k
        BY <1>2
      <4> QED BY <1>1, <2>3, <3>1, <3>3, <4>1, <4>2 DEF MadeByInit, MadeForHarvest, Workers
    <3> QED BY <3>2, <3>3 DEF Sensing
  <2> QED BY <1>12, <2>2, <2>3 DEF MakeStep
<1>13. CASE StartupStep(k)
  <2>1. kind = "MAX30102" /\ task[k].at = 2 /\ UNCHANGED <<active, device>> /\ device # "nil"
    BY <1>4, <1>5, <1>13 DEF StartupStep, Doing, driverVars
  <2>2. Advance(k) \/ Return(k)
    BY <1>13, <2>1 DEF StartupStep
  <2>3. task'[k].op # "init"
    <3>1. task[k].at = 2 /\ Len(Program(k)) = 2
      BY <1>5, <2>1
    <3>2. task[k].at + 1 > Len(Program(k))
      BY <3>1
    <3> QED BY <1>8, <1>9, <2>2, <3>2
  <2> QED BY <1>1, <1>7, <2>1, <2>3 DEF MadeActive
<1> QED BY <1>6, <1>11, <1>12, <1>13

\* The others leave it, and what is active, as it is.
LEMMA OtherMade ==
    ASSUME DriverInv, Made, NEW k \in Workers, TaskStep(k), task[k].op # "init"
    PROVE  Made'
<1> USE DEF Made
<1>1. Running(k) /\ kind' = kind /\ TaskEffect(k)
  BY TaskStepEffect DEF StepEffect
<1>2. active' = active /\ reader' = reader
  BY OtherStep
<1>3. device' = device
  <2>1. ~MakeStep(k)
    BY <1>1, StepsOf DEF MakeStep, Doing, InitSteps
  <2> QED BY <2>1 DEF TaskStep, OpenStep, StartupStep, LockStep, UnlockStep, WriteStep, CheckStep,
                      PollStep, ReadStep, FetchStep, SenseStep, driverVars
<1>4. \A j \in Workers : task'[j].op = "init" => task'[j] = task[j]
  BY <1>1 DEF TaskEffect, Started
<1>5. MadeByInit'
  BY <1>1, <1>2, <1>3, <1>4 DEF MadeByInit, Workers
<1> QED BY <1>1, <1>2, <1>3, <1>5 DEF MadeForHarvest, MadeActive

\* A request wakes up a sensor whose driver is not there, and harvests one whose is.
LEMMA ReaderMade ==
    ASSUME DriverInv, kind \in Sensing, Made, NEW q \in Requests, ReaderStep(q) PROVE Made'
<1> USE DEF Made
<1>1. UNCHANGED <<kind, active, device>>
  BY DEF ReaderStep, driverVars
<1>2. Active => device # "nil"
  BY DEF Active, MadeActive, Sensing
<1>3. ~Active => device = "nil"
  BY DEF Active, MadeActive, Sensing
<1>4. MadeForHarvest'
  <2>1. \A p \in Requests : reader'[p] = "harvest" => reader[p] = "harvest" \/ Active
    BY StateTyped DEF ReaderStep, Begin, Awake, Harvest, Harvested, ReaderGoes
  <2> QED BY <1>1, <1>2, <2>1 DEF MadeForHarvest
<1>5. MadeByInit'
  <2> SUFFICES ASSUME NEW k \in Workers, task'[k].op = "init"
               PROVE  /\ device # "nil" <=> kind = "MAX30102" /\ task'[k].at = 2
                      /\ kind = "BMP280" /\ task'[k].at = 2 => active
    BY <1>1 DEF MadeByInit, Workers
  <2>1. \/ task'[k] = task[k]
        \/ task'[k] = Started("init") /\ ~Active
        \/ task'[k] = Started("harvest")
    BY TaskTyped DEF ReaderStep, Begin, Awake, Harvest, Harvested
  <2>2. CASE task'[k] = task[k]
    BY <2>2 DEF MadeByInit
  <2>3. CASE task'[k] = Started("init") /\ ~Active
    <3>1. task'[k].at = 1 /\ 1 # 2
      BY <2>3, StartedType
    <3> QED BY <1>3, <2>3, <3>1
  <2>4. CASE task'[k] = Started("harvest")
    BY <2>4, StartedType
  <2> QED BY <2>1, <2>2, <2>3, <2>4
<1> QED BY <1>1, <1>4, <1>5 DEF MadeActive

LEMMA PanicsKept == ASSUME PanicInv, [Next]_vars PROVE PanicInv'
<1> USE DEF PanicInv
<1>1. DriverInv'
  BY DriverKept
<1>2. CASE ~panicked /\ \E k \in Workers : TaskStep(k)
  <2>1. PICK k \in Workers : TaskStep(k)
    BY <1>2
  <2>2. UNCHANGED <<kind, closes, shared>>
    BY <2>1, TaskStepEffect
  <2>3. ~shared => WokenUpOnce'
    BY <2>1, ReaderOfTask DEF WokenUpOnce
  <2>4. kind \in Sensing /\ closes = 0 /\ ~shared => Made'
    BY <2>1, MadeStep, OtherMade
  <2> QED BY <1>1, <1>2, <2>1, <2>2, <2>3, <2>4, WhoPanics
<1>3. CASE \E q \in Requests : ReaderStep(q)
  <2>1. PICK q \in Requests : ReaderStep(q)
    BY <1>3
  <2>2. UNCHANGED <<kind, closes, panicked>>
    BY <2>1 DEF ReaderStep
  <2>3. (shared => shared') /\ (~shared' => WokenUpOnce')
    <3>1. CASE Begin(q)
      <4>1. ~shared' => \A p \in Requests : reader[p] # "init"
        BY <3>1 DEF Begin
      <4>2. \E to : reader' = [reader EXCEPT ![q] = to]
        BY <3>1 DEF Begin, ReaderGoes
      <4>3. ~shared' => WokenUpOnce'
        BY <4>1, <4>2, StateTyped DEF WokenUpOnce
      <4>4. shared => shared'
        BY <3>1 DEF Begin
      <4> QED BY <4>3, <4>4
    <3>2. CASE Awake(q) \/ Harvest(q) \/ Harvested(q)
      <4>1. shared' = shared /\ \A p \in Requests : reader'[p] = "init" => reader[p] = "init"
        BY <3>2, StateTyped DEF Awake, Harvest, Harvested, ReaderGoes
      <4> QED BY <4>1 DEF WokenUpOnce
    <3> QED BY <2>1, <3>1, <3>2 DEF ReaderStep
  <2>4. kind \in Sensing /\ closes = 0 /\ ~shared => Made'
    BY <2>1, ReaderMade
  <2>5. PanicsOnlyIfClosed'
    BY <2>2, <2>3 DEF PanicsOnlyIfClosed
  <2> QED BY <1>1, <2>2, <2>3, <2>4, <2>5
<1>4. CASE \E s \in Scans : Scan(s)
  <2>1. PICK s \in Scans : Scan(s)
    BY <1>4
  <2>2. UNCHANGED <<kind, reader, active, device, closes, shared, panicked>>
    BY <2>1 DEF Scan, driverVars, historyVars
  <2>3. \A k \in Workers : task'[k].op = "init" => task'[k] = task[k]
    BY <2>1, TaskTyped, StartedType DEF Scan
  <2>4. MadeByInit => MadeByInit'
    BY <2>2, <2>3 DEF MadeByInit, Workers
  <2> QED BY <1>1, <2>2, <2>4 DEF PanicsOnlyIfClosed, WokenUpOnce, Made, MadeForHarvest, MadeActive
<1>5. CASE Close
  <2>1. closes' > 0 /\ UNCHANGED <<reader, shared>>
    BY <1>5, TwoParts DEF Close, OtherPart
  <2> QED BY <1>1, <2>1 DEF PanicsOnlyIfClosed, WokenUpOnce
<1>6. CASE UNCHANGED vars
  <2>1. UNCHANGED <<kind, reader, task, active, device, closes, shared, panicked>>
    BY <1>6 DEF vars, driverVars, historyVars
  <2>2. MadeByInit => MadeByInit'
    BY <2>1 DEF MadeByInit, Workers
  <2> QED BY <1>1, <2>1, <2>2 DEF PanicsOnlyIfClosed, WokenUpOnce, Made, MadeForHarvest, MadeActive
<1> QED BY <1>2, <1>3, <1>4, <1>5, <1>6 DEF Next

LEMMA PanicsStart == Init => PanicInv
<1> SUFFICES ASSUME Init PROVE PanicInv
  OBVIOUS
<1>1. \A k \in Workers : task[k].op = "none"
  BY StartedType DEF Init
<1>2. /\ \A q \in Requests : reader[q] = "idle"
      /\ ~active /\ device = "nil" /\ ~panicked
  BY DEF Init
<1>3. MadeByInit
  BY <1>1 DEF MadeByInit
<1> QED BY <1>2, <1>3, DriverStarts
        DEF PanicInv, Made, PanicsOnlyIfClosed, WokenUpOnce, MadeForHarvest, MadeActive

\* BMP280, MAX30102 and the ADC never ask a library's driver that is nil unless
\* the sensor was closed or woken up twice at once, and no other driver than
\* LSM303's does: whatever fails, and however often it is woken up.
THEOREM PanicsOfClosed == Spec => []PanicsOnlyIfClosed
<1>1. PanicInv => PanicsOnlyIfClosed
  BY DEF PanicInv
<1> QED BY <1>1, PanicsStart, PanicsKept, PTL DEF Spec
================================================================================
