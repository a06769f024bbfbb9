------------------------------- MODULE Sensor -------------------------------
(***************************************************************************)
(* The sensor module: the drivers' lists of requested devices (pool), what *)
(* they make of the registers they read (readings), and the search in the  *)
(* platform's table.  The bus modules are external: a module, a handle and *)
(* a transfer may each be refused, and a gpio or adc channel has one       *)
(* holder.  A device is named by its driver and its channel.               *)
(*                                                                         *)
(* Some drivers free a node and then read it; with nothing allocated in    *)
(* between its fields are still there, and that is what is modelled.       *)
(* Whether char is signed is the compiler's choice.                        *)
(***************************************************************************)
EXTENDS Integers, Sequences, FiniteSets

CONSTANTS
  SensorChannels,  \* bus ids and pins
  MaxHeld          \* handles of one device the application holds at a time

ASSUME SensorAssumption == IsFiniteSet(SensorChannels) /\ MaxHeld \in Nat

Drivers == {"hts221", "k6ds3", "lps25hbtr", "cm3323e", "accelerometer", "s5712ccdl1",
            "proximity", "flame", "temperature", "humidity", "light"}
SensorBuses == {"i2c", "spi", "gpio", "adc"}

BusOf(d) == CASE d \in {"hts221", "lps25hbtr", "cm3323e", "accelerometer"} -> "i2c"
              [] d = "k6ds3" -> "spi"
              [] d \in {"s5712ccdl1", "proximity", "flame"} -> "gpio"
              [] OTHER -> "adc"

VARIABLES
  snPool,    \* nodes of the lists, references to the bus modules, open handles
  snHeld,    \* handles the application was given with S_OK and has not released
  snCause,   \* devices whose request ended in a way that explains a mismatch
  snSigned,  \* char is signed
  snReading  \* what a device measured, or a table, and what was made of it

snVars == <<snPool, snHeld, snCause, snSigned, snReading>>

Devices == Drivers \X SensorChannels
NoReading == [of |-> "none"]

SensorInit ==
  /\ snPool = [nodes |-> <<>>, refs |-> [b \in SensorBuses |-> 0], open |-> {}]
  /\ snHeld = [k \in Devices |-> 0]
  /\ snCause = {} /\ snSigned \in BOOLEAN /\ snReading = NoReading

-----------------------------------------------------------------------------
(* The pool.                                                               *)

Requested(p) == DOMAIN p.nodes

\* artik_list_add, artik_request_api_module and the request of the bus.
WithNode(p, k) ==
  [p EXCEPT !.nodes = [x \in Requested(p) \cup {k} |-> IF x = k THEN [count |-> 1, module |-> FALSE] ELSE @[x]]]

WithModule(p, k) == [p EXCEPT !.nodes[k].module = TRUE, !.refs[BusOf(k[1])] = @ + 1]

WithHandle(p, k) == [p EXCEPT !.open = @ \cup {k}]

\* The node leaves the list; handle and module go if the module was got.
Releases(p, k) ==
  [nodes |-> [x \in Requested(p) \ {k} |-> p.nodes[x]],
   refs |-> [p.refs EXCEPT ![BusOf(k[1])] = @ - (IF p.nodes[k].module THEN 1 ELSE 0)],
   open |-> IF p.nodes[k].module THEN p.open \ {k} ELSE p.open]

\* The drivers that count their instances.
SharedRelease(p, k) ==
  IF k \notin Requested(p) THEN p
  ELSE IF p.nodes[k].count > 1 THEN [p EXCEPT !.nodes[k].count = @ - 1]
  ELSE Releases(p, k)

SoleRelease(p, k) == IF k \in Requested(p) THEN Releases(p, k) ELSE p

hts221_release(p, k) == SharedRelease(p, k)
k6ds3_release(p, k) == SharedRelease(p, k)
lps25hbtr_release(p, k) == SoleRelease(p, k)
cm3323e_release(p, k) == SoleRelease(p, k)
accelerometer_release(p, k) == SoleRelease(p, k)
s5712ccdl1_release(p, k) == SoleRelease(p, k)
proximity_release(p, k) == SoleRelease(p, k)
flame_release(p, k) == SoleRelease(p, k)
temperature_release(p, k) == SoleRelease(p, k)
humidity_release(p, k) == SoleRelease(p, k)
light_release(p, k) == SoleRelease(p, k)

\* Each driver calls its own.
DriverRelease(p, k) ==
  CASE k[1] = "hts221" -> hts221_release(p, k)
    [] k[1] = "k6ds3" -> k6ds3_release(p, k)
    [] k[1] = "lps25hbtr" -> lps25hbtr_release(p, k)
    [] k[1] = "cm3323e" -> cm3323e_release(p, k)
    [] k[1] = "accelerometer" -> accelerometer_release(p, k)
    [] k[1] = "s5712ccdl1" -> s5712ccdl1_release(p, k)
    [] k[1] = "proximity" -> proximity_release(p, k)
    [] k[1] = "flame" -> flame_release(p, k)
    [] k[1] = "temperature" -> temperature_release(p, k)
    [] k[1] = "humidity" -> humidity_release(p, k)
    [] k[1] = "light" -> light_release(p, k)

\* The bus gives out a handle, of a pin or a channel to one at a time.
MayOpen(p, k) ==
  BusOf(k[1]) \in {"gpio", "adc"} => \A o \in p.open : BusOf(o[1]) = BusOf(k[1]) => o[2] # k[2]

\* The request returns, with S_OK or not.
Answers(p, k, ok) ==
  /\ snPool' = p
  /\ snHeld' = [snHeld EXCEPT ![k] = IF ok THEN @ + 1 ELSE @]
  /\ UNCHANGED <<snSigned, snReading>>

Asks(k) == snHeld[k] < MaxHeld

\* A device that is requested already is shared, or refused with E_BUSY.
Shares(k) ==
  /\ Asks(k) /\ k \in Requested(snPool)
  /\ Answers([snPool EXCEPT !.nodes[k].count = @ + 1], k, TRUE)
  /\ UNCHANGED snCause

Refuses(k) == Asks(k) /\ k \in Requested(snPool) /\ UNCHANGED snVars

\* Mutant: a device that does not start keeps its node.
OpensKeepsUnstarted(k, starts) ==
  /\ Asks(k) /\ k \notin Requested(snPool)
  /\ LET added == WithNode(snPool, k)
         got == WithModule(added, k)
     IN  \/ Answers(DriverRelease(got, k), k, FALSE)
         \/ \E ok \in starts : Answers(WithHandle(got, k), k, ok)
  /\ UNCHANGED snCause

\* A node is added, the module and a handle requested, the device started
\* ("starts" is what initialize may answer); each failure releases the node.
Opens(k, starts) ==
  /\ Asks(k) /\ k \notin Requested(snPool)
  /\ LET added == WithNode(snPool, k)
         got == WithModule(added, k)
         open == WithHandle(got, k)
     IN  \/ Answers(DriverRelease(added, k), k, FALSE)
         \/ Answers(DriverRelease(got, k), k, FALSE)
         \/ /\ MayOpen(snPool, k)
            /\ \E ok \in starts : Answers(IF ok THEN open ELSE DriverRelease(open, k), k, ok)
  /\ UNCHANGED snCause

\* The identity, a char, is compared with a number above 127: where char is
\* signed they are never equal.
hts221_initialize == IF snSigned THEN {FALSE} ELSE BOOLEAN
lps25hbtr_initialize == IF snSigned THEN {FALSE} ELSE BOOLEAN
k6ds3_initialize == BOOLEAN
cm3323e_initialize == BOOLEAN

hts221_request(k) == k[1] = "hts221" /\ (Shares(k) \/ Opens(k, hts221_initialize))
k6ds3_request(k) == k[1] = "k6ds3" /\ (Shares(k) \/ Opens(k, k6ds3_initialize))
lps25hbtr_request(k) == k[1] = "lps25hbtr" /\ (Refuses(k) \/ Opens(k, lps25hbtr_initialize))
cm3323e_request(k) == k[1] = "cm3323e" /\ (Refuses(k) \/ Opens(k, cm3323e_initialize))
s5712ccdl1_request(k) == k[1] = "s5712ccdl1" /\ (Refuses(k) \/ Opens(k, {TRUE}))
proximity_request(k) == k[1] = "proximity" /\ (Refuses(k) \/ Opens(k, {TRUE}))
flame_request(k) == k[1] = "flame" /\ (Refuses(k) \/ Opens(k, {TRUE}))
temperature_request(k) == k[1] = "temperature" /\ (Refuses(k) \/ Opens(k, {TRUE}))
humidity_request(k) == k[1] = "humidity" /\ (Refuses(k) \/ Opens(k, {TRUE}))
light_request(k) == k[1] = "light" /\ (Refuses(k) \/ Opens(k, {TRUE}))

\* A device with another identity is released, and S_OK returned all the
\* same; one that refuses the write that starts it stays on the list, and the
\* error is returned.
AccelerometerStarts(k) ==
  /\ Asks(k) /\ k \notin Requested(snPool)
  /\ LET open == WithHandle(WithModule(WithNode(snPool, k), k), k)
     IN  \/ Answers(accelerometer_release(open, k), k, TRUE)
         \/ Answers(open, k, FALSE)
  /\ snCause' = snCause \cup {k}

accelerometer_request(k) ==
  /\ k[1] = "accelerometer"
  /\ Refuses(k) \/ Opens(k, BOOLEAN) \/ AccelerometerStarts(k)

\* The application releases a handle it was given.
Released(k) ==
  /\ snHeld[k] > 0
  /\ snPool' = DriverRelease(snPool, k)
  /\ snHeld' = [snHeld EXCEPT ![k] = @ - 1]
  /\ UNCHANGED <<snCause, snSigned, snReading>>

os_sensor_request(k) ==
  \/ hts221_request(k) \/ k6ds3_request(k) \/ lps25hbtr_request(k) \/ cm3323e_request(k)
  \/ s5712ccdl1_request(k) \/ proximity_request(k) \/ flame_request(k)
  \/ temperature_request(k) \/ humidity_request(k) \/ light_request(k) \/ accelerometer_request(k)

SensorNext == \E k \in Devices : os_sensor_request(k) \/ Released(k)

-----------------------------------------------------------------------------
(* Readings: integers as C computes them, from what a device measured.     *)

Magnitude(a) == IF a < 0 THEN -a ELSE a

\* Division and conversion to int truncate.
Trunc(a, b) == IF (a < 0) = (b < 0) THEN Magnitude(a) \div Magnitude(b) ELSE -(Magnitude(a) \div Magnitude(b))

\* Two bytes as a short, a byte as a char.
ToShort(n) == IF n >= 32768 THEN n - 65536 ELSE n
ToChar(n) == IF snSigned /\ n >= 128 THEN n - 256 ELSE n
Byte(v, i) == (v \div 256 ^ i) % 256

\* The line through two calibration points, in doubles: where the result is a
\* whole number, a rounding error makes it the next one towards zero.
Interpolate(out, c0, c1, o0, o1, scale) ==
  LET num == (c1 - c0) * (out - o0) + c0 * (o1 - o0)
      den == scale * (o1 - o0)
      whole == Trunc(num, den)
  IN  {whole} \cup (IF whole * den = num /\ out # o0
                    THEN {whole + (IF whole > 0 THEN -1 ELSE IF whole < 0 THEN 1 ELSE 0)} ELSE {})

hts221_get_humidity(out, c0, c1, o0, o1) == Interpolate(out, c0, c1, o0, o1, 2)

\* The two upper bits of the calibration temperatures are in one register.
hts221_get_celsius(out, low0, low1, mask, o0, o1) ==
  Interpolate(out, low0 + (256 * (mask % 4)), low1 + (256 * ((mask \div 4) % 4)), o0, o1, 8)

hts221_get_fahrenheit(c) == Trunc(c * 9, 5) + 32

\* Mutant: the two bytes are taken as an unsigned number.
DataUnsigned(low, high) == 256 * high + low

k6ds3_get_data(low, high) == ToShort(256 * high + low)

\* A read that fails makes the speed 0, and S_OK is returned.
accelerometer_get_speed(low, high, ok) == IF ok THEN ToShort(256 * high + low) ELSE 0

\* The or of three chars: a negative one has every bit above it set.
lps25hbtr_get_pressure(b0, b1, b2) ==
  Trunc(IF ToChar(b0) < 0 THEN ToChar(b0)
        ELSE IF ToChar(b1) < 0 THEN ToChar(b1) * 256 + b0
        ELSE ToChar(b2) * 65536 + b1 * 256 + b0, 4096)

lps25hbtr_get_celsius(data) == Trunc(2 * Trunc(data, 480) + 85, 2)

lps25hbtr_get_fahrenheit(data) == Trunc(Trunc(2 * Trunc(data, 480) + 85, 2) * 9, 5) + 32

cm3323e_get_intensity(data) == (data * 100) \div 65535

temperature_get_celsius(res) == IF res > 0 THEN (res * 3025) \div 102400 ELSE 0

temperature_get_fahrenheit(res) ==
  LET c == temperature_get_celsius(res) IN IF c > 0 THEN (c * 9) \div 5 + 32 ELSE 0

humidity_get_humidity(res) == IF res > 0 THEN Trunc(500 * res - 81920, 31744) ELSE 0

light_get_intensity(res) == IF res > 0 THEN Trunc(1000 - res, 10) ELSE 0

\* A read that fails is a negative number, and reads as nothing there.
s5712ccdl1_get_detection(res) == IF res # 0 THEN 0 ELSE 1
flame_get_signals(res) == IF res = 0 THEN 1 ELSE 0
proximity_get_presence(res) == IF res = 0 THEN 1 ELSE 0

\* The nb-th sensor of a type in a table that "none" ends, by its position, or
\* 0: the loop of Linux and the one of TizenRT.
os_sensor_get(t, nb, type) ==
  LET seek[p \in DOMAIN t, ref \in DOMAIN t] ==
        IF ref - 1 > nb \/ t[p] = "none" THEN 0
        ELSE IF t[p] # type THEN seek[p + 1, ref]
        ELSE IF ref - 1 < nb THEN seek[p + 1, ref + 1] ELSE p
  IN  seek[1, 1]

tiny_sensor_get(t, nb, type) ==
  LET seek[p \in DOMAIN t, ref \in DOMAIN t] ==
        IF t[p] = "none" THEN 0
        ELSE IF t[p] = type /\ ref - 1 >= nb THEN p
        ELSE seek[p + 1, IF t[p] = type THEN ref + 1 ELSE ref]
  IN  seek[1, 1]

\* Measurements at the edges of their types.
Shorts == {-32768, -256, -1, 0, 1, 255, 256, 480, 32767}
Words == {n % 65536 : n \in Shorts}
Pressures == {0, 127, 128, 4096, 33000, 1013 * 4096, 8388607}
TenBits == {3, 300, 1023}
AdcValues == {0, 1, 33, 34, 163, 500, 1000, 1001, 1023}
Tables == {t \in [1..4 -> {"light", "hall", "none"}] : t[4] = "none"}

Measures(r) == snReading = NoReading /\ snReading' = r /\ UNCHANGED <<snPool, snHeld, snCause, snSigned>>

ReadingNext ==
  \/ \E c0, c1 \in {0, 3, 40}, o0, o1 \in {-2, 0, 3}, out \in -3..4 : o0 # o1 /\
       \E v \in hts221_get_humidity(out, c0, c1, o0, o1) :
         Measures([of |-> "line", out |-> out, c |-> <<c0, c1>>, o |-> <<o0, o1>>, scale |-> 2, value |-> v])
  \/ \E c0, c1 \in TenBits, o0, o1 \in {-1, 2}, out \in -1..3 : o0 # o1 /\
       \E v \in hts221_get_celsius(out, c0 % 256, c1 % 256, c0 \div 256 + 4 * (c1 \div 256), o0, o1) :
         Measures([of |-> "line", out |-> out, c |-> <<c0, c1>>, o |-> <<o0, o1>>, scale |-> 8, value |-> v])
  \/ \E v \in Shorts :
       \/ Measures([of |-> "short", true |-> v, value |-> k6ds3_get_data(Byte(v, 0), Byte(v, 1))])
       \/ Measures([of |-> "short", true |-> v, value |-> accelerometer_get_speed(Byte(v, 0), Byte(v, 1), TRUE)])
       \/ Measures([of |-> "short", true |-> 0, value |-> accelerometer_get_speed(Byte(v, 0), Byte(v, 1), FALSE)])
       \/ Measures([of |-> "degrees", c |-> lps25hbtr_get_celsius(v), f |-> lps25hbtr_get_fahrenheit(v)])
  \/ \E v \in Pressures :
       Measures([of |-> "pressure", true |-> v, value |-> lps25hbtr_get_pressure(Byte(v, 0), Byte(v, 1), Byte(v, 2))])
  \/ \E c \in -40..120 : Measures([of |-> "degrees", c |-> c, f |-> hts221_get_fahrenheit(c)])
  \/ \E v \in Words : Measures([of |-> "percent", raw |-> 0, value |-> cm3323e_get_intensity(v)])
  \/ \E res \in AdcValues :
       \/ temperature_get_celsius(res) > 0 /\
            Measures([of |-> "degrees", c |-> temperature_get_celsius(res), f |-> temperature_get_fahrenheit(res)])
       \/ Measures([of |-> "percent", raw |-> res, value |-> light_get_intensity(res)])
       \/ Measures([of |-> "wet", raw |-> res, value |-> humidity_get_humidity(res)])
  \/ \E res \in {-1, 0, 1} :
       Measures([of |-> "pin", value |-> <<s5712ccdl1_get_detection(res), flame_get_signals(res), proximity_get_presence(res)>>])
  \/ \E t \in Tables, nb \in 0..2, type \in {"light", "hall"} :
       Measures([of |-> "table", t |-> t, nb |-> nb, type |-> type,
              value |-> <<os_sensor_get(t, nb, type), tiny_sensor_get(t, nb, type)>>])

-----------------------------------------------------------------------------
(* Properties.                                                             *)

\* Nodes are counted from one, references from zero, and an open handle is
\* one of a node.
SensorTypeOK ==
  /\ Requested(snPool) \subseteq Devices /\ \A k \in Requested(snPool) : snPool.nodes[k].count \in 1..MaxHeld
  /\ snPool.refs \in [SensorBuses -> Nat] /\ snPool.open \subseteq Requested(snPool)
  /\ snHeld \in [Devices -> 0..MaxHeld]

\* A device that was given to the application with S_OK stays requested until
\* the last of its handles is released, shared by the two functions of a chip
\* as well: except where an accelerometer's identity was wrong.
HeldIsListed ==
  \A k \in Devices : snHeld[k] > 0 /\ k \notin snCause =>
    k \in snPool.open /\ snPool.nodes[k].count = snHeld[k]

\* A device that nobody holds can be requested: every failure and the last
\* release take its node off the list, except an accelerometer's that refused
\* to start.
ListedIsHeld == \A k \in Requested(snPool) : snHeld[k] > 0 \/ k \in snCause

\* Every node holds one reference to its bus module, also where a request
\* fails halfway.
BusBalanced ==
  \A b \in SensorBuses : snPool.refs[b] = Cardinality({k \in Requested(snPool) : BusOf(k[1]) = b})

\* Between its calibration points a sensor reads between the values they
\* stand for, and at them these values, to one unit.
InterpolatesBetween ==
  snReading.of = "line" =>
    LET r == snReading
        At(i) == Trunc(r.c[i], r.scale)
        low == IF At(1) < At(2) THEN At(1) ELSE At(2)
        high == At(1) + At(2) - low
    IN  /\ (r.out - r.o[1]) * (r.out - r.o[2]) <= 0 => r.value \in (low - 1)..(high + 1)
        /\ \A i \in 1..2 : r.out = r.o[i] => Magnitude(r.value - At(i)) <= 1

\* A signed 16-bit measurement is read as it is, whatever its bytes; one that
\* could not be read is 0.
ShortsAreRead == snReading.of = "short" => snReading.value = snReading.true

\* The pressure is the 24-bit measurement, in hPa, unless char is signed and
\* one of the lower bytes is above 127.
PressureIsRead ==
  snReading.of = "pressure" =>
    \/ snReading.value = snReading.true \div 4096
    \/ snSigned /\ (Byte(snReading.true, 0) >= 128 \/ Byte(snReading.true, 1) >= 128)

\* A sensor's Fahrenheit and Celsius are the same temperature, to two degrees.
FahrenheitAgrees ==
  snReading.of = "degrees" => Magnitude(5 * (snReading.f - 32) - 9 * snReading.c) < 10

\* Intensities are percentages, but for an adc value over 1000.
IntensityIsPercent ==
  snReading.of = "percent" => snReading.value \in 0..100 \/ snReading.raw > 1000

\* The search finds the sensor that has nb of its type before it in the table,
\* and the two builds find the same.
FindsNth ==
  snReading.of = "table" =>
    LET r == snReading
        before == {p \in 1..4 : \A q \in 1..p : r.t[q] # "none"}
        nth == {p \in before : r.t[p] = r.type /\ Cardinality({q \in 1..(p - 1) : r.t[q] = r.type}) = r.nb}
    IN  \A i \in 1..2 : IF nth = {} THEN r.value[i] = 0 ELSE r.value[i] \in nth

-----------------------------------------------------------------------------
(***************************************************************************)
(* The C++ classes of the sensor module (cpp/artik_sensor.cpp) over the    *)
(* drivers' pool.  An object holds a handle, its copies the same one; each *)
(* destructor releases it, release() leaves it to the destructor to do so  *)
(* again, and an assignment loses the handle the object had.  A handle is  *)
(* the address of a node: after the node is freed it finds nothing, or the *)
(* device that was requested since, if that got the address.               *)
(***************************************************************************)

CONSTANTS
  MaxObjects,  \* objects at a time
  MaxMisused   \* copies, assignments and early releases of other devices

ASSUME CppSensorAssumption == MaxObjects \in Nat /\ MaxMisused \in Nat

VARIABLES
  cpObjects,  \* the objects: class, device and whether its node was freed
  cpInUse     \* the application uses these classes, and not the C functions

cpVars == <<cpObjects, cpInUse>>

Objects == 1..MaxObjects
NoObject == [class |-> "none"]

DevicesOf(class) ==
  CASE class = "accelerometer" -> {"accelerometer", "k6ds3"}
    [] class = "gyro" -> {"k6ds3"}
    [] class = "humidity" -> {"hts221", "humidity"}
    [] class = "light" -> {"cm3323e", "light"}
    [] class = "temperature" -> {"hts221", "lps25hbtr", "temperature"}
    [] class = "proximity" -> {"proximity"}
    [] class = "flame" -> {"flame"}
    [] class = "pressure" -> {"lps25hbtr"}
    [] class = "hall" -> {"s5712ccdl1"}

CppInit == cpObjects = [o \in Objects |-> NoObject] /\ cpInUse \in BOOLEAN

Unused(o) == cpObjects[o] = NoObject
Misuses(devices) ==
  /\ devices \subseteq snCause \/ Cardinality(snCause) < MaxMisused
  /\ snCause' = snCause \cup devices
Holders(k) == {o \in Objects : cpObjects[o] # NoObject /\ cpObjects[o].device = k}

-----------------------------------------------------------------------------
(* Getting an object.                                                      *)

\* The exception of a refused request leaves no object.
Gets(class, o) ==
  /\ Unused(o) /\ \A p \in Objects : p < o => ~Unused(p)
  /\ \E d \in DevicesOf(class), c \in SensorChannels :
       /\ os_sensor_request(<<d, c>>)
       /\ cpObjects' = IF snHeld'[<<d, c>>] > snHeld[<<d, c>>]
                       THEN [cpObjects EXCEPT ![o] = [class |-> class, device |-> <<d, c>>, stale |-> FALSE]]
                       ELSE cpObjects
  /\ UNCHANGED cpInUse

get_accelerometer_sensor(o) == Gets("accelerometer", o)
get_gyro_sensor(o) == Gets("gyro", o)
get_humidity_sensor(o) == Gets("humidity", o)
get_light_sensor(o) == Gets("light", o)
get_temperature_sensor(o) == Gets("temperature", o)
get_proximity_sensor(o) == Gets("proximity", o)
get_flame_sensor(o) == Gets("flame", o)
get_pressure_sensor(o) == Gets("pressure", o)
get_hall_sensor(o) == Gets("hall", o)

get_sensor(o) ==
  \/ get_accelerometer_sensor(o) \/ get_gyro_sensor(o) \/ get_humidity_sensor(o)
  \/ get_light_sensor(o) \/ get_temperature_sensor(o) \/ get_proximity_sensor(o)
  \/ get_flame_sensor(o) \/ get_pressure_sensor(o) \/ get_hall_sensor(o)

-----------------------------------------------------------------------------
(* What an object does.                                                    *)

ReleasesOf(k) ==
  IF k[1] \in {"hts221", "k6ds3"} THEN SharedRelease(snPool, k) ELSE SoleRelease(snPool, k)

\* The driver is given the handle of the object; "left" are the objects after
\* the call, whose handles are stale when the node goes.
CallsRelease(o, left) ==
  LET k == cpObjects[o].device
      freed == k \in Requested(snPool) /\ k \notin Requested(snPool')
  IN  /\ \/ snPool' = ReleasesOf(k)
         \/ cpObjects[o].stale /\ snPool' = snPool
      /\ snHeld' = [snHeld EXCEPT ![k] = IF @ > 0 /\ snPool' # snPool THEN @ - 1 ELSE @]
      /\ cpObjects' = [p \in Objects |->
           IF left[p] # NoObject /\ left[p].device = k /\ freed THEN [left[p] EXCEPT !.stale = TRUE] ELSE left[p]]
      /\ UNCHANGED <<snSigned, snReading, cpInUse>>

\* The destructor.
Destroys(o) == CallsRelease(o, [cpObjects EXCEPT ![o] = NoObject]) /\ UNCHANGED snCause

\* release() keeps m_handle, and the destructor still comes.
ReleasesEarly(o) ==
  /\ CallsRelease(o, cpObjects)
  /\ Misuses({cpObjects[o].device})

\* The copy constructor.
Copies(o) ==
  /\ \E p \in Objects : /\ Unused(p) /\ \A q \in Objects : q < p => ~Unused(q)
                        /\ cpObjects' = [cpObjects EXCEPT ![p] = cpObjects[o]]
  /\ Misuses({cpObjects[o].device})
  /\ UNCHANGED <<snPool, snHeld, snSigned, snReading, cpInUse>>

\* Assigning one object to another of its class.
Assigns(o) ==
  /\ \E p \in Objects :
       /\ p # o /\ ~Unused(p) /\ cpObjects[p].class = cpObjects[o].class
       /\ cpObjects' = [cpObjects EXCEPT ![o] = cpObjects[p]]
       /\ Misuses({cpObjects[o].device, cpObjects[p].device})
  /\ UNCHANGED <<snPool, snHeld, snSigned, snReading, cpInUse>>

\* Its getters read the device.
ObjectDoes(class, o) ==
  /\ ~Unused(o) /\ cpObjects[o].class = class
  /\ \/ Destroys(o) \/ ReleasesEarly(o) \/ Copies(o) \/ Assigns(o)
     \/ UNCHANGED <<snVars, cpVars>>

AccelerometerSensor(o) == ObjectDoes("accelerometer", o)
GyroSensor(o) == ObjectDoes("gyro", o)
HumiditySensor(o) == ObjectDoes("humidity", o)
LightSensor(o) == ObjectDoes("light", o)
TemperatureSensor(o) == ObjectDoes("temperature", o)
ProximitySensor(o) == ObjectDoes("proximity", o)
FlameSensor(o) == ObjectDoes("flame", o)
PressureSensor(o) == ObjectDoes("pressure", o)
HallSensor(o) == ObjectDoes("hall", o)

CppNext ==
  /\ cpInUse
  /\ \E o \in Objects :
       \/ get_sensor(o)
       \/ AccelerometerSensor(o) \/ GyroSensor(o) \/ HumiditySensor(o) \/ LightSensor(o) \/ TemperatureSensor(o)
       \/ ProximitySensor(o) \/ FlameSensor(o) \/ PressureSensor(o) \/ HallSensor(o)

\* The application uses the C functions or the classes.
SensorSpec ==
  /\ SensorInit /\ CppInit
  /\ [][\/ ~cpInUse /\ SensorNext /\ UNCHANGED cpVars
        \/ CppNext
        \/ ReadingNext /\ UNCHANGED cpVars]_<<snVars, cpVars>>

-----------------------------------------------------------------------------
(* The list of the platform's sensors.                                     *)

\* The index each entry of the table is listed with: it starts again wherever
\* the next entry is of another type.
list(t) ==
  LET entries == {p \in DOMAIN t : \A q \in 1..p : t[q] # "none"}
      ref[p \in entries] == IF p = 1 \/ t[p - 1] # t[p] THEN 0 ELSE ref[p - 1] + 1
  IN  ref

-----------------------------------------------------------------------------
(* Properties.                                                             *)

\* An object's device is requested while the object lives, shared by the
\* objects of one chip, and released with the last: unless a handle of the
\* device was copied, assigned over or released before its destructor, or an
\* accelerometer was given out that is none.
ObjectHasDevice ==
  cpInUse => \A k \in Devices \ snCause :
    IF Holders(k) = {} THEN k \notin Requested(snPool)
    ELSE k \in snPool.open /\ snPool.nodes[k].count = Cardinality(Holders(k))

\* get_sensor, given the index and the type list() reports for a sensor,
\* finds that sensor, in every table that keeps the sensors of a type together.
ListedIsFound ==
  snReading.of = "table" =>
    LET t == snReading.t
        together == \A p, q \in DOMAIN list(t) : p < q /\ t[p] = t[q] => \A r \in p..q : t[r] = t[p]
    IN  together => \A p \in DOMAIN list(t) : os_sensor_get(t, list(t)[p], t[p]) = p

\* What the drivers return is what the registers say, whatever the sign of
\* char: interpolation stays between its points, bytes are combined as two's
\* complement, scales agree, the search finds the n-th sensor of a kind, and
\* what list() reports is found (the get functions of sensor/devices,
\* artik_sensor.cpp).
ReadingsSound ==
  /\ InterpolatesBetween /\ ShortsAreRead /\ PressureIsRead
  /\ FahrenheitAgrees /\ IntensityIsPercent /\ FindsNth /\ ListedIsFound

\* Held devices are listed with their bus handle and listed ones held,
\* whichever step of a request failed, and an object has its device, unless an
\* object was copied, assigned to or released early (sensor/devices,
\* artik_sensor.cpp).
SensorSound ==
  /\ SensorTypeOK /\ HeldIsListed /\ ListedIsHeld /\ BusBalanced
  /\ ObjectHasDevice

=============================================================================
