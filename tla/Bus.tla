-------------------------------- MODULE Bus ---------------------------------
(***************************************************************************)
(* The pwm, adc, i2c and spi modules: the list of requested handles each   *)
(* artik_*.c keeps, and the linux_*.c drivers below them, which open a     *)
(* device file for the one call (adc, i2c, spi) or keep four sysfs files   *)
(* open (pwm).  Calls on a handle that is not listed return at once.       *)
(***************************************************************************)
EXTENDS Integers, FiniteSets

CONSTANTS
  PwmPins,    \* pin numbers applications pass: chip in bits 8-15, port in 0-7
  PwmValues,  \* periods and duty cycles
  Buses,      \* i2c and spi bus numbers
  Addresses,  \* i2c slave addresses
  AdcPins,
  BusFds      \* descriptors the process may have open

ASSUME BusAssumption == PwmPins \subseteq Nat /\ PwmValues \subseteq Nat /\ BusFds \in Nat

VARIABLES
  pwmList,   \* artik_pwm.c: per handle its pin and whether its files are intact
  pwmChan,   \* sysfs: per channel its owner, output, period and duty cycle
  i2cList,   \* artik_i2c.c: bus and address of every handle
  i2cBound,  \* slaves a kernel driver is bound to: I2C_SLAVE is refused
  stolen,    \* a driver was bound to a slave that had a handle
  spiList,   \* artik_spi.c: bus and chip select of every handle
  adcList,   \* artik_adc.c: pins
  leaked,    \* descriptors that are open and in no structure
  busFault,  \* memory was freed or written through an unset pointer
  ioError    \* a write of a release was refused, or memory ran out

pwmVars == <<pwmList, pwmChan>>
busVars == <<pwmList, pwmChan, i2cList, i2cBound, stolen, spiList, adcList, leaked, busFault, ioError>>

\* os_pwm_init: user_data->chip and user_data->port.
Channel(pin) == <<(pin \div 256) % 256, pin % 256>>

Channels == {Channel(pin) : pin \in PwmPins}

Idle(owner) == [owner |-> owner, on |-> FALSE, period |-> 0, duty |-> 0]

BusInit ==
  /\ pwmList = {}
  /\ pwmChan = [c \in Channels |-> Idle("nobody")]
  /\ i2cList = {} /\ i2cBound = {} /\ stolen = FALSE
  /\ spiList = {} /\ adcList = {}
  /\ leaked = 0
  /\ busFault = FALSE
  /\ ioError = FALSE

FreeFds(n) == 4 * Cardinality(pwmList) + leaked + n <= BusFds

\* The configured duty cycle 0 stands for half the period.
DutyOf(period, duty) == IF duty = 0 THEN period \div 2 ELSE duty

\* os_pwm_clean closes enable, duty_cycle and period, not polarity.
os_pwm_clean == leaked' = leaked + 1

\* set_duty_cycle(0), disable, unexport; the first write that is refused
\* ends the sequence, with the output wherever that leaves it.
os_pwm_release(c) ==
  /\ \/ /\ pwmChan' = [pwmChan EXCEPT ![c] = Idle("nobody")]
        /\ UNCHANGED ioError
     \/ /\ \E on \in BOOLEAN : pwmChan' = [pwmChan EXCEPT ![c].on = on]
        /\ ioError' = TRUE
  /\ os_pwm_clean

\* Export, four opens, enable, polarity, period and duty cycle.
os_pwm_request(pin, period, duty) ==
  LET c == Channel(pin) IN
  /\ pwmChan[c].owner = "nobody"
  /\ duty <= period
  /\ pwmChan' = [pwmChan EXCEPT ![c] =
                   [owner |-> "us", on |-> TRUE, period |-> period, duty |-> duty]]
  /\ pwmList' = pwmList \cup {[pin |-> pin, intact |-> TRUE]}
  /\ UNCHANGED <<leaked, ioError>>

\* The driver refuses a value, a duty cycle above the period at the latest:
\* the channel is released again.
PwmRefused(pin) ==
  LET c == Channel(pin) IN
  /\ pwmChan[c].owner = "nobody"
  /\ \/ pwmChan' = pwmChan /\ UNCHANGED ioError
     \/ /\ \E on \in BOOLEAN :
             pwmChan' = [pwmChan EXCEPT ![c] = [Idle("us") EXCEPT !.on = on]]
        /\ ioError' = TRUE
  /\ os_pwm_clean
  /\ UNCHANGED pwmList

\* The export is refused.  os_pwm_release then writes to, and closes, what
\* happens to be in the uninitialised descriptor array: nothing, or the
\* files of a channel that is in use.
PwmExportRefused(pin) ==
  /\ pwmChan[Channel(pin)].owner # "nobody"
  /\ \/ pwmList' = pwmList /\ pwmChan' = pwmChan
     \/ \E n \in pwmList :
          /\ pwmList' = (pwmList \ {n}) \cup {[n EXCEPT !.intact = FALSE]}
          /\ pwmChan' = [pwmChan EXCEPT ![Channel(n.pin)].on = FALSE]
  /\ leaked' = leaked + 1
  /\ UNCHANGED ioError

artik_pwm_request(pin, period, duty) ==
  /\ ~\E n \in pwmList : n.pin = pin
  /\ FreeFds(5)
  /\ \/ os_pwm_request(pin, period, DutyOf(period, duty))
     \/ PwmRefused(pin)
     \/ PwmExportRefused(pin)
  /\ UNCHANGED <<i2cList, i2cBound, stolen, spiList, adcList, busFault>>

artik_pwm_release(n) ==
  /\ FreeFds(1)
  /\ os_pwm_release(Channel(n.pin))
  /\ pwmList' = pwmList \ {n}
  /\ UNCHANGED <<i2cList, i2cBound, stolen, spiList, adcList, busFault>>

\* Disable, write the value, enable; the output is on afterwards, even if
\* the application had switched it off, unless the last write is refused.
PwmSet(n, k) ==
  /\ n.intact
  /\ \/ pwmChan' = [pwmChan EXCEPT ![Channel(n.pin)] = [k EXCEPT !.on = TRUE]]
     \/ pwmChan' = [pwmChan EXCEPT ![Channel(n.pin)].on = TRUE]
     \/ pwmChan' = [pwmChan EXCEPT ![Channel(n.pin)] = [k EXCEPT !.on = FALSE]]
  /\ UNCHANGED <<pwmList, i2cList, i2cBound, stolen, spiList, adcList, leaked, busFault, ioError>>

os_pwm_set_period(n, v) ==
  LET k == pwmChan[Channel(n.pin)] IN
  PwmSet(n, IF k.duty <= v THEN [k EXCEPT !.period = v] ELSE k)

os_pwm_set_duty_cycle(n, v) ==
  LET k == pwmChan[Channel(n.pin)] IN
  PwmSet(n, IF v <= k.period THEN [k EXCEPT !.duty = v] ELSE k)

os_pwm_set_polarity(n) == PwmSet(n, pwmChan[Channel(n.pin)])

artik_pwm_set_period(n, v) == n \in pwmList /\ os_pwm_set_period(n, v)

artik_pwm_set_polarity(n) == n \in pwmList /\ os_pwm_set_polarity(n)

artik_pwm_set_duty_cycle(n, v) == n \in pwmList /\ os_pwm_set_duty_cycle(n, v)

os_pwm_enable(n, on) ==
  /\ n.intact
  /\ pwmChan' = [pwmChan EXCEPT ![Channel(n.pin)].on = on]
  /\ UNCHANGED <<pwmList, i2cList, i2cBound, stolen, spiList, adcList, leaked, busFault, ioError>>

artik_pwm_enable(n) == n \in pwmList /\ os_pwm_enable(n, TRUE)

artik_pwm_disable(n) == n \in pwmList /\ os_pwm_enable(n, FALSE)

\* Another process exports and unexports a channel it finds free.
OtherPwm(c) ==
  /\ \/ pwmChan[c].owner = "nobody" /\ pwmChan' = [pwmChan EXCEPT ![c] = Idle("other")]
     \/ pwmChan[c].owner = "other" /\ pwmChan' = [pwmChan EXCEPT ![c] = Idle("nobody")]
  /\ UNCHANGED <<pwmList, i2cList, i2cBound, stolen, spiList, adcList, leaked, busFault, ioError>>

\* Opens the value file once to see that it can be read.
artik_adc_request(pin) ==
  /\ pin \notin adcList
  /\ FreeFds(1)
  /\ adcList' = adcList \cup {pin}
  /\ UNCHANGED <<pwmVars, i2cList, i2cBound, stolen, spiList, leaked, busFault, ioError>>

\* A read that fails, in a request or on a handle, returns without closing.
os_adc_get_value_fails ==
  /\ FreeFds(1)
  /\ leaked' = leaked + 1
  /\ UNCHANGED <<pwmVars, i2cList, i2cBound, stolen, spiList, adcList, busFault, ioError>>

artik_adc_release(pin) ==
  /\ pin \in adcList
  /\ adcList' = adcList \ {pin}
  /\ UNCHANGED <<pwmVars, i2cList, i2cBound, stolen, spiList, leaked, busFault, ioError>>

\* The node is kept if the slave's address can be set on a new descriptor.
os_i2c_request(id, address) == FreeFds(1) /\ <<id, address>> \notin i2cBound

artik_i2c_request(id, address) ==
  /\ ~\E n \in i2cList : n.id = id /\ n.address = address
  /\ os_i2c_request(id, address)
  /\ i2cList' = i2cList \cup {[id |-> id, address |-> address]}
  /\ UNCHANGED <<pwmVars, i2cBound, stolen, spiList, adcList, leaked, busFault, ioError>>

artik_i2c_release(n) ==
  /\ i2cList' = i2cList \ {n}
  /\ UNCHANGED <<pwmVars, i2cBound, stolen, spiList, adcList, leaked, busFault, ioError>>

\* A register transfer whose I2C_SLAVE is refused goes to the exit that
\* frees data.msgs, which is not set yet; the build's stack decides.
os_i2c_read_register(n) ==
  /\ FreeFds(1)
  /\ <<n.id, n.address>> \in i2cBound
  /\ busFault' = TRUE
  /\ UNCHANGED <<pwmVars, i2cList, i2cBound, stolen, spiList, adcList, leaked, ioError>>

\* As above, and the exit also reads through data.msgs when it is NULL.
os_i2c_write_register(n) ==
  /\ FreeFds(1)
  /\ busFault' = TRUE
  /\ \/ <<n.id, n.address>> \in i2cBound /\ UNCHANGED ioError
     \/ ioError' = TRUE
  /\ UNCHANGED <<pwmVars, i2cList, i2cBound, stolen, spiList, adcList, leaked>>

\* A kernel driver is bound to, or unbound from, a slave.
Bind(id, address) ==
  /\ \/ i2cBound' = i2cBound \cup {<<id, address>>}
     \/ i2cBound' = i2cBound \ {<<id, address>>}
  /\ stolen' = (stolen \/ (<<id, address>> \in i2cBound' /\ [id |-> id, address |-> address] \in i2cList))
  /\ UNCHANGED <<pwmVars, i2cList, spiList, adcList, leaked, busFault, ioError>>

\* A bus has one handle, whatever the chip select.
artik_spi_request(bus, cs) ==
  /\ ~\E n \in spiList : n.bus = bus
  /\ FreeFds(1)
  /\ spiList' = spiList \cup {[bus |-> bus, cs |-> cs]}
  /\ UNCHANGED <<pwmVars, i2cList, i2cBound, stolen, adcList, leaked, busFault, ioError>>

artik_spi_release(n) ==
  /\ spiList' = spiList \ {n}
  /\ UNCHANGED <<pwmVars, i2cList, i2cBound, stolen, adcList, leaked, busFault, ioError>>

BusNext ==
  /\ ~busFault
  /\ \/ \E pin \in PwmPins, period \in PwmValues \ {0}, duty \in PwmValues :
          artik_pwm_request(pin, period, duty)
     \/ \E n \in pwmList :
          \/ artik_pwm_release(n)
          \/ \E v \in PwmValues : artik_pwm_set_period(n, v) \/ artik_pwm_set_duty_cycle(n, v)
          \/ artik_pwm_set_polarity(n)
          \/ artik_pwm_enable(n) \/ artik_pwm_disable(n)
     \/ \E c \in Channels : OtherPwm(c)
     \/ \E pin \in AdcPins : artik_adc_request(pin) \/ artik_adc_release(pin)
     \/ os_adc_get_value_fails
     \/ \E id \in Buses, a \in Addresses : artik_i2c_request(id, a) \/ Bind(id, a)
     \/ \E n \in i2cList :
          artik_i2c_release(n) \/ os_i2c_read_register(n) \/ os_i2c_write_register(n)
     \/ \E bus \in Buses, cs \in {0, 1} : artik_spi_request(bus, cs)
     \/ \E n \in spiList : artik_spi_release(n)

BusSpec == BusInit /\ [][BusNext]_busVars

BusTypeOK ==
  /\ \A n \in pwmList : n.pin \in PwmPins /\ n.intact \in BOOLEAN
  /\ \A c \in Channels : pwmChan[c].owner \in {"nobody", "us", "other"}
  /\ \A n \in i2cList : n.id \in Buses /\ n.address \in Addresses
  /\ leaked \in 0 .. BusFds
  /\ adcList \subseteq AdcPins

\* No two pwm handles drive the same channel, although the list compares
\* whole pin numbers of which only 16 bits select the channel
\* (check_exist of artik_pwm.c, os_pwm_init).
OneHandlePerChannel ==
  \A n, k \in pwmList : Channel(n.pin) = Channel(k.pin) => n = k

\* A pwm output is on, or a channel exported by this process, only for a
\* listed handle, unless a write of a release was refused: a request that
\* fails half way takes back what it did (os_pwm_request, os_pwm_release).
ReleasedIsOff ==
  \A c \in Channels :
    (~ioError /\ (pwmChan[c].on \/ pwmChan[c].owner = "us"))
      => \E n \in pwmList : Channel(n.pin) = c

\* The register calls of i2c only touch an unset pointer after a kernel
\* driver has taken a slave from the handle that was requested for it, or
\* when memory runs out: a slave that is taken before is refused by the
\* request (os_i2c_request, os_i2c_read_register, os_i2c_write_register).
FaultNeedsDriver == busFault => (stolen \/ ioError)

=============================================================================
