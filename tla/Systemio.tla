------------------------------ MODULE Systemio ------------------------------
(***************************************************************************)
(* systemio: the gpio and serial drivers of one process, over what they    *)
(* share: descriptors, the watches of the main loop, and the heap.  The    *)
(* other buses (Bus) share nothing with these but the bound on files.      *)
(***************************************************************************)
EXTENDS Integers, FiniteSets, Bus

(***************************************************************************)
(* What the drivers of systemio share: the process's file descriptors, the *)
(* fd watches of the main loop, the references to the loop module, and the *)
(* heap blocks the watches are given as user data.  A descriptor is a      *)
(* number, the lowest one free as open() returns it, and 0 is what a       *)
(* cleared structure holds; descriptors 0 to 2 belong to the process.      *)
(***************************************************************************)

CONSTANTS
  MaxFds,     \* descriptors the process may have open beside 0, 1 and 2
  MaxRefs,    \* bound on the references to the loop module
  MaxWatches  \* bound on the watches added in a behaviour

ASSUME FdLoopAssumption ==
  /\ MaxFds \in Nat \ {0}
  /\ MaxRefs \in Nat
  /\ MaxWatches \in Nat

VARIABLES
  fds,        \* descriptors the drivers have open
  watches,    \* watches in the loop: id, descriptor, user data
  nextWatch,  \* the id the next watch gets
  loopRefs,   \* references to the loop module held by the drivers
  heap,       \* blocks of user data that are allocated
  fault,      \* a callback has used a block that is freed, or called NULL
  misused     \* the application has left the order the drivers expect:
              \* it released a device or set a callback again while one was
              \* set, or ended a serial port inside its own callback

fdVars == <<fds, watches, nextWatch, loopRefs, heap, fault, misused>>

Least(S) == CHOOSE n \in S : \A k \in S : n <= k

NewFd == Least((3 .. 3 + MaxFds) \ fds)

CanOpen == Cardinality(fds) < MaxFds

\* Blocks stay distinguishable from the freed ones a watch still points to.
NewBlock == Least((1 .. Cardinality(heap) + Cardinality(watches) + 1)
                    \ (heap \cup {w.data : w \in watches}))

\* request of the loop module, add_fd_watch: what both drivers do in turn.
CanWatch == nextWatch <= MaxWatches /\ loopRefs < MaxRefs

AddWatch(fd, data) ==
  /\ watches' = watches \cup {[id |-> nextWatch, fd |-> fd, data |-> data]}
  /\ nextWatch' = nextWatch + 1

RemoveWatch(id) == watches' = {w \in watches : w.id # id}

FdInit ==
  /\ fds = {}
  /\ watches = {}
  /\ nextWatch = 1
  /\ loopRefs = 0
  /\ heap = {}
  /\ fault = FALSE
  /\ misused = FALSE

FdTypeOK ==
  /\ fds \subseteq 3 .. 3 + MaxFds
  /\ \A w \in watches : w.id \in 1 .. MaxWatches /\ w.fd \in Nat /\ w.data \in Nat
  /\ nextWatch \in 1 .. MaxWatches + 1
  /\ loopRefs \in 0 .. MaxRefs
  /\ fault \in BOOLEAN
  /\ misused \in BOOLEAN

(***************************************************************************)
(* The gpio module: the list of requested pins of artik_gpio.c and the     *)
(* sysfs driver of linux_gpio.c.  A pin in the list is its node, its       *)
(* configuration and its os_gpio_data at once: they live and die together. *)
(* An input pin is configured with the edge "both".  Every call that finds *)
(* no node (or, in a request, finds one) returns without touching state.   *)
(***************************************************************************)

CONSTANTS Pins, NoPin

PinNodes == [dir : {"in", "out"}, data : Nat, fd : Nat, watch : Nat, loop : BOOLEAN]

ASSUME GpioAssumption == NoPin \notin PinNodes

VARIABLES
  gpios,     \* requested_node: per pin its node, or NoPin
  exported,  \* sysfs: who has exported the pin
  level,     \* the level of the pin's line
  pending,   \* the descriptor of the pin's watch has an edge to report
  seen       \* the level the application was last told

gpioVars == <<gpios, exported, level, pending, seen>>

Owners == {"nobody", "us", "other", "driver"}

Held(p) == gpios[p] # NoPin

GpioInit ==
  /\ gpios = [p \in Pins |-> NoPin]
  /\ exported \in [Pins -> {"nobody", "driver"}]
  /\ level = [p \in Pins |-> 0]
  /\ pending = [p \in Pins |-> FALSE]
  /\ seen = [p \in Pins |-> 0]

\* Writing a pin's number to /sys/class/gpio/unexport takes effect on every
\* pin exported through sysfs, by whatever process.
Unexport(p) ==
  exported' = [exported EXCEPT ![p] = IF @ = "driver" THEN @ ELSE "nobody"]

\* The writes to export, direction, value or edge, and the allocation of
\* os_gpio_data.  On success an output drives its initial value.
os_gpio_request(p, dir, v) ==
  /\ exported[p] = "nobody"
  /\ exported' = [exported EXCEPT ![p] = "us"]
  /\ level' = IF dir = "out" THEN [level EXCEPT ![p] = v] ELSE level
  /\ gpios' = [gpios EXCEPT ![p] = [dir |-> dir, data |-> NewBlock,
                                    fd |-> 0, watch |-> 0, loop |-> FALSE]]
  /\ heap' = heap \cup {NewBlock}

\* The export fails for a pin that is taken, a later write may fail for any:
\* the cleanup unexports, and the node is deleted again.
os_gpio_request_fails(p) ==
  /\ Unexport(p)
  /\ UNCHANGED <<level, gpios, heap>>

artik_gpio_request(p, dir, v) ==
  /\ ~Held(p)
  /\ os_gpio_request(p, dir, v) \/ os_gpio_request_fails(p)
  /\ UNCHANGED <<pending, seen, fds, watches, nextWatch, loopRefs, fault, misused>>

\* The data is freed with whatever descriptor, watch and reference it has.
os_gpio_release(p) ==
  /\ Unexport(p)
  /\ heap' = heap \ {gpios[p].data}

artik_gpio_release(p) ==
  /\ Held(p)
  /\ os_gpio_release(p)
  /\ gpios' = [gpios EXCEPT ![p] = NoPin]
  /\ misused' = (misused \/ gpios[p].fd # 0)
  /\ UNCHANGED <<level, pending, seen, fds, watches, nextWatch, loopRefs, fault>>

\* Opens the value file for the one read: fails without a free descriptor.
os_gpio_read(p) ==
  /\ gpios[p].dir = "in"
  /\ CanOpen
  /\ seen' = [seen EXCEPT ![p] = level[p]]

artik_gpio_read(p) ==
  /\ Held(p)
  /\ os_gpio_read(p)
  /\ UNCHANGED <<fdVars, gpios, exported, level, pending>>

os_gpio_write(p, v) ==
  /\ gpios[p].dir = "out"
  /\ CanOpen
  /\ level' = [level EXCEPT ![p] = v]

artik_gpio_write(p, v) ==
  /\ Held(p)
  /\ os_gpio_write(p, v)
  /\ UNCHANGED <<fdVars, gpios, exported, pending, seen>>

\* Mutant: the interrupt is cleared without reading the value.
SetClearsOnly(p) ==
  /\ CanOpen
  /\ fds' = fds \cup {NewFd}
  /\ gpios' = [gpios EXCEPT ![p].fd = NewFd, ![p].watch = nextWatch, ![p].loop = TRUE]
  /\ AddWatch(NewFd, gpios[p].data)
  /\ loopRefs' = loopRefs + 1
  /\ pending' = [pending EXCEPT ![p] = FALSE]
  /\ UNCHANGED seen

\* Open, read once to clear the interrupt, reference the loop, add the watch.
os_gpio_set_change_callback(p) ==
  /\ CanOpen
  /\ fds' = fds \cup {NewFd}
  /\ gpios' = [gpios EXCEPT ![p].fd = NewFd, ![p].watch = nextWatch, ![p].loop = TRUE]
  /\ AddWatch(NewFd, gpios[p].data)
  /\ loopRefs' = loopRefs + 1
  /\ pending' = [pending EXCEPT ![p] = FALSE]
  /\ seen' = [seen EXCEPT ![p] = level[p]]

\* The first read or add_fd_watch fails, which gives back the reference in
\* data->loop, or the loop module cannot be requested, which overwrites it.
\* A failed open (-1) is not noticed and ends in the failed read.
os_gpio_set_change_callback_fails(p) ==
  /\ loopRefs' \in {loopRefs, IF gpios[p].loop THEN loopRefs - 1 ELSE loopRefs}
  /\ gpios' = [gpios EXCEPT ![p].fd = 0, ![p].loop = FALSE]
  /\ UNCHANGED <<fds, watches, nextWatch, pending, seen>>

artik_gpio_set_change_callback(p) ==
  /\ Held(p)
  /\ gpios[p].dir = "in"
  /\ CanWatch
  /\ os_gpio_set_change_callback(p) \/ os_gpio_set_change_callback_fails(p)
  /\ misused' = (misused \/ gpios[p].fd # 0)
  /\ UNCHANGED <<heap, fault, exported, level>>

\* Takes a reference of its own, and gives one back only if one was kept.
os_gpio_unset_change_callback(p) ==
  IF gpios[p].fd = 0
  THEN /\ loopRefs' = loopRefs + 1
       /\ UNCHANGED <<fds, watches, gpios>>
  ELSE /\ fds' = fds \ {gpios[p].fd}
       /\ IF gpios[p].loop
          THEN RemoveWatch(gpios[p].watch) /\ loopRefs' = loopRefs
          ELSE loopRefs' = loopRefs + 1 /\ UNCHANGED watches
       /\ gpios' = [gpios EXCEPT ![p].fd = 0, ![p].watch = 0, ![p].loop = FALSE]

artik_gpio_unset_change_callback(p) ==
  /\ Held(p)
  /\ loopRefs < MaxRefs
  /\ os_gpio_unset_change_callback(p)
  /\ UNCHANGED <<nextWatch, heap, fault, misused, exported, level, pending, seen>>

\* The line of an input changes; the driver's edge interrupt reports it to
\* a descriptor that is open.
LineChanges(p) ==
  /\ ~(Held(p) /\ gpios[p].dir = "out")
  /\ level' = [level EXCEPT ![p] = 1 - @]
  /\ pending' = [pending EXCEPT ![p] = @ \/ (Held(p) /\ gpios[p].fd # 0)]
  /\ UNCHANGED <<fdVars, gpios, exported, seen>>

\* Another process exports a free pin, or unexports the one it has.
OtherProcess(p) ==
  /\ \/ exported[p] = "nobody" /\ exported' = [exported EXCEPT ![p] = "other"]
     \/ exported[p] = "other" /\ exported' = [exported EXCEPT ![p] = "nobody"]
  /\ UNCHANGED <<fdVars, gpios, level, pending, seen>>

\* A watch of a pin's data is dispatched; the read clears the interrupt and
\* its value goes to the application.  A read that fails ends the watch.
os_gpio_change_callback(p, w) ==
  /\ Held(p) /\ w.data = gpios[p].data /\ pending[p]
  /\ \/ /\ gpios[p].fd # 0
        /\ seen' = [seen EXCEPT ![p] = level[p]]
        /\ pending' = [pending EXCEPT ![p] = FALSE]
        /\ UNCHANGED watches
     \/ /\ watches' = watches \ {w}
        /\ UNCHANGED <<seen, pending>>
  /\ UNCHANGED <<fds, nextWatch, loopRefs, heap, fault, misused, gpios, exported, level>>

\* A watch whose block is freed fires (its descriptor is still open, or has
\* been opened again as something else): undefined behaviour.
StaleWatch(w) ==
  /\ w.data \notin heap
  /\ w.fd \in fds
  /\ fault' = TRUE
  /\ UNCHANGED <<fds, watches, nextWatch, loopRefs, heap, misused>>

GpioNext ==
  \/ \E p \in Pins :
       \/ \E dir \in {"in", "out"}, v \in {0, 1} : artik_gpio_request(p, dir, v)
       \/ artik_gpio_release(p)
       \/ artik_gpio_read(p)
       \/ \E v \in {0, 1} : artik_gpio_write(p, v)
       \/ artik_gpio_set_change_callback(p)
       \/ artik_gpio_unset_change_callback(p)
       \/ LineChanges(p)
       \/ OtherProcess(p)
       \/ \E w \in watches : os_gpio_change_callback(p, w)

GpioTypeOK ==
  /\ \A p \in Pins :
       Held(p) => /\ gpios[p].dir \in {"in", "out"}
                  /\ gpios[p].data \in heap
                  /\ gpios[p].fd \in {0} \cup (3 .. 3 + MaxFds)
  /\ exported \in [Pins -> Owners]
  /\ level \in [Pins -> {0, 1}]
  /\ seen \in [Pins -> {0, 1}]

\* A pin is exported by this process exactly while it is in the list:
\* whichever write of a request fails, its cleanup leaves nothing exported
\* (os_gpio_request).
ListedIsExported == \A p \in Pins : Held(p) <=> exported[p] = "us"

\* While a callback is set and its watch is in the loop, an edge that the
\* application has not been told about is pending: none is lost between the
\* read that arms the watch and the callbacks (os_gpio_set_change_callback).
NoEdgeLost ==
  \A p \in Pins :
    (~misused /\ Held(p) /\ \E w \in watches : w.id = gpios[p].watch)
      => pending[p] \/ seen[p] = level[p]

(***************************************************************************)
(* The serial module: artik_serial.c and the termios driver of             *)
(* linux_serial.c, including the descriptor set (rdfs) its callback keeps. *)
(* Bytes of a port are abstracted to the number of chunks waiting in the   *)
(* kernel; what a termios setting does to the line is left out.            *)
(***************************************************************************)

CONSTANTS Ports, NoPort, MaxChunks

PortNodes == [data : Nat, fd : Nat, rdfs : BOOLEAN, watch : Nat, loop : BOOLEAN,
              callback : BOOLEAN]

ASSUME SerialAssumption == NoPort \notin PortNodes /\ MaxChunks \in Nat

VARIABLES
  serials,   \* requested_node: per port its node, or NoPort
  rx,        \* chunks received by the kernel and not read
  inCallback \* the block of the port whose received callback runs, or 0

serialVars == <<serials, rx, inCallback>>

Opened(s) == serials[s] # NoPort

SerialInit ==
  /\ serials = [s \in Ports |-> NoPort]
  /\ rx = [s \in Ports |-> 0]
  /\ inCallback = 0

\* malloc, open, tcgetattr, tcsetattr; the port is flushed before the last.
os_serial_request(s) ==
  /\ CanOpen
  /\ fds' = fds \cup {NewFd}
  /\ heap' = heap \cup {NewBlock}
  /\ serials' = [serials EXCEPT ![s] = [data |-> NewBlock, fd |-> NewFd, rdfs |-> TRUE,
                                        watch |-> 0, loop |-> FALSE, callback |-> FALSE]]
  /\ rx' = [rx EXCEPT ![s] = 0]

\* Any step fails: os_serial_release closes the descriptor if there is one.
os_serial_request_fails(s) == UNCHANGED <<fds, heap, serials, rx>>

artik_serial_request(s) ==
  /\ ~Opened(s)
  /\ os_serial_request(s) \/ os_serial_request_fails(s)
  /\ UNCHANGED <<watches, nextWatch, loopRefs, fault, misused, inCallback>>

\* Closes the descriptor the data holds, which is 0 once the callback has
\* been unset, and frees the data without removing its watch.
os_serial_release(s) ==
  /\ fds' = fds \ {serials[s].fd}
  /\ heap' = heap \ {serials[s].data}

artik_serial_release(s) ==
  /\ Opened(s)
  /\ os_serial_release(s)
  /\ serials' = [serials EXCEPT ![s] = NoPort]
  /\ misused' = (misused \/ serials[s].callback \/ inCallback = serials[s].data)
  /\ UNCHANGED <<watches, nextWatch, loopRefs, fault, rx, inCallback>>

\* With descriptor 0 the read is one of the process's standard input.
os_serial_read(s) ==
  /\ serials[s].fd # 0
  /\ rx[s] > 0
  /\ rx' = [rx EXCEPT ![s] = @ - 1]

artik_serial_read(s) ==
  /\ Opened(s)
  /\ os_serial_read(s)
  /\ UNCHANGED <<fdVars, serials, inCallback>>

\* Reference the loop and add the watch.
os_serial_set_received_callback(s) ==
  /\ loopRefs' = loopRefs + 1
  /\ AddWatch(serials[s].fd, serials[s].data)
  /\ serials' = [serials EXCEPT ![s].watch = nextWatch, ![s].loop = TRUE,
                                ![s].callback = TRUE]

\* The loop module or the watch is refused; the callback stays stored.
os_serial_set_received_callback_fails(s) ==
  /\ serials' = [serials EXCEPT ![s].loop = FALSE, ![s].callback = TRUE]
  /\ UNCHANGED <<loopRefs, watches, nextWatch>>

artik_serial_set_received_callback(s) ==
  /\ Opened(s)
  /\ CanWatch
  /\ \/ os_serial_set_received_callback(s)
     \/ os_serial_set_received_callback_fails(s)
  /\ misused' = (misused \/ serials[s].callback)
  /\ UNCHANGED <<fds, heap, fault, rx, inCallback>>

\* The memset also clears the descriptor, the port stays listed without it.
os_serial_unset_received_callback(s) ==
  IF serials[s].fd = 0
  THEN /\ loopRefs' = loopRefs + 1
       /\ UNCHANGED <<watches, serials>>
  ELSE /\ IF serials[s].loop
          THEN RemoveWatch(serials[s].watch) /\ loopRefs' = loopRefs
          ELSE loopRefs' = loopRefs + 1 /\ UNCHANGED watches
       /\ serials' = [serials EXCEPT ![s] = [@ EXCEPT !.fd = 0, !.rdfs = FALSE,
                        !.watch = 0, !.loop = FALSE, !.callback = FALSE]]

artik_serial_unset_received_callback(s) ==
  /\ Opened(s)
  /\ loopRefs < MaxRefs
  /\ os_serial_unset_received_callback(s)
  /\ misused' = (misused \/ inCallback = serials[s].data)
  /\ UNCHANGED <<fds, nextWatch, heap, fault, rx, inCallback>>

Receives(s) ==
  /\ rx[s] < MaxChunks
  /\ rx' = [rx EXCEPT ![s] = @ + 1]
  /\ UNCHANGED <<fdVars, serials, inCallback>>

\* Mutant: a descriptor that has dropped out of rdfs is not put back.
CallbackNeverSets(s, w) ==
  /\ inCallback = 0
  /\ Opened(s) /\ w.data = serials[s].data /\ w.fd \in fds
  /\ rx[s] > 0
  /\ rx' = IF serials[s].rdfs THEN [rx EXCEPT ![s] = @ - 1] ELSE rx
  /\ inCallback' = w.data
  /\ UNCHANGED <<fdVars, serials>>

\* First half of os_serial_change_callback, up to the user's callback.  The
\* descriptor is read only if it is still in rdfs; otherwise the callback
\* is told of a timeout with no data.
os_serial_change_callback(s, w) ==
  /\ inCallback = 0
  /\ Opened(s) /\ w.data = serials[s].data /\ w.fd \in fds
  /\ rx[s] > 0
  /\ rx' = IF serials[s].rdfs THEN [rx EXCEPT ![s] = @ - 1] ELSE rx
  /\ serials' = [serials EXCEPT ![s].rdfs = TRUE]
  /\ inCallback' = w.data
  /\ UNCHANGED fdVars

\* A read error ends the watch.
SerialReadFails(s, w) ==
  /\ inCallback = 0
  /\ Opened(s) /\ w.data = serials[s].data /\ w.fd \in fds
  /\ rx[s] > 0 /\ serials[s].rdfs
  /\ watches' = watches \ {w}
  /\ UNCHANGED <<fds, nextWatch, loopRefs, heap, fault, misused, serialVars>>

\* Second half: the data is used again after the user's callback, and the
\* callback itself when nothing more arrives, after which the descriptor
\* leaves rdfs.
SerialCallbackReturns ==
  /\ inCallback # 0
  /\ inCallback' = 0
  /\ LET mine == {s \in Ports : Opened(s) /\ serials[s].data = inCallback}
     IN  /\ fault' = (fault \/ ~\E s \in mine : serials[s].callback)
         /\ serials' = [s \in Ports |-> IF s \in mine
                                        THEN [serials[s] EXCEPT !.rdfs = @ /\ rx[s] > 0]
                                        ELSE serials[s]]
  /\ UNCHANGED <<fds, watches, nextWatch, loopRefs, heap, misused, rx>>

SerialNext ==
  \/ \E s \in Ports :
       \/ artik_serial_request(s)
       \/ artik_serial_release(s)
       \/ artik_serial_read(s)
       \/ artik_serial_set_received_callback(s)
       \/ artik_serial_unset_received_callback(s)
       \/ Receives(s)
       \/ \E w \in watches : os_serial_change_callback(s, w) \/ SerialReadFails(s, w)
  \/ SerialCallbackReturns

SerialTypeOK ==
  /\ \A s \in Ports :
       Opened(s) => /\ serials[s].data \in heap
                    /\ serials[s].fd \in {0} \cup (3 .. 3 + MaxFds)
  /\ rx \in [Ports -> 0 .. MaxChunks]
  /\ inCallback \in Nat

(***************************************************************************)
(* The gpio and serial drivers in one process: they share its descriptors, *)
(* the loop that calls both back, and the heap.  Callbacks run in the one  *)
(* thread of the loop, calls of the application before, between and inside *)
(* them.  After a fault nothing more is claimed and the process stops.     *)
(***************************************************************************)

ioVars == <<fdVars, gpioVars, serialVars>>

IoInit == FdInit /\ GpioInit /\ SerialInit

IoNext ==
  /\ ~fault
  /\ \/ GpioNext /\ UNCHANGED serialVars
     \/ SerialNext /\ UNCHANGED gpioVars
     \/ \E w \in watches : StaleWatch(w) /\ UNCHANGED <<gpioVars, serialVars>>

\* The loop dispatches a watch that stays ready, and a callback returns.
IoFairness ==
  /\ \A s \in Ports :
       WF_ioVars(~fault /\ (\E w \in watches : os_serial_change_callback(s, w))
                        /\ UNCHANGED gpioVars)
  /\ WF_ioVars(~fault /\ SerialCallbackReturns /\ UNCHANGED gpioVars)

IoSpec == IoInit /\ [][IoNext]_ioVars /\ IoFairness

IoTypeOK == FdTypeOK /\ GpioTypeOK /\ SerialTypeOK

\* As long as the application unsets a callback before it releases the
\* device or sets another one, and not inside the serial callback, no
\* callback uses freed data or a cleared function pointer (os_gpio_release
\* and os_serial_release free data without looking at its watch).
NoIoFault == fault => misused

\* Under the same discipline every watch in the loop belongs to the device
\* that recorded it, with data that is allocated and a descriptor that is
\* open, whatever opens, sets and unsets came before and failed.
WatchesAreLive ==
  ~misused =>
    \A w \in watches :
      /\ w.data \in heap
      /\ w.fd \in fds \cup {0}
      /\ \/ \E p \in Pins : Held(p) /\ gpios[p].data = w.data /\ gpios[p].watch = w.id
         \/ \E s \in Ports : Opened(s) /\ serials[s].data = w.data /\ serials[s].watch = w.id

\* A watch is only in the loop while the drivers hold a reference to the
\* loop module: unset gives back its own reference, never the last one of a
\* watch that stays (os_gpio_unset_change_callback).
LoopIsReferenced == (~misused /\ watches # {}) => loopRefs > 0

\* What a port with a callback has received is read in the end, unless its
\* callback is unset (which also loses the port's descriptor) or its watch
\* ends with a read error: a descriptor that dropped out of rdfs after a
\* silent second is put back (os_serial_change_callback).
SerialDelivers ==
  \A s \in Ports :
    (Opened(s) /\ rx[s] = MaxChunks)
      ~> \/ rx[s] < MaxChunks \/ fault \/ misused \/ ~Opened(s)
         \/ serials[s].fd = 0
         \/ ~\E w \in watches : w.data = serials[s].data

\* Whichever step of a request fails, what is listed is held and what is not
\* is given back; watches belong to live devices and no edge is lost, as long
\* as callbacks are unset before their device is released (linux_gpio.c,
\* linux_serial.c, linux_pwm.c, linux_adc.c, linux_i2c.c, linux_spi.c).
SystemioSound ==
  /\ IoTypeOK /\ BusTypeOK /\ ListedIsExported /\ NoEdgeLost /\ NoIoFault
  /\ WatchesAreLive /\ LoopIsReferenced /\ OneHandlePerChannel
  /\ ReleasedIsOff /\ FaultNeedsDriver

=============================================================================
