--------------------------- MODULE SplitTransport ---------------------------
(* The two halves of a split keyboard (quantum/split_common): in every scan    *)
(* the master reads the other half's matrix, writes its own state and feeds    *)
(* the slave's watchdog, each by transactions that may fail or be garbled and  *)
(* are retried, while the slave scans at its own pace and either half may      *)
(* restart.                                                                    *)
EXTENDS Naturals

CONSTANTS
    Data,            \* matrices of the slave in the order they come, from 0
    Garbage,         \* what a garbled transaction leaves behind
    Crc,             \* crc8(), of Data and Garbage
    RETRIES,         \* 10 tries of a handler while connected
    MAX_ERRORS,      \* SPLIT_MAX_CONNECTION_ERRORS
    UINT8_MAX,       \* where connection_errors stops
    SYNC_THROTTLE,   \* FORCED_SYNC_THROTTLE_MS
    CHECK_TIMEOUT,   \* SPLIT_CONNECTION_CHECK_TIMEOUT
    WATCHDOG,        \* SPLIT_WATCHDOG_TIMEOUT
    Source           \* values of the state that is mirrored to the slave

ASSUME SplitAssumption ==
    /\ Data \subseteq Nat /\ 0 \in Data /\ Garbage \notin Data
    /\ \A d \in Data : Crc[d] # Crc[Garbage]    \* a garbled matrix is noticed
    /\ 0 \in Source
    /\ RETRIES \in Nat \ {0} /\ MAX_ERRORS \in Nat \ {0} /\ UINT8_MAX \in Nat
    /\ MAX_ERRORS <= UINT8_MAX
    /\ {SYNC_THROTTLE, CHECK_TIMEOUT, WATCHDOG} \subseteq Nat \ {0}

VARIABLES
    (* the slave *)
    keys,              \* its debounced matrix
    smatrix,           \* split_shmem->smatrix.matrix; the checksum goes with it
    received,          \* what was last written to its split_shmem
    mirrored,          \* what its handlers made of that
    pinged,            \* split_shmem->watchdog_pinged
    fed,               \* split_watchdog_done
    uptime,            \* time since split_watchdog_started
    heard,             \* history: whether the master has "begun" a scan since
                       \* it started, or ended one well and in time, "yes"
    (* the master *)
    pc,                \* "idle", or the transaction that comes next
    iter,              \* of transaction_handler_master()
    curr_checksum,     \* as read by the running handler
    mmatrix,           \* its copy of smatrix.matrix
    last_matrix,       \* last successfully read
    source,            \* the state to mirror
    sent,              \* its copy of what it wrote
    done,              \* split_watchdog_done
    read_age,          \* time since last_update of the matrix ...
    write_age,         \* ... and of the mirrored state
    connection_errors, check_age, last_connected,
    rows,              \* its matrix + thatHand: what becomes key events
    (* between them *)
    link               \* "good" or "bad"

scan   == <<keys, smatrix, mirrored, fed, uptime>>
slave  == <<scan, received, pinged, heard>>
shared == <<mmatrix, last_matrix, sent>>
ages   == <<read_age, write_age, check_age>>
conn   == <<connection_errors, last_connected, rows>>
vars   == <<slave, pc, iter, curr_checksum, shared, source, done, ages, conn, link>>

Init ==
    /\ keys = 0 /\ smatrix = 0 /\ received = 0 /\ mirrored = 0
    /\ pinged = FALSE /\ fed = FALSE /\ uptime = 0 /\ heard = "no"
    /\ pc = "idle" /\ iter = 1 /\ curr_checksum = Crc[0]
    /\ mmatrix = 0 /\ last_matrix = 0 /\ source = 0 /\ sent = 0 /\ done = FALSE
    /\ read_age = 0 /\ write_age = 0 /\ check_age = 0
    /\ connection_errors = 0 /\ last_connected = FALSE /\ rows = 0
    /\ link = "good"

is_transport_connected == connection_errors < MAX_ERRORS

-----------------------------------------------------------------------------
(* The environment: keys, time, the cable, power.                             *)
Older(age, limit) == IF age < limit THEN age + 1 ELSE age

Tick ==
    /\ read_age' = Older(read_age, SYNC_THROTTLE)
    /\ write_age' = Older(write_age, SYNC_THROTTLE)
    /\ check_age' = Older(check_age, CHECK_TIMEOUT)
    /\ uptime' = Older(uptime, WATCHDOG + 1)
    /\ UNCHANGED <<keys, smatrix, received, mirrored, pinged, fed, heard, pc, iter,
                   curr_checksum, shared, source, done, conn, link>>

LinkChanges ==
    /\ link' = IF link = "good" THEN "bad" ELSE "good"
    /\ UNCHANGED <<slave, pc, iter, curr_checksum, shared, source, done, ages, conn>>

SourceChanges ==
    /\ pc = "idle" /\ source' \in Source \ {source}
    /\ UNCHANGED <<slave, pc, iter, curr_checksum, shared, done, ages, conn, link>>

SlaveStarts ==
    /\ smatrix' = 0 /\ received' = 0 /\ mirrored' = 0 /\ pinged' = FALSE
    /\ fed' = FALSE /\ uptime' = 0 /\ heard' = "no"
    /\ UNCHANGED <<keys, pc, iter, curr_checksum, shared, source, done, ages, conn, link>>

MasterRestart ==
    /\ pc' = "idle" /\ iter' = 1 /\ curr_checksum' = Crc[0]
    /\ mmatrix' = 0 /\ last_matrix' = 0 /\ source' = 0 /\ sent' = 0 /\ done' = FALSE
    /\ read_age' = 0 /\ write_age' = 0 /\ check_age' = 0
    /\ connection_errors' = 0 /\ last_connected' = FALSE /\ rows' = 0
    /\ UNCHANGED <<slave, link>>

-----------------------------------------------------------------------------
(* The slave's main loop: matrix_scan() with transactions_slave(), and the    *)
(* watchdog, which reboots it.                                                *)
split_watchdog_task == ~pinged /\ uptime > WATCHDOG

SlaveScan ==
    /\ ~split_watchdog_task
    /\ keys' \in {keys} \cup {d \in Data : d = keys + 1}
    /\ smatrix' = keys' /\ mirrored' = received /\ fed' = pinged
    /\ UNCHANGED <<received, pinged, uptime, heard, pc, iter, curr_checksum, shared,
                   source, done, ages, conn, link>>

Reboot == split_watchdog_task /\ SlaveStarts

-----------------------------------------------------------------------------
(* The master: one action per transaction.                                    *)
Begins == pc = "idle" /\ (is_transport_connected \/ check_age >= CHECK_TIMEOUT)

BeginScan ==
    /\ Begins /\ pc' = "checksum" /\ iter' = 1
    /\ heard' = IF heard = "no" THEN "begun" ELSE heard
    /\ UNCHANGED <<keys, smatrix, received, mirrored, pinged, fed, uptime, curr_checksum, shared, source, done, ages, conn, link>>

(* matrix_post_scan() with the result of transport_master_if_connected().     *)
(* mutant: the other half is left as it was *)
KeepRows(connected, slave_matrix) ==
    /\ last_connected' = connected
    /\ rows' = IF connected THEN slave_matrix ELSE rows
matrix_post_scan(connected, slave_matrix) ==
    /\ last_connected' = connected
    /\ rows' = IF connected THEN slave_matrix ELSE IF last_connected THEN 0 ELSE rows

ThrottledScan ==
    /\ pc = "idle" /\ ~Begins /\ matrix_post_scan(FALSE, last_matrix)
    /\ UNCHANGED <<slave, pc, iter, curr_checksum, shared, source, done, ages,
                   connection_errors, link>>

EndScan(okay, slave_matrix) ==
    /\ pc' = "idle" /\ iter' = 1 /\ curr_checksum' = Crc[0]
    /\ IF okay
       THEN /\ connection_errors' = 0 /\ UNCHANGED check_age
            /\ matrix_post_scan(TRUE, slave_matrix)
       ELSE /\ connection_errors' = IF connection_errors < UINT8_MAX
                                    THEN connection_errors + 1 ELSE UINT8_MAX
            /\ check_age' = IF connection_errors' < MAX_ERRORS THEN check_age ELSE 0
            /\ matrix_post_scan(connection_errors' < MAX_ERRORS, slave_matrix)

(* transaction_handler_master(): once more from the handler's first           *)
(* transaction, or the whole scan fails.                                      *)
Retry(first) ==
    IF iter < (IF is_transport_connected THEN RETRIES ELSE 1)
    THEN /\ iter' = iter + 1 /\ pc' = first
         /\ UNCHANGED <<curr_checksum, check_age, conn>>
    ELSE EndScan(FALSE, last_matrix)

Then(handler) ==
    pc' = handler /\ iter' = 1 /\ curr_checksum' = Crc[0] /\ UNCHANGED <<check_age, conn>>

(* read_if_checksum_mismatch(), for the matrix.  A checksum that comes over   *)
(* wrong is never the one of a garbled matrix.                                *)
(* mutant: no forced synchronisation *)
Mismatch(sum) == sum # Crc[mmatrix]
ReadData(sum) == read_age >= SYNC_THROTTLE \/ sum # Crc[mmatrix]

ReadChecksum ==
    /\ pc = "checksum"
    /\ \/ \E sum \in {Crc[d] : d \in IF link = "good" THEN {smatrix} ELSE Data} :
             /\ IF ReadData(sum)
                THEN /\ pc' = "data" /\ curr_checksum' = sum
                     /\ UNCHANGED <<iter, last_matrix, check_age, conn>>
                ELSE last_matrix' = mmatrix /\ Then("write")
       \/ link = "bad" /\ Retry("checksum") /\ UNCHANGED last_matrix
    /\ UNCHANGED <<slave, mmatrix, sent, source, done, read_age, write_age, link>>

(* The data must have the checksum read before: not so when the slave has     *)
(* scanned in between.                                                        *)
(* mutant: the data is not checked *)
NotChecked == TRUE
Matches == curr_checksum = Crc[mmatrix']

ReadMatrix ==
    /\ pc = "data"
    /\ \E okay \in BOOLEAN :
          /\ mmatrix' \in IF link = "good" THEN {smatrix} ELSE {smatrix, mmatrix, Garbage}
          /\ okay \/ link = "bad"
          /\ okay => mmatrix' \in {smatrix, Garbage}
          /\ IF okay /\ Matches
             THEN last_matrix' = mmatrix' /\ read_age' = 0 /\ Then("write")
             ELSE Retry("checksum") /\ UNCHANGED <<last_matrix, read_age>>
    /\ UNCHANGED <<slave, sent, source, done, write_age, link>>

(* transport_write(): the master's copy changes whether or not the slave's    *)
(* does; an answer may be lost.                                               *)
Arrives(okay) == okay \/ link = "bad"
Lost(okay)    == ~okay /\ link = "bad"

(* send_if_data_mismatch()                                                    *)
(* mutant: no forced synchronisation *)
Changed == source # sent
SendData == write_age >= SYNC_THROTTLE \/ source # sent

WriteSource ==
    /\ pc = "write"
    /\ IF SendData
       THEN \E okay \in BOOLEAN :
              /\ sent' = source
              /\ \/ Arrives(okay) /\ received' = source
                 \/ Lost(okay) /\ UNCHANGED received
              /\ write_age' = IF okay THEN 0 ELSE write_age
              /\ IF okay THEN Then("watchdog") ELSE Retry("write")
       ELSE Then("watchdog") /\ UNCHANGED <<received, sent, write_age>>
    /\ UNCHANGED <<scan, pinged, heard, mmatrix, last_matrix, source, done, read_age, link>>

(* watchdog_handlers_master(), the last one                                   *)
split_watchdog_check == done /\ is_transport_connected

EndsWell ==
    /\ EndScan(TRUE, last_matrix)
    /\ heard' = IF heard = "begun" /\ uptime <= WATCHDOG THEN "yes" ELSE heard

Ping ==
    /\ pc = "watchdog"
    /\ \/ /\ split_watchdog_check /\ EndsWell /\ UNCHANGED <<pinged, done>>
       \/ /\ ~split_watchdog_check
          /\ \E okay \in BOOLEAN :
                /\ (Arrives(okay) /\ pinged' = TRUE) \/ (Lost(okay) /\ UNCHANGED pinged)
                /\ done' = okay
                /\ IF okay THEN EndsWell ELSE Retry("watchdog") /\ UNCHANGED heard
    /\ UNCHANGED <<scan, received, shared, source, read_age, write_age, link>>

MasterStep ==
    BeginScan \/ ThrottledScan \/ ReadChecksum \/ ReadMatrix \/ WriteSource \/ Ping

Next ==
    \/ Tick \/ LinkChanges \/ SourceChanges \/ SlaveStarts \/ MasterRestart
    \/ SlaveScan \/ Reboot \/ MasterStep

(* Both main loops come round and time passes; keys, cable and power do as    *)
(* they like.                                                                 *)
Spec ==
    /\ Init /\ [][Next]_vars
    /\ WF_vars(Tick) /\ WF_vars(MasterStep) /\ WF_vars(SlaveScan \/ Reboot)

-----------------------------------------------------------------------------
(* Every variable has its type.                                               *)
TypeOK ==
    /\ keys \in Data /\ smatrix \in Data /\ received \in Source /\ mirrored \in Source
    /\ {pinged, fed, done, last_connected} \subseteq BOOLEAN
    /\ uptime \in 0..(WATCHDOG + 1) /\ heard \in {"no", "begun", "yes"}
    /\ pc \in {"idle", "checksum", "data", "write", "watchdog"} /\ iter \in 1..RETRIES
    /\ curr_checksum \in {Crc[d] : d \in Data}
    /\ mmatrix \in Data \cup {Garbage} /\ last_matrix \in Data
    /\ source \in Source /\ sent \in Source
    /\ read_age \in 0..SYNC_THROTTLE /\ write_age \in 0..SYNC_THROTTLE
    /\ check_age \in 0..CHECK_TIMEOUT /\ connection_errors \in 0..UINT8_MAX
    /\ rows \in Data /\ link \in {"good", "bad"}

(* The slave's keys reach the master in the order they were pressed, and      *)
(* never as the slave did not have them, whatever was garbled, lost or read   *)
(* while it changed; only a restart or a lost connection releases them.       *)
OnlyForward ==
    [][rows' # rows => rows' = 0 \/ (rows' \in Data /\ rows < rows' /\ rows' <= keys)]_vars

(* "reset other half when disconnected" (matrix_common.c:105): no key of a    *)
(* half that is gone stays down.                                              *)
DisconnectReleases == pc = "idle" /\ ~is_transport_connected => rows = 0

(* With the cable in order and both halves up, so that the watchdog stays     *)
(* fed, the master comes to see the slave's matrix, even one that has the     *)
(* checksum of the last ...                                                   *)
MatrixArrives == <>[](link = "good" /\ fed /\ done) => <>[](rows = keys)

(* ... and what it mirrors arrives, also after writes that were lost although *)
(* its own copy says otherwise, and after either half restarted.              *)
SourceArrives ==
    \A x \in Source : <>[](link = "good" /\ fed /\ done /\ source = x) => <>[](mirrored = x)

(* The watchdog "will reboot the keyboard if no successful communication      *)
(* occurs within SPLIT_WATCHDOG_TIMEOUT" (docs/feature_split_keyboard.md:449).*)
RebootsOnlyUnheard == [][Reboot => heard # "yes"]_vars
=============================================================================
