------------------------ MODULE SplitTransportProofs ------------------------
(* For every sequence of matrices, every checksum that tells a garbled one    *)
(* apart, and every number of retries and errors: the master sees the slave's *)
(* matrices in their order only, and releases a half that it has lost.        *)
EXTENDS SplitTransport, TLAPS

Transaction == {"checksum", "data", "write", "watchdog"}
Sums == {Crc[d] : d \in Data}

(* What the assumption says of the single constants.                          *)
LEMMA Constants ==
    /\ 0 \in Data /\ Garbage \notin Data /\ 0 \in Source
    /\ \A d \in Data : d \in Nat
    /\ \A d \in Data : Crc[d] \in Sums
    /\ Crc[Garbage] \notin Sums
    /\ RETRIES \in Nat /\ 1 <= RETRIES
    /\ MAX_ERRORS \in Nat /\ 1 <= MAX_ERRORS /\ UINT8_MAX \in Nat /\ MAX_ERRORS <= UINT8_MAX
    /\ SYNC_THROTTLE \in Nat /\ CHECK_TIMEOUT \in Nat /\ WATCHDOG \in Nat
BY SplitAssumption DEF Sums

(* How the scan, the connection and the rows belong together: no row of a     *)
(* half that was not connected when the last scan ended.                      *)
Control ==
    /\ pc \in {"idle"} \cup Transaction /\ iter \in 1..RETRIES
    /\ curr_checksum \in Sums
    /\ check_age \in 0..CHECK_TIMEOUT /\ connection_errors \in 0..UINT8_MAX
    /\ last_connected \in BOOLEAN /\ rows \in Data
    /\ ~last_connected => rows = 0
    /\ DisconnectReleases

(* What each part of the master knows of the slave's matrix is either 0, as   *)
(* after a restart, or no older than what the next part knows.                *)
Ordered ==
    /\ keys \in Data /\ smatrix \in {0, keys}
    /\ last_matrix \in Data /\ last_matrix <= keys /\ rows <= keys
    /\ last_matrix = 0 \/ rows <= last_matrix
    /\ \/ mmatrix \in {0, Garbage}
       \/ mmatrix \in Data /\ rows <= mmatrix /\ last_matrix <= mmatrix /\ mmatrix <= keys

Others ==
    /\ received \in Source /\ mirrored \in Source /\ source \in Source /\ sent \in Source
    /\ pinged \in BOOLEAN /\ fed \in BOOLEAN /\ done \in BOOLEAN
    /\ uptime \in 0..(WATCHDOG + 1) /\ heard \in {"no", "begun", "yes"}
    /\ read_age \in 0..SYNC_THROTTLE /\ write_age \in 0..SYNC_THROTTLE
    /\ link \in {"good", "bad"}

IInv == Control /\ Ordered /\ Others

LEMMA InitIInv == Init => IInv
<1>. SUFFICES ASSUME Init PROVE IInv
    OBVIOUS
<1>1. 1 \in 1..RETRIES /\ Crc[0] \in Sums
    BY Constants
<1>2. Control
  <2>1. pc \in {"idle"} \cup Transaction /\ iter \in 1..RETRIES /\ curr_checksum \in Sums
      BY <1>1 DEF Init
  <2>2. check_age \in 0..CHECK_TIMEOUT /\ connection_errors \in 0..UINT8_MAX
      BY Constants DEF Init
  <2>3. rows = 0 /\ rows \in Data /\ last_connected \in BOOLEAN
      BY Constants DEF Init
  <2>. QED BY <2>1, <2>2, <2>3 DEF Control, DisconnectReleases
<1>3. Ordered
    BY Constants DEF Init, Ordered
<1>4. Others
  <2>1. received \in Source /\ mirrored \in Source /\ source \in Source /\ sent \in Source
      BY Constants DEF Init
  <2>2. /\ pinged \in BOOLEAN /\ fed \in BOOLEAN /\ done \in BOOLEAN
        /\ heard \in {"no", "begun", "yes"} /\ link \in {"good", "bad"}
      BY DEF Init
  <2>3. uptime \in 0..(WATCHDOG + 1) /\ read_age \in 0..SYNC_THROTTLE /\ write_age \in 0..SYNC_THROTTLE
      BY Constants DEF Init
  <2>. QED BY <2>1, <2>2, <2>3 DEF Others
<1>. QED BY <1>2, <1>3, <1>4 DEF IInv

-----------------------------------------------------------------------------
(* How a transaction may end.                                                 *)

LEMMA PostScan ==
    ASSUME Control, NEW c \in BOOLEAN, NEW m \in Data, matrix_post_scan(c, m)
    PROVE  /\ last_connected' = c /\ rows' \in {0, m}
           /\ ~c => rows' = 0
BY DEF matrix_post_scan, Control

(* After the last transaction, with what the scan made of the connection.     *)
LEMMA IdleControl ==
    ASSUME pc' = "idle", iter' = 1, curr_checksum' = Crc[0],
           check_age' \in 0..CHECK_TIMEOUT, connection_errors' \in 0..UINT8_MAX,
           last_connected' \in BOOLEAN, rows' \in Data,
           ~last_connected' => rows' = 0,
           connection_errors' < MAX_ERRORS \/ rows' = 0
    PROVE  Control'
<1>1. iter' \in 1..RETRIES /\ curr_checksum' \in Sums
    BY Constants
<1>2. pc' \in {"idle"} \cup Transaction
    OBVIOUS
<1>3. DisconnectReleases'
    BY DEF DisconnectReleases, is_transport_connected
<1>. QED BY <1>1, <1>2, <1>3 DEF Control

LEMMA EndScanControl ==
    ASSUME Control, last_matrix \in Data, NEW okay \in BOOLEAN, EndScan(okay, last_matrix)
    PROVE  Control' /\ rows' \in {0, last_matrix}
<1>1. pc' = "idle" /\ iter' = 1 /\ curr_checksum' = Crc[0]
    BY DEF EndScan
<1>2. CASE okay
  <2>1. connection_errors' = 0 /\ check_age' = check_age /\ matrix_post_scan(TRUE, last_matrix)
      BY <1>2 DEF EndScan
  <2>2. rows' \in {0, last_matrix} /\ last_connected' = TRUE
      BY <2>1, PostScan
  <2>3. check_age' \in 0..CHECK_TIMEOUT /\ connection_errors' \in 0..UINT8_MAX
      BY <2>1, Constants DEF Control
  <2>4. rows' \in Data /\ connection_errors' < MAX_ERRORS
      BY <2>1, <2>2, Constants
  <2>. QED BY <1>1, <2>2, <2>3, <2>4, IdleControl
<1>3. CASE ~okay
  <2>. DEFINE up == connection_errors' < MAX_ERRORS
  <2>1. /\ connection_errors' = IF connection_errors < UINT8_MAX THEN connection_errors + 1 ELSE UINT8_MAX
        /\ check_age' = check_age \/ check_age' = 0
      BY <1>3 DEF EndScan
  <2>4. connection_errors' \in 0..UINT8_MAX
      BY <2>1, Constants DEF Control
  <2>5. check_age' \in 0..CHECK_TIMEOUT
      BY <2>1, Constants DEF Control
  <2>2. matrix_post_scan(up, last_matrix)
      BY <1>3 DEF EndScan
  <2>3. last_connected' = up /\ rows' \in {0, last_matrix} /\ (~up => rows' = 0)
      BY <2>2 DEF matrix_post_scan, Control
  <2>6. rows' \in Data /\ last_connected' \in BOOLEAN
      BY <2>3, Constants
  <2>. QED BY <1>1, <2>3, <2>4, <2>5, <2>6, IdleControl
<1>. QED BY <1>2, <1>3

LEMMA RetryControl ==
    ASSUME Control, last_matrix \in Data, NEW first \in Transaction, Retry(first)
    PROVE  Control' /\ rows' \in {0, rows, last_matrix}
<1>1. CASE iter < (IF is_transport_connected THEN RETRIES ELSE 1)
  <2>1. /\ iter' = iter + 1 /\ pc' = first
        /\ UNCHANGED <<curr_checksum, check_age, connection_errors, last_connected, rows>>
      BY <1>1 DEF Retry, conn
  <2>2. iter' \in 1..RETRIES
      BY <1>1, <2>1, Constants DEF Control
  <2>. QED BY <2>1, <2>2 DEF Control, DisconnectReleases, Transaction
<1>2. CASE ~(iter < (IF is_transport_connected THEN RETRIES ELSE 1))
  <2>1. EndScan(FALSE, last_matrix)
      BY <1>2 DEF Retry
  <2>. QED BY <2>1, EndScanControl
<1>. QED BY <1>1, <1>2

LEMMA ThenControl ==
    ASSUME Control, NEW next \in Transaction, Then(next)
    PROVE  Control' /\ rows' = rows
BY Constants DEF Then, conn, Control, DisconnectReleases, Transaction

-----------------------------------------------------------------------------
(* Every step keeps the invariant, and moves the rows forward if at all.      *)
Forward == rows' = rows \/ rows' = 0 \/ (rows' \in Data /\ rows < rows' /\ rows' <= keys)

(* A scan that goes on or ends with what was last read.                       *)
LEMMA ForwardFromLast ==
    ASSUME Ordered, rows \in Data, rows' \in {0, rows, last_matrix}
    PROVE  Forward
BY Constants DEF Ordered, Forward

(* The step leaves the slave's and the master's matrices alone.               *)
LEMMA OrderedKept ==
    ASSUME Ordered, rows \in Data, rows' \in {0, rows, last_matrix},
           UNCHANGED <<keys, smatrix, mmatrix, last_matrix>>
    PROVE  Ordered'
BY Constants DEF Ordered

(* Neither does it touch the master's scan, its connection or the rows.       *)
LEMMA ControlKept ==
    ASSUME Control, UNCHANGED <<pc, iter, curr_checksum, connection_errors, last_connected, rows>>,
           check_age' \in 0..CHECK_TIMEOUT
    PROVE  Control'
BY DEF Control, DisconnectReleases, is_transport_connected

LEMMA MasterRestartControl == ASSUME MasterRestart PROVE Control' /\ rows' = 0
<1>1. 0 \in 0..CHECK_TIMEOUT /\ 0 \in 0..UINT8_MAX /\ 0 \in Data
    BY Constants
<1>2. /\ pc' = "idle" /\ iter' = 1 /\ curr_checksum' = Crc[0]
      /\ check_age' = 0 /\ connection_errors' = 0 /\ last_connected' = FALSE /\ rows' = 0
    BY DEF MasterRestart
<1>. QED BY <1>1, <1>2, IdleControl

(* A slave that starts has no matrix yet.                                     *)
LEMMA SlaveStartsInv ==
    ASSUME IInv, SlaveStarts
    PROVE  IInv' /\ Forward
<1>1. Others'
  <2>1. /\ received' = 0 /\ mirrored' = 0 /\ pinged' = FALSE /\ fed' = FALSE
        /\ uptime' = 0 /\ heard' = "no" /\ UNCHANGED <<source, sent, done, read_age, write_age, link>>
      BY DEF SlaveStarts, shared, ages
  <2>2. uptime' \in 0..(WATCHDOG + 1) /\ received' \in Source /\ mirrored' \in Source
      BY <2>1, Constants
  <2>. QED BY <2>1, <2>2 DEF IInv, Others
<1>2. Control' /\ rows' = rows
  <2>1. UNCHANGED <<pc, iter, curr_checksum, connection_errors, last_connected, rows, check_age>>
      BY DEF SlaveStarts, ages, conn
  <2>2. check_age' \in 0..CHECK_TIMEOUT
      BY <2>1 DEF IInv, Control
  <2>. QED BY <2>1, <2>2, ControlKept DEF IInv
<1>3. Ordered'
  <2>1. smatrix' = 0 /\ UNCHANGED <<keys, mmatrix, last_matrix>>
      BY DEF SlaveStarts, shared
  <2>. QED BY <1>2, <2>1 DEF IInv, Ordered
<1>. QED BY <1>1, <1>2, <1>3 DEF IInv, Forward

LEMMA StepInv == IInv /\ [Next]_vars => IInv' /\ Forward
<1>. SUFFICES ASSUME IInv, [Next]_vars PROVE IInv' /\ Forward
    OBVIOUS
<1>. USE DEF IInv
<1>0. /\ rows \in Data /\ last_matrix \in Data /\ 0 \in Data
      /\ check_age \in 0..CHECK_TIMEOUT
    BY Constants DEF Control, Ordered
<1>a. ASSUME UNCHANGED <<keys, smatrix, mmatrix, last_matrix, pc, iter, curr_checksum,
                         connection_errors, last_connected, rows>>,
             check_age' \in 0..CHECK_TIMEOUT, Others'
      PROVE  IInv' /\ Forward
  <2>1. Control'
      BY <1>a, ControlKept
  <2>2. Ordered'
      BY <1>0, <1>a, OrderedKept
  <2>. QED BY <1>a, <2>1, <2>2 DEF Forward
<1>1. CASE Tick
  <2>1. /\ read_age' = Older(read_age, SYNC_THROTTLE) /\ write_age' = Older(write_age, SYNC_THROTTLE)
        /\ check_age' = Older(check_age, CHECK_TIMEOUT) /\ uptime' = Older(uptime, WATCHDOG + 1)
        /\ UNCHANGED <<keys, smatrix, mmatrix, last_matrix, pc, iter, curr_checksum,
                        connection_errors, last_connected, rows>>
        /\ UNCHANGED <<received, mirrored, pinged, fed, heard, sent, source, done, link>>
      BY <1>1 DEF Tick, shared, conn
  <2>2. check_age' \in 0..CHECK_TIMEOUT
      BY <1>0, <2>1, Constants DEF Older
  <2>3. uptime' \in 0..(WATCHDOG + 1)
      BY <2>1, Constants DEF Older, Others
  <2>4. read_age' \in 0..SYNC_THROTTLE /\ write_age' \in 0..SYNC_THROTTLE
      BY <2>1, Constants DEF Older, Others
  <2>5. Others'
      BY <2>1, <2>3, <2>4 DEF Others
  <2>. QED BY <1>a, <2>1, <2>2, <2>5
<1>2. CASE LinkChanges
  <2>1. Others'
      BY <1>2 DEF LinkChanges, Others, slave, scan, shared, ages
  <2>. QED BY <1>0, <1>2, <1>a, <2>1 DEF LinkChanges, slave, scan, shared, ages, conn
<1>3. CASE SourceChanges
  <2>1. Others'
      BY <1>3 DEF SourceChanges, Others, slave, scan, shared, ages
  <2>. QED BY <1>0, <1>3, <1>a, <2>1 DEF SourceChanges, slave, scan, shared, ages, conn
<1>5. CASE MasterRestart
  <2>1. Control' /\ rows' = 0
      BY <1>5, MasterRestartControl
  <2>2. Ordered'
    <3>1. mmatrix' = 0 /\ last_matrix' = 0 /\ UNCHANGED <<keys, smatrix>>
        BY <1>5 DEF MasterRestart, slave, scan
    <3>. QED BY <2>1, <3>1, Constants DEF Ordered
  <2>3. Others'
    <3>1. /\ source' = 0 /\ sent' = 0 /\ done' = FALSE /\ read_age' = 0 /\ write_age' = 0
          /\ UNCHANGED <<received, mirrored, pinged, fed, uptime, heard, link>>
        BY <1>5 DEF MasterRestart, slave, scan
    <3>2. /\ source' \in Source /\ sent' \in Source
          /\ read_age' \in 0..SYNC_THROTTLE /\ write_age' \in 0..SYNC_THROTTLE
        BY <3>1, Constants
    <3>. QED BY <3>1, <3>2 DEF Others
  <2>. QED BY <2>1, <2>2, <2>3 DEF Forward
<1>6. CASE SlaveScan
  <2>1. /\ smatrix' = keys' /\ mirrored' = received /\ fed' = pinged
        /\ UNCHANGED <<received, pinged, uptime, heard, source, sent, done, read_age, write_age, link>>
        /\ UNCHANGED <<mmatrix, last_matrix, pc, iter, curr_checksum, check_age,
                        connection_errors, last_connected, rows>>
      BY <1>6 DEF SlaveScan, shared, ages, conn
  <2>2. keys' \in Data /\ keys <= keys'
      BY <1>6, Constants DEF SlaveScan, Ordered
  <2>3. Ordered'
      BY <1>0, <2>1, <2>2, Constants DEF Ordered
  <2>4. Others'
      BY <2>1 DEF Others
  <2>5. Control'
      BY <1>0, <2>1, ControlKept
  <2>. QED BY <2>1, <2>3, <2>4, <2>5 DEF Forward
<1>7. CASE SlaveStarts \/ Reboot
    BY <1>7, SlaveStartsInv DEF Reboot
<1>8. CASE MasterStep
  <2>1. CASE BeginScan
    <3>1. Control' /\ rows' = rows
        BY <2>1, Constants DEF BeginScan, Control, DisconnectReleases, Transaction, ages, conn
    <3>2. Others'
        BY <2>1 DEF BeginScan, Others, shared, ages
    <3>. QED BY <1>0, <2>1, <3>1, <3>2, OrderedKept, ForwardFromLast DEF BeginScan, shared
  <2>2. CASE ThrottledScan
    <3>1. last_connected' = FALSE /\ rows' = 0
        BY <1>0, <2>2, PostScan DEF ThrottledScan
    <3>2. Control'
        BY <1>0, <2>2, <3>1 DEF ThrottledScan, Control, DisconnectReleases, ages
    <3>3. Others'
        BY <2>2 DEF ThrottledScan, Others, slave, scan, shared, ages
    <3>. QED BY <1>0, <2>2, <3>1, <3>2, <3>3, OrderedKept, ForwardFromLast
             DEF ThrottledScan, slave, scan, shared
  <2>3. CASE ReadChecksum
    <3>1. Others'
        BY <2>3 DEF ReadChecksum, Others, slave, scan
    <3>2. ASSUME NEW sum \in {Crc[d] : d \in IF link = "good" THEN {smatrix} ELSE Data}, ReadData(sum),
                 pc' = "data", curr_checksum' = sum, UNCHANGED <<iter, last_matrix, check_age, conn>>
          PROVE  IInv' /\ Forward
      <4>1. sum \in Sums
        <5>1. smatrix \in Data
            BY Constants DEF Ordered
        <5>2. PICK d \in IF link = "good" THEN {smatrix} ELSE Data : sum = Crc[d]
            BY <3>2
        <5>. QED BY <5>1, <5>2, Constants
      <4>2. Control'
          BY <3>2, <4>1 DEF Control, DisconnectReleases, Transaction, conn
      <4>. QED BY <1>0, <2>3, <3>1, <3>2, <4>2, OrderedKept, ForwardFromLast
               DEF ReadChecksum, slave, scan, conn
    <3>3. ASSUME NEW sum \in {Crc[d] : d \in IF link = "good" THEN {smatrix} ELSE Data}, ~ReadData(sum),
                 last_matrix' = mmatrix, Then("write")
          PROVE  IInv' /\ Forward
      <4>1. Control' /\ rows' = rows
          BY <3>3, ThenControl DEF Transaction
      <4>2. sum = Crc[mmatrix] /\ \E d \in Data : sum = Crc[d]
          BY <1>0, <3>3 DEF ReadData, Ordered
      <4>3. mmatrix # Garbage
          BY <4>2, Constants
      <4>4. Ordered'
          BY <1>0, <2>3, <3>3, <4>1, <4>3, Constants DEF ReadChecksum, Ordered, slave, scan
      <4>. QED BY <3>1, <4>1, <4>4 DEF Forward
    <3>4. ASSUME Retry("checksum"), UNCHANGED last_matrix
          PROVE  IInv' /\ Forward
      <4>1. Control' /\ rows' \in {0, rows, last_matrix}
          BY <1>0, <3>4, RetryControl DEF Transaction
      <4>. QED BY <1>0, <2>3, <3>1, <3>4, <4>1, OrderedKept, ForwardFromLast DEF ReadChecksum, slave, scan
    <3>. QED BY <2>3, <3>2, <3>3, <3>4 DEF ReadChecksum
  <2>4. CASE ReadMatrix
    <3>. PICK okay \in BOOLEAN :
            /\ mmatrix' \in {smatrix, mmatrix, Garbage}
            /\ IF okay /\ Matches
               THEN last_matrix' = mmatrix' /\ read_age' = 0 /\ Then("write")
               ELSE Retry("checksum") /\ UNCHANGED <<last_matrix, read_age>>
            /\ okay => mmatrix' \in {smatrix, Garbage}
        BY <2>4 DEF ReadMatrix
    <3>1. UNCHANGED <<keys, smatrix>>
        BY <2>4 DEF ReadMatrix, slave, scan
    <3>2. Others'
        BY <2>4, Constants DEF ReadMatrix, Others, slave, scan
    <3>3. CASE okay /\ Matches
      <4>1. Control' /\ rows' = rows
          BY <3>3, ThenControl DEF Transaction
      <4>2. mmatrix' = smatrix
          BY <3>3, Constants DEF Matches, Control
      <4>3. Ordered'
          BY <1>0, <3>1, <3>3, <4>1, <4>2, Constants DEF Ordered
      <4>. QED BY <3>2, <4>1, <4>3 DEF Forward
    <3>4. CASE ~(okay /\ Matches)
      <4>1. Control' /\ rows' \in {0, rows, last_matrix}
          BY <1>0, <3>4, RetryControl DEF Transaction
      <4>2. Ordered'
          BY <1>0, <3>1, <3>4, <4>1, Constants DEF Ordered
      <4>. QED BY <1>0, <3>2, <4>1, <4>2, ForwardFromLast
    <3>. QED BY <3>3, <3>4
  <2>5. CASE WriteSource
    <3>1. Control' /\ rows' \in {0, rows, last_matrix}
        BY <1>0, <2>5, ThenControl, RetryControl DEF WriteSource, Transaction
    <3>2. Others'
        BY <2>5, Constants DEF WriteSource, Others, scan
    <3>. QED BY <1>0, <2>5, <3>1, <3>2, OrderedKept, ForwardFromLast DEF WriteSource, scan
  <2>6. CASE Ping
    <3>1. ASSUME EndsWell PROVE Control' /\ rows' \in {0, rows, last_matrix}
        BY <1>0, <3>1, EndScanControl DEF EndsWell
    <3>2. Control' /\ rows' \in {0, rows, last_matrix}
        BY <1>0, <2>6, <3>1, RetryControl DEF Ping, Transaction
    <3>3. Others'
        BY <2>6 DEF Ping, EndsWell, Others, scan, shared
    <3>. QED BY <1>0, <2>6, <3>2, <3>3, OrderedKept, ForwardFromLast DEF Ping, scan, shared
  <2>. QED BY <1>8, <2>1, <2>2, <2>3, <2>4, <2>5, <2>6 DEF MasterStep
<1>9. CASE UNCHANGED vars
  <2>1. Others'
      BY <1>9 DEF vars, Others, slave, scan, shared, ages
  <2>. QED BY <1>0, <1>9, <1>a, <2>1 DEF vars, slave, scan, shared, ages, conn
<1>. QED BY <1>1, <1>2, <1>3, <1>5, <1>6, <1>7, <1>8, <1>9 DEF Next

LEMMA Inductive == Spec => []IInv
<1>. QED BY InitIInv, StepInv, PTL DEF Spec

-----------------------------------------------------------------------------
(* Every variable keeps its type (split_util.c, transactions.c): connection   *)
(* errors stop counting where their byte ends, and no handler tries more      *)
(* often than it may.                                                         *)
THEOREM TypeCorrectness == Spec => []TypeOK
<1>1. IInv => TypeOK
  <2>1. ASSUME IInv
        PROVE  /\ keys \in Data /\ smatrix \in Data /\ last_matrix \in Data
               /\ mmatrix \in Data \cup {Garbage}
      BY <2>1, Constants DEF IInv, Ordered
  <2>2. IInv => /\ pc \in {"idle", "checksum", "data", "write", "watchdog"} /\ iter \in 1..RETRIES
                /\ curr_checksum \in Sums /\ check_age \in 0..CHECK_TIMEOUT
                /\ connection_errors \in 0..UINT8_MAX
                /\ rows \in Data /\ last_connected \in BOOLEAN
      BY DEF IInv, Control, Transaction
  <2>. QED BY <2>1, <2>2 DEF TypeOK, IInv, Others, Sums
<1>. QED BY <1>1, Inductive, PTL

(* A half that is taken for gone has no key down (matrix_common.c:105).       *)
THEOREM LostHalfReleased == Spec => []DisconnectReleases
<1>1. IInv => DisconnectReleases
    BY DEF IInv, Control
<1>. QED BY <1>1, Inductive, PTL

(* The rows of the other half only move on to what its keys are or were, or   *)
(* are released, whatever the cable does and whoever restarts.                *)
THEOREM RowsInOrder == Spec => OnlyForward
<1>1. IInv /\ [Next]_vars => [rows' # rows => rows' = 0 \/ (rows' \in Data /\ rows < rows' /\ rows' <= keys)]_vars
    BY StepInv DEF Forward
<1>. QED BY <1>1, Inductive, PTL DEF Spec, OnlyForward
=============================================================================
