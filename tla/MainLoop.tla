------------------------------ MODULE MainLoop ------------------------------
(***************************************************************************)
(* One iteration after the other of process_main (src/src/nf.c) around     *)
(* process_pkt: a burst of mbufs is received, processed and taken apart    *)
(* into the packets that are freed and those that are sent to each device; *)
(* what a device does not take is freed.  An mbuf is the number of its     *)
(* packet in the burst.  The device is external: it takes any number of    *)
(* the mbufs that are offered, from the first on.                          *)
(***************************************************************************)
EXTENDS DataPlane, SequencesExt

CONSTANTS
  VIGOR_DEVICES_COUNT,
  FLOOD_PORT

Devices == 0..VIGOR_DEVICES_COUNT - 1

(* The flooding of the prototype needs two devices, as its assertion says. *)
ASSUME MainLoopAssumption ==
  /\ VIGOR_DEVICES_COUNT \in Nat
  /\ Device \in Devices
  /\ Outputs \subseteq Devices \cup {FLOOD_PORT}
  /\ FLOOD_PORT \notin Devices
  /\ FLOOD_PORT \in Outputs => VIGOR_DEVICES_COUNT = 2

VARIABLES
  mbufs_to_send,   \* the mbufs for every device, NotSorted before they are known
  freed,           \* history: mbufs that rte_pktmbuf_free was called for
  taken            \* history: mbufs that the devices took

io == <<mbufs_to_send, freed, taken>>

NotSorted == [dev \in {} |-> <<>>]

MainInit ==
  /\ Init
  /\ mbufs_to_send = NotSorted
  /\ freed = <<>>
  /\ taken = [dev \in Devices |-> <<>>]

(* Fault: a flooded packet goes back to where it came from. *)
FaultSendDeviceFloodsBack(dst) == IF dst = FLOOD_PORT THEN Device ELSE dst

SendDevice(dst) == IF dst = FLOOD_PORT THEN 1 - Device ELSE dst

(* The loop over the processed packets: after k of them, the mbufs freed   *)
(* and those to send to every device.                                      *)
SortOne(r, k) ==
  IF dst_devices[k] = Device
    THEN [freed |-> Append(r.freed, k), to_send |-> r.to_send]
    ELSE [freed |-> r.freed,
          to_send |-> [r.to_send EXCEPT ![SendDevice(dst_devices[k])] = Append(@, k)]]

Sorted[k \in 0..Len(batch)] ==
  IF k = 0 THEN [freed |-> <<>>, to_send |-> [dev \in Devices |-> <<>>]]
  ELSE SortOne(Sorted[k - 1], k)

SortMbufs ==
  /\ pc = "done"
  /\ mbufs_to_send = NotSorted
  /\ mbufs_to_send' = Sorted[Len(batch)].to_send
  /\ freed' = Sorted[Len(batch)].freed
  /\ UNCHANGED <<vars, taken>>

(* rte_eth_tx_burst for the next device, and the loop that frees the rest. *)
(* Fault: the loop starts one too late.                                    *)
Rest(mbufs, sent_count) == SubSeq(mbufs, sent_count + 1, Len(mbufs))

FaultTxBurstLeaks(dev, sent_count) ==
  /\ mbufs_to_send[dev] # <<>>
  /\ \A d \in 0..dev - 1 : mbufs_to_send[d] = <<>>
  /\ taken' = [taken EXCEPT ![dev] = SubSeq(mbufs_to_send[dev], 1, sent_count)]
  /\ freed' = freed \o Rest(mbufs_to_send[dev], sent_count + 1)
  /\ mbufs_to_send' = [mbufs_to_send EXCEPT ![dev] = <<>>]
  /\ UNCHANGED vars

tx_burst(dev, sent_count) ==
  /\ mbufs_to_send[dev] # <<>>
  /\ \A d \in 0..dev - 1 : mbufs_to_send[d] = <<>>
  /\ taken' = [taken EXCEPT ![dev] = SubSeq(mbufs_to_send[dev], 1, sent_count)]
  /\ freed' = freed \o Rest(mbufs_to_send[dev], sent_count)
  /\ mbufs_to_send' = [mbufs_to_send EXCEPT ![dev] = <<>>]
  /\ UNCHANGED vars

AllOffered == mbufs_to_send # NotSorted /\ \A dev \in Devices : mbufs_to_send[dev] = <<>>

(* VIGOR_LOOP_END; the variables of the iteration go out of scope. *)
LoopEnd ==
  /\ AllOffered
  /\ Return
  /\ mbufs_to_send' = NotSorted
  /\ freed' = <<>>
  /\ taken' = [dev \in Devices |-> <<>>]

MainNext ==
  \/ ProcessBurst /\ UNCHANGED io
  \/ SortMbufs
  \/ \E dev \in DOMAIN mbufs_to_send :
       \E sent_count \in 0..Len(mbufs_to_send[dev]) : tx_burst(dev, sent_count)
  \/ LoopEnd

MainSpec == MainInit /\ [][MainNext]_<<vars, io>>
-----------------------------------------------------------------------------
(* No mbuf is leaked, freed twice, or freed while a device still sends it: *)
(* when the iteration ends each one was either freed or taken by one       *)
(* device, once, whatever the devices took.                                *)
MbufsReleasedOnce ==
  AllOffered =>
    \A i \in 1..Len(batch) :
      Cardinality({j \in DOMAIN freed : freed[j] = i})
        + Cardinality({p \in Devices \X (1..MaxBatch) :
                         p[2] \in DOMAIN taken[p[1]] /\ taken[p[1]][p[2]] = i}) = 1

(* Packets leave through a device in the order of their arrival, only when *)
(* a handler run for them has committed, and never through the device they *)
(* came from.  Those of registered sets leave where that run sent them.    *)
LeavesInOrder ==
  \A dev \in Devices :
    /\ \A i, j \in DOMAIN taken[dev] : i < j => taken[dev][i] < taken[dev][j]
    /\ \A i \in DOMAIN taken[dev] :
         /\ dev # Device
         /\ \E r \in ToSet(done) :
              r.pkt = taken[dev][i] /\ (r.kind = "registered" => SendDevice(r.dst) = dev)
=============================================================================
