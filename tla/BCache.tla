------------------------------- MODULE BCache -------------------------------
(***************************************************************************)
(* The hashed LRU buffer cache of kernel/bcache_enhanced.c: get_block,     *)
(* put_block, sync_block and flush_all_blocks, called by concurrent kernel *)
(* threads.                                                                *)
(*                                                                         *)
(* A buffer is an integer 1..NBUF.  The hash table is abstracted to the   *)
(* key each buffer carries (a lookup finds the buffer whose key matches);  *)
(* the LRU list is a sequence, most recently used first.  One device is   *)
(* modelled, so a key is a block number; NoKey is the dev == 0 of a buffer *)
(* never used.  Block contents are versions: disk[k] is the version the   *)
(* device holds, latest[k] the last version any thread wrote, and a       *)
(* buffer's data is a <<block, version>> pair, or NoData before its first *)
(* read.  bcache.lock is a variable only while flush_all_blocks holds it  *)
(* across its loop; every other critical section of it is one action.     *)
(* slock[b] is the holder of b's sleep-lock.                               *)
(***************************************************************************)
EXTENDS Naturals, Sequences, SequencesExt, FiniteSets

CONSTANTS
    NBUF,        \* buffers of the cache
    Blocks,      \* block numbers the threads ask for
    Threads,     \* kernel threads calling get_block
    NoKey,       \* dev == 0: the buffer was never keyed
    NoThread,    \* a free lock
    NoData,      \* the contents of a buffer never read
    MaxVersion   \* bound: no block is written more often than this

Bufs == 1..NBUF
Versions == 0..MaxVersion

VARIABLES
    key,       \* b->block_num (with b->dev)
    valid,     \* b->valid
    dirty,     \* b->dirty
    ref,       \* b->ref_count
    lru,       \* the LRU list from lru_head.lru_next on
    slock,     \* the holder of b->lock
    data,      \* b->data
    disk,      \* the block on the device
    latest,    \* the last version written to the block through the cache
    flusher,   \* the thread in flush_all_blocks, holding bcache.lock
    flushed,   \* the buffers its loop has passed
    pc,        \* where a thread is: idle, waiting for a sleep-lock, holding,
               \* in flush_all_blocks, or panicked
    tb         \* the buffer a thread's get_block returned

vars == <<key, valid, dirty, ref, lru, slock, data, disk, latest, flusher,
          flushed, pc, tb>>

TypeOK ==
    /\ key \in [Bufs -> Blocks \cup {NoKey}]
    /\ valid \in [Bufs -> BOOLEAN]
    /\ dirty \in [Bufs -> BOOLEAN]
    /\ ref \in [Bufs -> 0..Cardinality(Threads)]
    /\ lru \in Seq(Bufs)
    /\ slock \in [Bufs -> Threads \cup {NoThread}]
    /\ data \in [Bufs -> (Blocks \X Versions) \cup {NoData}]
    /\ disk \in [Blocks -> Versions]
    /\ latest \in [Blocks -> Versions]
    /\ flusher \in Threads \cup {NoThread}
    /\ flushed \subseteq Bufs
    /\ pc \in [Threads -> {"idle", "hit", "miss", "hold", "flush", "panic"}]
    /\ tb \in [Threads -> Bufs]

(* bcache_enhanced_init: every buffer is pushed on the head of the LRU    *)
(* list in array order, so the last buffer is the most recently used.    *)
Init ==
    /\ key = [b \in Bufs |-> NoKey]
    /\ valid = [b \in Bufs |-> FALSE]
    /\ dirty = [b \in Bufs |-> FALSE]
    /\ ref = [b \in Bufs |-> 0]
    /\ lru = [i \in 1..NBUF |-> NBUF + 1 - i]
    /\ slock = [b \in Bufs |-> NoThread]
    /\ data = [b \in Bufs |-> NoData]
    /\ disk = [k \in Blocks |-> 0]
    /\ latest = [k \in Blocks |-> 0]
    /\ flusher = NoThread
    /\ flushed = {}
    /\ pc = [t \in Threads |-> "idle"]
    /\ tb = [t \in Threads |-> 1]

(* The least recently used buffer with ref_count 0: the scan from         *)
(* lru_head.lru_prev backwards.                                           *)
LruVictim ==
    lru[CHOOSE i \in DOMAIN lru :
            /\ ref[lru[i]] = 0
            /\ \A j \in DOMAIN lru : j > i => ref[lru[j]] # 0]

(***************************************************************************)
(* get_block, under the cache lock: on a hit, take a reference; on a      *)
(* miss, rekey the least recently used free buffer (invalid, clean,       *)
(* ref_count 1), whatever it still owed the disk.  Either way the lock is *)
(* released before acquiresleep.  No free buffer is the panic.            *)
(***************************************************************************)
GetBlock(t, blk) ==
    /\ pc[t] = "idle" /\ flusher = NoThread
    /\ IF \E b \in Bufs : key[b] = blk
         THEN LET b == CHOOSE b \in Bufs : key[b] = blk
              IN /\ ref' = [ref EXCEPT ![b] = @ + 1]
                 /\ tb' = [tb EXCEPT ![t] = b]
                 /\ pc' = [pc EXCEPT ![t] = "hit"]
                 /\ UNCHANGED <<key, valid, dirty>>
       ELSE IF \E b \in Bufs : ref[b] = 0
         THEN LET b == LruVictim
              IN /\ key' = [key EXCEPT ![b] = blk]
                 /\ valid' = [valid EXCEPT ![b] = FALSE]
                 /\ dirty' = [dirty EXCEPT ![b] = FALSE]
                 /\ ref' = [ref EXCEPT ![b] = 1]
                 /\ tb' = [tb EXCEPT ![t] = b]
                 /\ pc' = [pc EXCEPT ![t] = "miss"]
       ELSE /\ pc' = [pc EXCEPT ![t] = "panic"]
            /\ UNCHANGED <<key, valid, dirty, ref, tb>>
    /\ UNCHANGED <<lru, slock, data, disk, latest, flusher, flushed>>

(* acquiresleep(&b->lock), then return; the miss path first reads the   *)
(* block from disk if the buffer is not valid.                            *)
AcquireSleep(t) ==
    LET b == tb[t] IN
    /\ pc[t] \in {"hit", "miss"}
    /\ slock[b] = NoThread
    /\ slock' = [slock EXCEPT ![b] = t]
    /\ IF pc[t] = "miss" /\ ~valid[b]
         THEN /\ data' = [data EXCEPT ![b] = <<key[b], disk[key[b]]>>]
              /\ valid' = [valid EXCEPT ![b] = TRUE]
         ELSE UNCHANGED <<data, valid>>
    /\ pc' = [pc EXCEPT ![t] = "hold"]
    /\ UNCHANGED <<key, dirty, ref, lru, disk, latest, flusher, flushed, tb>>

(* The holder writes a new version of the block into the buffer and       *)
(* marks it dirty (mark_dirty of spec 4.2; no caller is in the code).     *)
MarkDirty(t) ==
    LET b == tb[t] IN
    /\ pc[t] = "hold"
    /\ latest[key[b]] < MaxVersion
    /\ latest' = [latest EXCEPT ![key[b]] = @ + 1]
    /\ data' = [data EXCEPT ![b] = <<key[b], latest[key[b]] + 1>>]
    /\ dirty' = [dirty EXCEPT ![b] = TRUE]
    /\ UNCHANGED <<key, valid, ref, lru, slock, disk, flusher, flushed, pc, tb>>

(* The device write of a buffer: its data reaches the disk.               *)
WriteBack(b) == disk' = [disk EXCEPT ![key[b]] = data[b][2]]

(* sync_block: write a dirty buffer back and clear dirty.                 *)
SyncBlock(t) ==
    LET b == tb[t] IN
    /\ pc[t] = "hold"
    /\ dirty[b]
    /\ WriteBack(b)
    /\ dirty' = [dirty EXCEPT ![b] = FALSE]
    /\ UNCHANGED <<key, valid, ref, lru, slock, data, latest, flusher, flushed,
                   pc, tb>>

(* put_block: release the sleep-lock; under the cache lock drop the       *)
(* reference, and on the last one move the buffer to the LRU head.        *)
PutBlock(t) ==
    LET b == tb[t] IN
    /\ pc[t] = "hold" /\ flusher = NoThread
    /\ slock' = [slock EXCEPT ![b] = NoThread]
    /\ ref' = [ref EXCEPT ![b] = @ - 1]
    /\ lru' = IF ref[b] = 1 THEN <<b>> \o SelectSeq(lru, LAMBDA x : x # b)
                            ELSE lru
    /\ pc' = [pc EXCEPT ![t] = "idle"]
    /\ UNCHANGED <<key, valid, dirty, data, disk, latest, flusher, flushed, tb>>

(***************************************************************************)
(* flush_all_blocks: take bcache.lock and, for each keyed dirty buffer in *)
(* hash order, acquiresleep, write it back, clear dirty, releasesleep;    *)
(* release the lock at the end.  acquiresleep of a buffer another thread  *)
(* holds sleeps with the spinlock held, and sched() panics ("sched        *)
(* locks").  The hash order is abstracted: any buffer not yet passed.     *)
(***************************************************************************)
FlushStart(t) ==
    /\ pc[t] = "idle" /\ flusher = NoThread
    /\ flusher' = t
    /\ flushed' = {}
    /\ pc' = [pc EXCEPT ![t] = "flush"]
    /\ UNCHANGED <<key, valid, dirty, ref, lru, slock, data, disk, latest, tb>>

FlushBuf(t, b) ==
    /\ pc[t] = "flush"
    /\ b \notin flushed /\ key[b] # NoKey /\ dirty[b]
    /\ IF slock[b] = NoThread
         THEN /\ WriteBack(b)
              /\ dirty' = [dirty EXCEPT ![b] = FALSE]
              /\ flushed' = flushed \cup {b}
              /\ UNCHANGED pc
         ELSE /\ pc' = [pc EXCEPT ![t] = "panic"]
              /\ UNCHANGED <<disk, dirty, flushed>>
    /\ UNCHANGED <<key, valid, ref, lru, slock, data, latest, flusher, tb>>

FlushEnd(t) ==
    /\ pc[t] = "flush"
    /\ \A b \in Bufs \ flushed : key[b] = NoKey \/ ~dirty[b]
    /\ flusher' = NoThread
    /\ pc' = [pc EXCEPT ![t] = "idle"]
    /\ UNCHANGED <<key, valid, dirty, ref, lru, slock, data, disk, latest,
                   flushed, tb>>

Next ==
    \E t \in Threads :
        \/ \E blk \in Blocks : GetBlock(t, blk)
        \/ AcquireSleep(t) \/ MarkDirty(t) \/ SyncBlock(t) \/ PutBlock(t)
        \/ FlushStart(t) \/ FlushEnd(t)
        \/ \E b \in Bufs : FlushBuf(t, b)

Spec == Init /\ [][Next]_vars

-----------------------------------------------------------------------------
(* Spec 4.2 and the Buffer entity: a thread holding a buffer's sleep-lock *)
(* has the block's current contents, the last version written through the *)
(* cache.  Only the inserting thread may hold the sleep-lock during the    *)
(* read (the others wait on it), and dirty means a write-back is owed, so *)
(* neither a hit on a block still being loaded nor the recycling of a     *)
(* dirty buffer may hand a thread stale data.                             *)
HeldIsCurrent ==
    \A t \in Threads :
        pc[t] = "hold" => data[tb[t]] = <<key[tb[t]], latest[key[tb[t]]]>>

====
