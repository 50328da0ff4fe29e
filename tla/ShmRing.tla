------------------------------- MODULE ShmRing -------------------------------
(***************************************************************************)
(* One direction of the channel between the host proxy and a guest proxy:  *)
(* a byte ring in shared memory with one writer and one reader             *)
(* (proxy/shmring.c, proxy/channel.c).  The bodies of shmring_lock and     *)
(* shmring_unlock are commented out, so the two sides interleave: every    *)
(* check of the header fields and every store to one is a step of its own. *)
(* The compiler keeps one store per field, but nothing orders the reader's *)
(* two stores (the code has no barrier there), so they happen in either    *)
(* order.                                                                  *)
(*                                                                         *)
(* A byte is the number of its message (modulo NumMsgs), its place in the  *)
(* message and the message's length: the type byte that                    *)
(* channel_get_msg_type reads gives the length of the whole message.       *)
(***************************************************************************)
EXTENDS Integers, Sequences

CONSTANTS RingSize,   \* ring_size, bytes after the header
          MsgSizes,   \* the lengths of the messages (channel_get_type_size)
          NumMsgs     \* messages are numbered modulo this

VARIABLES hdr,        \* struct ring_header: write_pos, read_pos, full
          bytes,      \* the buffer
          writer,     \* the writer's step, its message and its length
          reader,     \* the reader's step and the length it reads
          garbled,    \* the reader was handed bytes that are not the next message
          met         \* after some push the two positions were equal

shmVars == <<hdr, bytes, writer, reader, garbled, met>>

Blank == [msg |-> NumMsgs, at |-> 0, len |-> 1]

\* shmring_reset, by the host before the guest starts
Init ==
  /\ hdr = [write_pos |-> 0, read_pos |-> 0, full |-> FALSE]
  /\ bytes = [i \in 0..RingSize-1 |-> Blank]
  /\ writer = [pc |-> "idle", msg |-> 0, len |-> 0]
  /\ reader = [pc |-> "idle", msg |-> 0, len |-> 0, todo |-> {}]
  /\ garbled = FALSE /\ met = FALSE

\* shmring_get_freesz with the fields it reads at one moment
shmring_get_freesz ==
  IF ~hdr.full /\ hdr.write_pos = hdr.read_pos THEN RingSize
  ELSE IF hdr.write_pos > hdr.read_pos
       THEN RingSize - hdr.write_pos + hdr.read_pos
       ELSE hdr.read_pos - hdr.write_pos

shmring_is_empty == ~hdr.full /\ hdr.write_pos = hdr.read_pos

\* Mutation of Span: a message that passes the end goes on behind the first byte.
span_off_by_one(pos, len) ==
  [i \in 0..len-1 |-> IF pos + i < RingSize THEN pos + i
                      ELSE (pos + i + 1) % RingSize]

\* the places of len bytes from pos on, past the end at the beginning again
\* (the second memcpy of push_fragmented, pop_fragmented and read_fragmented)
Span(pos, len) == [i \in 0..len-1 |-> (pos + i) % RingSize]

(***************************************************************************)
(* The writer: channel_write                                               *)
(***************************************************************************)

WriteStart ==
  /\ writer.pc = "idle"
  /\ \E n \in MsgSizes : writer' = [writer EXCEPT !.pc = "copy", !.len = n]
  /\ UNCHANGED <<hdr, bytes, reader, garbled, met>>

\* channel_write spins while the space is too small; shmring_push copies
shmring_push ==
  /\ writer.pc = "copy"
  /\ shmring_get_freesz >= writer.len
  /\ LET at == Span(hdr.write_pos, writer.len) IN
     bytes' = [i \in DOMAIN bytes |->
                 IF \E k \in DOMAIN at : at[k] = i
                 THEN [msg |-> writer.msg, len |-> writer.len,
                       at |-> CHOOSE k \in DOMAIN at : at[k] = i]
                 ELSE bytes[i]]
  /\ writer' = [writer EXCEPT !.pc = "advance"]
  /\ UNCHANGED <<hdr, reader, garbled, met>>

WriteAdvance ==
  /\ writer.pc = "advance"
  /\ hdr' = [hdr EXCEPT !.write_pos = (@ + writer.len) % RingSize]
  /\ writer' = [writer EXCEPT !.pc = "mark"]
  /\ met' = (met \/ hdr'.write_pos = hdr.read_pos)
  /\ UNCHANGED <<bytes, reader, garbled>>

\* the read of read_pos that decides, then the store of full
WriteMark ==
  /\ writer.pc = "mark"
  /\ writer' = IF hdr.write_pos = hdr.read_pos
               THEN [writer EXCEPT !.pc = "full"]
               ELSE [pc |-> "idle", msg |-> (writer.msg + 1) % NumMsgs, len |-> 0]
  /\ met' = (met \/ hdr.write_pos = hdr.read_pos)
  /\ UNCHANGED <<hdr, bytes, reader, garbled>>

WriteFull ==
  /\ writer.pc = "full"
  /\ hdr' = [hdr EXCEPT !.full = TRUE]
  /\ writer' = [pc |-> "idle", msg |-> (writer.msg + 1) % NumMsgs, len |-> 0]
  /\ UNCHANGED <<bytes, reader, garbled, met>>

(***************************************************************************)
(* The reader: the proxies' channel poll                                   *)
(***************************************************************************)

\* shmring_is_empty, then channel_get_msg_type with shmring_read of one byte
channel_get_msg_type ==
  /\ reader.pc = "idle"
  /\ ~shmring_is_empty
  /\ RingSize - shmring_get_freesz >= 1
  /\ reader' = [reader EXCEPT !.pc = "pop", !.len = bytes[hdr.read_pos].len]
  /\ UNCHANGED <<hdr, bytes, writer, garbled, met>>

\* channel_read: too few bytes and the message is given up, but it stays
shmring_pop ==
  /\ reader.pc = "pop"
  /\ IF RingSize - shmring_get_freesz < reader.len
     THEN /\ reader' = [reader EXCEPT !.pc = "idle"]
          /\ garbled' = TRUE
     ELSE LET at == Span(hdr.read_pos, reader.len) IN
          /\ garbled' = (garbled \/ \E k \in DOMAIN at :
                  bytes[at[k]] # [msg |-> reader.msg, at |-> k, len |-> reader.len])
          /\ reader' = [reader EXCEPT !.pc = "stores", !.todo = {"read_pos", "full"}]
  /\ UNCHANGED <<hdr, bytes, writer, met>>

\* The reader has made the stores of the set done
Stored(done) ==
  reader' = IF reader.todo = done
            THEN [pc |-> "idle", msg |-> (reader.msg + 1) % NumMsgs, len |-> 0,
                  todo |-> {}]
            ELSE [reader EXCEPT !.todo = @ \ done]

PopAdvance ==
  /\ reader.pc = "stores" /\ "read_pos" \in reader.todo
  /\ hdr' = [hdr EXCEPT !.read_pos = (@ + reader.len) % RingSize]
  /\ Stored({"read_pos"})
  /\ UNCHANGED <<bytes, writer, garbled, met>>

PopNotFull ==
  /\ reader.pc = "stores" /\ "full" \in reader.todo
  /\ hdr' = [hdr EXCEPT !.full = FALSE]
  /\ Stored({"full"})
  /\ UNCHANGED <<bytes, writer, garbled, met>>

\* A proxy in channel_write, and the proxy that polls the other end.
Writing == shmring_push \/ WriteAdvance \/ WriteMark \/ WriteFull
Reading == channel_get_msg_type \/ shmring_pop \/ PopAdvance \/ PopNotFull

Next == WriteStart \/ Writing \/ Reading

Spec == Init /\ [][Next]_shmVars

\* Both proxies run: neither stops between two steps.
Fairness == WF_shmVars(Writing) /\ WF_shmVars(Reading)

\* Every message channel_read hands out is, byte for byte, the next message
\* channel_write was given: shmring_push never overwrites bytes not yet read
\* and shmring_pop never runs past what is written.
RingIntact == ~garbled

\* What is left of that without the locks: it holds until the writer meets
\* the reader, that is until a push leaves write_pos equal to read_pos or
\* finds them equal when it decides about full (a ring that is full to the
\* last byte, or one that the reader has emptied in the meantime).  Until
\* then each side only reads the other's position, and an old value of it
\* makes shmring_get_freesz err on the safe side.
IntactUntilMet == met \/ ~garbled

\* A message channel_write waits to place gets its room: the proxy that
\* spins on a ring without space is released by the other one's reads, as
\* long as the writer has not met the reader.
WriterGetsRoom == []<>(writer.pc = "idle" \/ met)
===============================================================================
