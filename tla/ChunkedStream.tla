----------------------------- MODULE ChunkedStream -----------------------------
(***************************************************************************)
(* Files as streams of sealed chunks: encrypt_stream and decrypt_stream of *)
(* core/security/crypto.py, under the data keys of                         *)
(* core/security/envelope.py.                                              *)
(*                                                                         *)
(* Encryption reads one chunk ahead, and seals each chunk under a nonce of *)
(* the stream's prefix, a counter and whether it is the last, with the     *)
(* header and the caller's data as associated data.  Decryption cuts what  *)
(* the storage returns by length alone, and opens what it cut under the    *)
(* nonce it expects there.                                                 *)
(*                                                                         *)
(* AES-GCM is modelled by what it promises: a sealed chunk opens, to its   *)
(* text, if every cell of it is there and the key, the nonce and the       *)
(* associated data are those it was sealed with, and otherwise not.        *)
(***************************************************************************)
EXTENDS Naturals, Sequences

CONSTANTS
    Streams,      \* the streams; each has a nonce prefix of its own
    DataKeys,     \* data keys; streams may share one
    ChunkSizes,   \* plaintext units per chunk
    MaxUnits,     \* bound: the length of a plaintext
    LastCounter,  \* 2^32 - 1, the last counter of a nonce
    Junk          \* a cell of no sealed chunk, and a header that does not parse

ASSUME StreamAssumption ==
    ChunkSizes \subseteq Nat \ {0} /\ MaxUnits \in Nat /\ LastCounter \in Nat

VARIABLES
    sealing,  \* the streams that are, or were, encrypted
    reading   \* the decryption

streamVars == <<sealing, reading>>

TagSize == 1
NoReading == [pc |-> "none"]
Unsealed == [pc |-> "none"]

Text(s, n) == [i \in 1..n |-> <<s, i>>]
Header(size, s) == [size |-> size, prefix |-> s]
Headers == [size : ChunkSizes, prefix : Streams]

\* What a sealed chunk consists of.
Cells == [key : DataKeys, nonce : Streams \X (0..LastCounter) \X BOOLEAN, aad : Headers \X Streams,
          text : Seq(Streams \X (1..MaxUnits)), cell : 1..(MaxUnits + TagSize)]

ASSUME JunkAssumption == Junk \notin Headers /\ Junk \notin Cells

\* A plausible bug: the nonce does not say which chunk is the last.
NonceUnflagged(prefix, counter, last) == <<prefix, counter, FALSE>>

Nonce(prefix, counter, last) == <<prefix, counter, last>>

Upto(n, q) == SubSeq(q, 1, IF n < Len(q) THEN n ELSE Len(q))
After(n, q) == SubSeq(q, n + 1, Len(q))

\* AESGCM.encrypt: the cells of a chunk.
Sealed(key, nonce, aad, text) ==
    [i \in 1..(Len(text) + TagSize) |->
       [key |-> key, nonce |-> nonce, aad |-> aad, text |-> text, cell |-> i]]

\* AESGCM.decrypt: whether the cells open.
Opens(key, nonce, aad, cells) ==
    Head(cells) # Junk /\ cells = Sealed(key, nonce, aad, Head(cells).text)

StreamTypeOK ==
    /\ \A s \in Streams : sealing[s] = Unsealed \/
         /\ sealing[s].pc \in {"more", "sealed", "refused"} /\ sealing[s].key \in DataKeys
         /\ sealing[s].header \in Headers /\ sealing[s].counter \in 0..(LastCounter + 1)
         /\ sealing[s].left \in Seq(Streams \X (1..MaxUnits))
    /\ reading = NoReading \/
         /\ reading.pc \in {"start", "more", "done", "refused"} /\ reading.key \in DataKeys
         /\ reading.of \in Streams /\ reading.header \in Headers \cup {Junk}
         /\ reading.out \in Seq(Streams \X (1..MaxUnits)) /\ reading.counter <= LastCounter + 1

StreamInit ==
    /\ sealing = [s \in Streams |-> Unsealed]
    /\ reading = NoReading

-------------------------------------------------------------------------------
(* Encryption.                                                             *)

\* encrypt_file, encrypt_stream: the header is written, the first chunk read.
StartSealing(s) ==
    /\ sealing[s] = Unsealed
    /\ \E n \in 0..MaxUnits, size \in ChunkSizes, key \in DataKeys :
         sealing' = [sealing EXCEPT ![s] =
           [pc |-> "more", text |-> Text(s, n), left |-> Text(s, n), key |-> key,
            header |-> Header(size, s), counter |-> 0, body |-> <<>>]]
    /\ UNCHANGED reading

\* The chunk is the last if the one after it is empty.
SealChunk(s) ==
    LET e == sealing[s]
        current == Upto(e.header.size, e.left)
        lookahead == After(e.header.size, e.left)
        last == lookahead = <<>>
    IN /\ e.pc = "more" /\ e.counter <= LastCounter
       /\ sealing' = [sealing EXCEPT
            ![s].body = @ \o Sealed(e.key, Nonce(s, e.counter, last), <<e.header, s>>, current),
            ![s].left = lookahead, ![s].counter = @ + 1,
            ![s].pc = IF last THEN "sealed" ELSE @]
       /\ UNCHANGED reading

\* EncryptionError: the file has more chunks than there are counters.
RefuseChunk(s) ==
    /\ sealing[s].pc = "more" /\ sealing[s].counter > LastCounter
    /\ sealing' = [sealing EXCEPT ![s].pc = "refused"]
    /\ UNCHANGED reading

-------------------------------------------------------------------------------
(* Storage, and decryption.                                                *)

\* All is encrypted, this stream whole, and nothing was read yet.
Stored(s) ==
    /\ \A t \in Streams : sealing[t].pc \in {"sealed", "refused"}
    /\ sealing[s].pc = "sealed" /\ reading = NoReading

\* decrypt_file with the row of the stream.
Fetch(s, key, header, body) ==
    /\ reading' = [pc |-> "start", of |-> s, key |-> key, header |-> header, rest |-> body,
                   counter |-> 0, out |-> <<>>,
                   whole |-> /\ key = sealing[s].key /\ header = sealing[s].header
                             /\ body = sealing[s].body]
    /\ UNCHANGED sealing

\* The storage returns a body with a part of it, or nothing, replaced by a part
\* of a body, or by nothing: cut short, repeated, moved, or another file's.
FetchBody(s) ==
    LET b == sealing[s].body IN
    /\ Stored(s)
    /\ \E t \in Streams : \E i, j \in 0..Len(b), k, l \in 0..Len(sealing[t].body) :
      i <= j /\ k <= l /\
      Fetch(s, sealing[s].key, sealing[s].header,
            Upto(i, b) \o SubSeq(sealing[t].body, k + 1, l) \o After(j, b))

\* A cell of it is no longer what was written.
FetchRotten(s) == Stored(s) /\ \E i \in DOMAIN sealing[s].body :
    Fetch(s, sealing[s].key, sealing[s].header, [sealing[s].body EXCEPT ![i] = Junk])

\* Under another header, or another key.
FetchOther(s) ==
    /\ Stored(s)
    /\ \E key \in DataKeys, header \in Headers \cup {Junk}, t \in Streams :
         Fetch(s, key, header, sealing[t].body)

Refused == reading' = [reading EXCEPT !.pc = "refused"] /\ UNCHANGED sealing

\* decrypt_stream, _parse_header: a body without a chunk was cut short.
ParseHeader ==
    /\ reading.pc = "start"
    /\ IF reading.header = Junk \/ reading.rest = <<>> THEN Refused
       ELSE reading' = [reading EXCEPT !.pc = "more"] /\ UNCHANGED sealing

\* The text of a chunk is written before the next chunk is looked at.
OpenChunk ==
    LET h == reading.header
        current == Upto(h.size + TagSize, reading.rest)
        lookahead == After(h.size + TagSize, reading.rest)
        last == lookahead = <<>>
    IN /\ reading.pc = "more"
       /\ IF Opens(reading.key, Nonce(h.prefix, reading.counter, last), <<h, reading.of>>, current)
          THEN /\ reading' = [reading EXCEPT !.out = @ \o Head(current).text, !.rest = lookahead,
                                             !.counter = @ + 1,
                                             !.pc = IF last THEN "done" ELSE @]
               /\ UNCHANGED sealing
          ELSE Refused

StreamNext ==
    \/ \E s \in Streams :
         \/ StartSealing(s) \/ SealChunk(s) \/ RefuseChunk(s)
         \/ FetchBody(s) \/ FetchRotten(s) \/ FetchOther(s)
    \/ ParseHeader \/ OpenChunk

StreamSpec == StreamInit /\ [][StreamNext]_streamVars

-------------------------------------------------------------------------------
(* Properties.                                                             *)

\* crypto.py:9: whatever the storage returns, what decryption writes is the
\* beginning of what was encrypted, and all of it when decryption ends well.
OnlyWhatWasSealed ==
    reading # NoReading =>
      /\ reading.out = Upto(Len(reading.out), sealing[reading.of].text)
      /\ reading.pc = "done" => reading.out = sealing[reading.of].text

\* What was stored and returned as it was is decrypted.
WholeIsRead == reading # NoReading /\ reading.whole => reading.pc # "refused"

\* crypto.py:20: no two chunks are sealed with one key and one nonce.
NonceOnce ==
    \A s, t \in Streams : sealing[s] # Unsealed /\ sealing[t] # Unsealed =>
      \A i \in DOMAIN sealing[s].body, j \in DOMAIN sealing[t].body :
        LET x == sealing[s].body[i]
            y == sealing[t].body[j]
        IN x.key = y.key /\ x.nonce = y.nonce => [x EXCEPT !.cell = 0] = [y EXCEPT !.cell = 0]

\* The three.
StreamsSound == OnlyWhatWasSealed /\ WholeIsRead /\ NonceOnce
===============================================================================
