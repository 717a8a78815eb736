------------------------------ MODULE Signing -------------------------------
(***************************************************************************)
(* A node from its options to its stream: the constructor and the options  *)
(* on signing (pubsub.go), the signature of a message (sign.go), and what  *)
(* becomes of a message, or of any other RPC, in the bytes of a stream     *)
(* that node after node reads and writes again (comm.go, module Wire).     *)
(*                                                                         *)
(* Cryptography is external: a pair of keys is known by the bytes of its   *)
(* public key, Sign(key, bytes) tells keys and bytes apart, and some peer  *)
(* IDs (Inlined) contain their key.  SignPrefix, a constant before what is *)
(* signed, is left out.                                                    *)
(*                                                                         *)
(* In phase "raw" the stream is written, byte by byte, by a peer of        *)
(* another implementation, of which nothing is assumed.                    *)
(***************************************************************************)
EXTENDS Wire

CONSTANTS
  Ids,         \* the peer IDs there are, byte strings
  Host,        \* the ID of this node
  PublicKey,   \* [Ids -> byte strings]
  Inlined,     \* the IDs that contain their key
  Keystore,    \* the IDs whose private key is in this node's peerstore
  Payloads,    \* the data of messages, Nil among them
  Extra,       \* the fields a newer implementation adds to its messages, raw
  Topic, Seqno,
  Rpcs,        \* other RPCs and topic descriptors: records [kind, value]
  Alphabet,    \* the bytes of phase "raw"
  RawStart,    \* [kinds -> byte strings]: what phase "raw" starts from
  RawLimit,    \* [kinds -> Nat]: how long it gets
  MaxOptions, MaxHops,
  MaxFrame     \* the limit of the delimited reader (1<<20)

\* Peer IDs, keys and what is in a message are strings of bytes. Extra is made of fields
\* that a Message does not know; Rpcs have unrecognized bytes at most from Unmarshal.
ASSUME KeysAssumption ==
  /\ Ids \subseteq Seq(Byte) /\ Host \in Ids /\ PublicKey \in [Ids -> Seq(Byte)]
  /\ Inlined \subseteq Ids /\ Keystore \subseteq Ids
ASSUME MessagesAssumption ==
  /\ Payloads \subseteq Text /\ {Extra, Topic, Seqno} \subseteq Seq(Byte)
  /\ Unknown("Message", Extra)
  /\ \A rpc \in Rpcs: /\ rpc.kind \in DOMAIN Values /\ rpc.value \in Values[rpc.kind]
                       /\ Genuine(rpc.kind, rpc.value)
\* A frame is no longer than what the sum of two lengths can be told from a negative
\* number with: 1<<20 is less than 1<<63. For every byte of it that was read, at most
\* MaxVarint + 1 are written: a mode, for one, is read as an int32 and written as an int.
ASSUME LimitsAssumption ==
  /\ {MaxOptions, MaxFrame} \subseteq Nat /\ MaxHops \in Nat \ {0} /\ 2 * MaxFrame < IntMod
  /\ Alphabet \subseteq Byte
  /\ DOMAIN RawStart \subseteq DOMAIN Types
  /\ \A k \in DOMAIN RawStart: /\ RawStart[k] \in Seq(Byte) /\ RawLimit[k] \in Nat
                               /\ Len(RawStart[k]) <= RawLimit[k]
                               /\ 2 * (MaxVarint + 1) * RawLimit[k] < IntMod

VARIABLES
  phase,       \* "options", "refused", "running", "raw"
  options,     \* how many options were applied
  signID, signKey, signStrict,
  published,   \* the message as its author signed it
  kind,        \* the type the stream is read as
  sent,        \* the value that was marshalled last
  frame,       \* the bytes of it on the stream
  got,         \* the result of reading them
  hops         \* how often the message was read

vars == <<phase, options, signID, signKey, signStrict, published, kind, sent, frame, got, hops>>
config == <<phase, options, signID, signKey, signStrict>>

(***************************************************************************)
(* Keys and signatures.                                                    *)
(***************************************************************************)
Sign(key, bytes) == key \o bytes
PrivKey(id) == IF id \in Keystore THEN PublicKey[id] ELSE Nil
ExtractPublicKey(id) == IF id \in Inlined THEN PublicKey[id] ELSE Nil

\* An attached key must be that of the author; a key that is not attached must be
\* in the ID.
messagePubKey(m) ==
  IF m.From \notin Ids THEN Nil
  ELSE IF m.Key = Nil THEN ExtractPublicKey(m.From)
  ELSE IF m.Key = PublicKey[m.From] THEN m.Key ELSE Nil

\* What is signed: the message without signature and key, marshalled again.
verifyMessageSignature(m) ==
  LET pubk == messagePubKey(m)
      xm == [m EXCEPT !.Signature = Nil, !.Key = Nil]
  IN pubk # Nil /\ m.Signature = Sign(pubk, Frame("Message", xm))

\* bug: the key is attached when the ID contains it, not when it does not
AttachesWrongly(pid, key, m) ==
  [m EXCEPT !.Signature = Sign(key, Frame("Message", m)),
            !.Key = IF ExtractPublicKey(pid) = Nil THEN @ ELSE key]
signMessage(pid, key, m) ==
  [m EXCEPT !.Signature = Sign(key, Frame("Message", m)),
            !.Key = IF ExtractPublicKey(pid) = Nil THEN key ELSE @]

\* pushMsg and the signature part of validate.
Accepts(strict, m) ==
  /\ strict => m.Signature # Nil
  /\ m.Signature # Nil => verifyMessageSignature(m)

rpcWithSubs(subs) == [RPC EXCEPT !.Subscriptions = subs]
rpcWithMessages(msgs) == [RPC EXCEPT !.Publish = msgs]
rpcWithControl(msgs, ihave, iwant, graft, prune) ==
  [RPC EXCEPT !.Publish = msgs,
              !.Control = [ControlMessage EXCEPT !.Ihave = ihave, !.Iwant = iwant,
                                                 !.Graft = graft, !.Prune = prune]]

(***************************************************************************)
(* The constructor.  Options are applied in the order of the caller.       *)
(***************************************************************************)
Init ==
  /\ options = 0 /\ signID = Host /\ signKey = PrivKey(Host) /\ signStrict = TRUE
  /\ published = Nil /\ sent = Nil /\ hops = 0
  /\ \/ phase = "options" /\ kind = "RPC" /\ frame = Nil /\ got = Nil
     \/ phase = "raw" /\ kind \in DOMAIN RawStart
        /\ frame = RawStart[kind] /\ got = Decoded(kind, frame)

MayApply == phase = "options" /\ options < MaxOptions

WithMessageSigning(enabled) ==
  /\ MayApply
  /\ signKey' = IF enabled THEN PrivKey(signID) ELSE Nil
  /\ signStrict' = (signStrict /\ enabled)
  /\ phase' = IF enabled /\ PrivKey(signID) = Nil THEN "refused" ELSE phase
  /\ options' = options + 1
  /\ UNCHANGED <<signID, published, kind, sent, frame, got, hops>>

\* The author's key is looked up only where messages are signed already.
WithMessageAuthor(peer) ==
  LET author == IF peer = <<>> THEN Host ELSE peer
      refused == signKey # Nil /\ PrivKey(author) = Nil
  IN /\ MayApply
     /\ phase' = IF refused THEN "refused" ELSE phase
     /\ signKey' = IF signKey = Nil \/ refused THEN signKey ELSE PrivKey(author)
     /\ signID' = IF refused THEN signID ELSE author
     /\ options' = options + 1
     /\ UNCHANGED <<signStrict, published, kind, sent, frame, got, hops>>

WithStrictSignatureVerification(required) ==
  /\ MayApply
  /\ signStrict' = required
  /\ options' = options + 1
  /\ UNCHANGED <<phase, signID, signKey, published, kind, sent, frame, got, hops>>

NewPubSub ==
  /\ phase = "options"
  /\ phase' = IF signStrict /\ signKey = Nil THEN "refused" ELSE "running"
  /\ UNCHANGED <<options, signID, signKey, signStrict, published, kind, sent, frame, got, hops>>

(***************************************************************************)
(* The stream.                                                             *)
(***************************************************************************)
Write(k, m) == kind' = k /\ sent' = m /\ frame' = Frame(k, m) /\ got' = Nil

Quiet == phase = "running" /\ sent = Nil /\ published = Nil

\* Publish, and pushMsg at the author itself: a message the author would drop does
\* not leave it.
Publish(data) ==
  LET plain == [Message EXCEPT !.Data = data, !.TopicIDs = <<Topic>>, !.From = Host,
                               !.Seqno = Seqno]
      m == IF signKey = Nil THEN plain
           ELSE signMessage(signID, signKey, [plain EXCEPT !.From = signID])
  IN /\ Quiet
     /\ published' = m
     /\ IF Accepts(signStrict, m) THEN Write("RPC", rpcWithMessages(<<m>>))
        ELSE UNCHANGED <<kind, sent, frame, got>>
     /\ UNCHANGED <<hops, config>>

\* A message of a newer implementation, signed as above over its fields and those
\* this code does not know.  Here and in Send the options of this node make no
\* difference: they come after no option.
PublishNewer(author, data) ==
  LET m == [Message EXCEPT !.Data = data, !.TopicIDs = <<Topic>>, !.From = author,
                           !.Seqno = Seqno, !.XXX_unrecognized = Extra]
      signed == signMessage(author, PublicKey[author], m)
  IN /\ Quiet /\ options = 0
     /\ published' = signed
     /\ Write("RPC", rpcWithMessages(<<signed>>))
     /\ UNCHANGED <<hops, config>>

\* Anything else that is marshalled: announcements, control messages, descriptors.
Send(rpc) ==
  /\ Quiet /\ options = 0
  /\ Write(rpc.kind, rpc.value)
  /\ UNCHANGED <<published, hops, config>>

\* handleNewStream: a frame beyond the limit, or one that does not decode, ends the
\* stream.
Read ==
  /\ frame # Nil /\ got = Nil
  /\ got' = IF Len(frame) > MaxFrame THEN Failed("too long") ELSE Decoded(kind, frame)
  /\ hops' = hops + 1
  /\ UNCHANGED <<published, kind, sent, frame, config>>

\* The reader takes the messages through pushMsg and sends one that it accepts on.
Forward(strict) ==
  /\ phase = "running" /\ kind = "RPC" /\ hops < MaxHops
  /\ got # Nil /\ got.err = "none"
  /\ \E i \in DOMAIN got.val.Publish:
       /\ Accepts(strict, got.val.Publish[i])
       /\ Write("RPC", rpcWithMessages(<<got.val.Publish[i]>>))
  /\ UNCHANGED <<published, hops, config>>

\* One more byte of a peer of another implementation.
RawByte(b) ==
  /\ phase = "raw" /\ Len(frame) < RawLimit[kind]
  /\ frame' = Append(frame, b)
  /\ got' = Decoded(kind, frame')
  /\ UNCHANGED <<published, kind, sent, hops, config>>

Next ==
  \/ \E b \in BOOLEAN: WithMessageSigning(b) \/ WithStrictSignatureVerification(b)
  \/ \E id \in Ids \cup {<<>>}: WithMessageAuthor(id)
  \/ NewPubSub
  \/ \E data \in Payloads: Publish(data) \/ \E id \in Ids: PublishNewer(id, data)
  \/ \E rpc \in Rpcs: Send(rpc)
  \/ Read
  \/ \E b \in BOOLEAN: Forward(b)
  \/ \E b \in Alphabet: RawByte(b)

Spec == Init /\ [][Next]_vars

(***************************************************************************)
(* Properties.                                                             *)
(***************************************************************************)
\* Every variable has its type; what is on the stream is bytes.
TypeOK ==
  /\ phase \in {"options", "refused", "running", "raw"}
  /\ options \in 0 .. MaxOptions /\ hops \in 0 .. MaxHops
  /\ signID \in Ids /\ signKey \in {PublicKey[id] : id \in Keystore} \cup {Nil}
  /\ signStrict \in BOOLEAN
  /\ kind \in DOMAIN Types
  /\ frame # Nil => \A n \in DOMAIN frame: frame[n] \in Byte

\* In whatever order the options came: a node that runs signs with the key of the
\* author it puts into its messages, or does not sign, and it asks of others no
\* more than it does itself (the options and NewPubSub, pubsub.go:189-256). So what
\* it publishes passes its own checks, which would drop it without an error, and
\* those of every strict node if it has a key (signMessage, pushMsg, messagePubKey).
Acceptable ==
  /\ phase = "running" => /\ signKey \in {Nil, PrivKey(signID)}
                          /\ signStrict => signKey # Nil
  /\ published # Nil => /\ Accepts(signStrict, published)
                        /\ signKey # Nil => Accepts(TRUE, published)

\* The signature of a message still verifies after every hop, though each node
\* unmarshals it and computes the signed bytes anew: also for an empty payload, for
\* none, for one whose length takes two bytes, for an attached key and for fields
\* this code does not know (verifyMessageSignature, Message.Unmarshal).
SignatureSurvives ==
  published # Nil /\ got # Nil /\ Len(frame) <= MaxFrame =>
    /\ got.err = "none"
    /\ published.Signature # Nil => \A i \in DOMAIN got.val.Publish:
                                       Accepts(TRUE, got.val.Publish[i])

\* What is read is what was written, nil and empty told apart, with the length of
\* the frame from Size and the bytes from MarshalTo (rpc.pb.go).
RoundTrip ==
  sent # Nil /\ got # Nil /\ Len(frame) <= MaxFrame =>
    got = Ok(sent, Len(frame))

\* Whatever bytes come, Unmarshal ends in a value or in an error and never reads
\* outside its slice: lengths that are negative, overflow or end beyond the data
\* are refused before they are used (rpc.pb.go, skipRpc).
NeverOutside == got # Nil => got.err \notin {"out of range", "unreachable"}

\* Whatever bytes a node could read, what it writes for them is read as the same
\* value by the next: no field, known or not, changes on the way (rpc.pb.go).
Stable ==
  phase = "raw" /\ got.err = "none" =>
    LET again == Frame(kind, got.val) IN Decoded(kind, again) = Ok(got.val, Len(again))
=============================================================================
