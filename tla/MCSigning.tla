----------------------------- MODULE MCSigning ------------------------------
(***************************************************************************)
(* Three authors: the host, whose ID contains its key; one whose key is in *)
(* the peerstore and must be attached; one whose key this node lacks.      *)
(* Payloads: none, empty, short, and lengths around the first at which a   *)
(* length takes two bytes, of the payload and of the whole message.        *)
(***************************************************************************)
EXTENDS Signing

Zeros(n) == [i \in 1 .. n |-> 0]

MCIds == {<<1>>, <<2>>, <<3>>}
MCHost == <<1>>
MCPublicKey == [id \in MCIds |-> id \o <<9>>]
MCInlined == {<<1>>, <<3>>}
MCKeystore == {<<1>>, <<2>>}
MCPayloads == {Nil, <<>>, <<5>>} \cup {Zeros(n) : n \in 113 .. 128} \cup {Zeros(400)}
MCExtra == <<58, 1, 7, 123, 8, 1, 124>>
MCTopic == <<116>>
MCSeqno == <<0, 4>>

\* Every string that is there, or not, or empty, and every number of them.
Texts == {Nil, <<>>, <<65>>}
Lists == {<<>>, <<<<>>>>, <<<<65>>, <<>>>>}
MCSubs == {[SubOpts EXCEPT !.Subscribe = b, !.Topicid = t] : b \in BOOLEAN \cup {Nil}, t \in Texts}
Ihaves == {[ControlIHave EXCEPT !.TopicID = t, !.MessageIDs = l] : t \in Texts, l \in Lists}
Iwants == {[ControlIWant EXCEPT !.MessageIDs = l] : l \in Lists \cup {<<Zeros(127)>>, <<Zeros(128)>>}}
Grafts == {[ControlGraft EXCEPT !.TopicID = t] : t \in Texts}
Prunes == {[ControlPrune EXCEPT !.TopicID = t] : t \in Texts}
UpTo2(S) == {<<>>} \cup {<<x>> : x \in S} \cup {<<x, y>> : x \in S, y \in {CHOOSE z \in S: TRUE}}
Messages == {<<>>, <<[Message EXCEPT !.From = <<1>>, !.Data = <<>>]>>}

Auths == {[AuthOpts EXCEPT !.Mode = m, !.Keys = l] : m \in Int32 \cup {Nil}, l \in {<<>>, <<<<>>, <<65>>>>}}
Encs == {[EncOpts EXCEPT !.Mode = m, !.KeyHashes = l] : m \in {Nil, -1, 2}, l \in Lists}

\* Fields that this code does not know, at every depth.
Newer == [RPC EXCEPT !.XXX_unrecognized = MCExtra,
                     !.Subscriptions = <<[SubOpts EXCEPT !.XXX_unrecognized = MCExtra]>>,
                     !.Control = [ControlMessage EXCEPT
                                    !.Ihave = <<[ControlIHave EXCEPT !.XXX_unrecognized = MCExtra]>>,
                                    !.XXX_unrecognized = MCExtra]]

Of(k, values) == {[kind |-> k, value |-> v] : v \in values}
MCRpcs ==
  Of("RPC", {rpcWithSubs(s) : s \in UpTo2(MCSubs)} \cup {Newer})
  \cup Of("RPC", {rpcWithControl(p, i, w, <<>>, <<>>) :
                    p \in Messages, i \in UpTo2(Ihaves), w \in UpTo2(Iwants)})
  \cup Of("RPC", {rpcWithControl(p, <<>>, <<>>, g, r) :
                    p \in Messages, g \in UpTo2(Grafts), r \in UpTo2(Prunes)})
  \cup Of("TopicDescriptor",
          {[TopicDescriptor EXCEPT !.Name = n, !.Auth = a] : n \in Texts, a \in Auths \cup {Nil}}
          \cup {[TopicDescriptor EXCEPT !.Auth = a, !.Enc = e] :
                  a \in {Nil, AuthOpts}, e \in Encs \cup {Nil}})

\* Tags of fields 1 and 2, and of one nobody has, with every wire type; the ends of
\* varints; and lengths whose sums wrap around.
MCAlphabet == {0, 1, 8, 10, 18, 58, 59, 60, 61, 62, 127, 128, 252, 255}
\* The third byte is the first of a nested message, or of a second field.
MCRawStart == [Message |-> <<>>, Auth |-> <<>>, RPC |-> <<18, 3>>, Control |-> <<10, 0>>,
               SubOpts |-> <<8, 1>>]
MCRawLimit == [Message |-> 4, Auth |-> 4, RPC |-> 5, Control |-> 5, SubOpts |-> 5]
=============================================================================
