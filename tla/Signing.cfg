SPECIFICATION Spec
CONSTANTS
  IntBits = 15
  FieldBits = 8
  Nil = Nil
  Ids <- MCIds
  Host <- MCHost
  PublicKey <- MCPublicKey
  Inlined <- MCInlined
  Keystore <- MCKeystore
  Payloads <- MCPayloads
  Extra <- MCExtra
  Topic <- MCTopic
  Seqno <- MCSeqno
  Rpcs <- MCRpcs
  Alphabet <- MCAlphabet
  RawStart <- MCRawStart
  RawLimit <- MCRawLimit
  MaxOptions = 3
  MaxHops = 2
  MaxFrame = 400
INVARIANTS TypeOK Acceptable SignatureSurvives RoundTrip NeverOutside Stable
CHECK_DEADLOCK FALSE
