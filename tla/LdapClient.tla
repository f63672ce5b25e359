----------------------------- MODULE LdapClient -----------------------------
(***************************************************************************)
(* The LDAP client, src/src/auth/ldap.client.ts, and the encoder of its     *)
(* request, src/src/auth/ber-encoder.ts, as functions of a client's record. *)
(* A message is the sequence of its bytes, the first at position 1.         *)
(* What is encoded is taken to be shorter than 2^31 bytes, the width of the *)
(* shifts; a length that is read may be any bytes.                          *)
(***************************************************************************)
EXTENDS Integers, SequencesExt

Byte == 0..255

-----------------------------------------------------------------------------
(* BerEncoder                                                              *)

\* The bytes of a number, the most significant first; none for zero.
Bytes[n \in Nat] == IF n = 0 THEN <<>> ELSE Append(Bytes[n \div 256], n % 256)

\* The short form taken one too far.
EncodeLengthMutant(length) ==
  IF length <= 128
    THEN <<length>>
    ELSE <<128 + Len(Bytes[length])>> \o Bytes[length]

EncodeLength(length) ==
  IF length < 128
    THEN <<length>>
    ELSE <<128 + Len(Bytes[length])>> \o Bytes[length]

EncodeString(tag, value) == <<tag>> \o EncodeLength(Len(value)) \o value

\* The value is taken to fit in one byte.
EncodeInteger(tag, value) == <<tag, 1, value % 256>>

EncodeSequence(contents) == <<48>> \o EncodeLength(Len(contents)) \o contents

EncodeSimpleAuthentication(password) == EncodeString(128, password)

EncodeBindRequest(messageID, version, name, authentication) ==
  LET bindRequestContent ==
        EncodeInteger(2, version) \o EncodeString(4, name) \o authentication
  IN  EncodeSequence(EncodeInteger(2, messageID)
                       \o EncodeSequence(bindRequestContent))

-----------------------------------------------------------------------------
(* Reading the answer                                                      *)

\* number << 8: what is left has 32 bits, and the first of them is its sign.
ByteLeft(number) ==
  LET low == number % 16777216
  IN  256 * (IF low < 8388608 THEN low ELSE low - 16777216)

\* The bytes of the length a buffer begins with have all come.  One that has not is
\* undefined, and the last sum, which it is part of, is NaN.
HasLength(buffer) == buffer[1] < 128 \/ Len(buffer) > buffer[1] - 128

\* The length a buffer begins with.
DecodeLength(buffer) ==
  IF buffer[1] < 128
    THEN buffer[1]
    ELSE LET numBytes == buffer[1] - 128
             length[i \in 0..numBytes] ==
               IF i = 0 THEN 0 ELSE ByteLeft(length[i - 1]) + buffer[i + 1]
         IN  length[numBytes]

LengthOfLength(length) == IF length < 128 THEN 1 ELSE 1 + Len(Bytes[length])

\* Where the first byte 0x0A is, or 0.
IndexOfResult(response) == SelectInSeq(response, LAMBDA byte : byte = 10)

\* What is read of a response: the byte two places after the first 0x0A.
Verdict(response) ==
  LET at == IndexOfResult(response)
  IN  IF at = 0 \/ at + 2 > Len(response)
        THEN "reject"
        ELSE IF response[at + 2] = 0 THEN "resolve" ELSE "reject"

Waits(buffer)            == [verdict |-> "none", buffer |-> buffer]
Settles(verdict, buffer) == [verdict |-> verdict, buffer |-> buffer]

\* Where slice() cuts a buffer: a place below zero is counted from the end.
Place(buffer, at) ==
  IF at >= 0 THEN at ELSE IF Len(buffer) + at >= 0 THEN Len(buffer) + at ELSE 0

SettlesAt(buffer, place) ==
  Settles(Verdict(SubSeq(buffer, 1, place)), SubSeq(buffer, place + 1, Len(buffer)))

\* The header left out of the length of the response.
RespondEarlyMutant(buffer) ==
  LET length == DecodeLength(Tail(buffer))
  IN  IF ~HasLength(Tail(buffer)) THEN Settles(Verdict(<<>>), buffer)
      ELSE IF Len(buffer) < length THEN Waits(buffer)
      ELSE SettlesAt(buffer, Place(buffer, length))

\* The response at the head of a buffer.  Comparisons with NaN are false and a
\* slice to NaN is empty: a length whose bytes have not all come is a malformed
\* response, not one to wait for.
Respond(buffer) ==
  LET length == DecodeLength(Tail(buffer))
      totalLength == 1 + LengthOfLength(length) + length
  IN  IF ~HasLength(Tail(buffer)) THEN Settles(Verdict(<<>>), buffer)
      ELSE IF Len(buffer) < totalLength THEN Waits(buffer)
      ELSE SettlesAt(buffer, Place(buffer, totalLength))

\* The tag not looked at.
HandleDataAnyTagMutant(buffer, data) ==
  LET all == buffer \o data
  IN  IF Len(all) < 2 THEN Waits(all) ELSE Respond(all)

\* handleData(): the tag of a bind response is 0x61.
HandleData(buffer, data) ==
  LET all == buffer \o data
  IN  CASE Len(all) < 2                   -> Waits(all)
        [] Len(all) >= 2 /\ all[1] # 97   -> Settles("reject", all)
        [] Len(all) >= 2 /\ all[1] = 97   -> Respond(all)
=============================================================================
