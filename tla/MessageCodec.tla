---------------------------- MODULE MessageCodec ----------------------------
(***************************************************************************)
(* The text a dataMessage is sent as.  Six fields are written one after    *)
(* the other, each followed by a delimiter that is not escaped where a     *)
(* field contains it; the receiver reads them back from a buffer of fixed  *)
(* length.                                                                 *)
(***************************************************************************)
EXTENDS Text

CONSTANT BufferLength  \* arbitraryLength, 256 in the code

ASSUME CodecAssumption == BufferLength \in Nat

messageDelimiter == <<"/", "?">>

syncIdentifierDelimiter == ","

\* The words of the message types that carry texts; for "client send", "server
\* send" and "server sync" stands one character each.
viewMessageTypeAsString ==
  [mt_CLIENT_SEND |-> <<"C">>, mt_SERVER_SEND |-> <<"S">>,
   mt_SERVER_SYNC |-> <<"Y">>]

\* Another word fails an assertion of the code, and has no value here.
stringToMessageType(word) ==
  CHOOSE type \in DOMAIN viewMessageTypeAsString :
    viewMessageTypeAsString[type] = word

\* A message as the constructors build it; the origin is -1 unless it is a SYNC.
message(sequence, type, source, destination, payload, origin) ==
  [sequence |-> sequence, type |-> type, source |-> source,
   destination |-> destination, payload |-> payload, origin |-> origin]

\* Mutant of Fields: the blank before a chat text is dropped here, so at each hop.
FieldsWithoutBlank(m) ==
  <<to_string(m.sequence), viewMessageTypeAsString[m.type], m.source,
    m.destination, Without(m.payload, 1), to_string(m.origin)>>

Fields(m) ==
  <<to_string(m.sequence), viewMessageTypeAsString[m.type], m.source,
    m.destination, m.payload, to_string(m.origin)>>

\* A field, its delimiter, and what follows.
Written(field, rest) == field \o messageDelimiter \o rest

asCharVector(m) ==
  LET f == Fields(m)
  IN Written(f[1], Written(f[2], Written(f[3],
       Written(f[4], Written(f[5], Written(f[6], <<>>))))))

\* What a receive_from leaves in the buffer: the beginning of a datagram that
\* is too long, and zeroes after one that is shorter.
Received(chars) ==
  SubSeq(chars \o [i \in 1 .. BufferLength |-> "NUL"], 1, BufferLength)

\* Mutant of Field: find_first_of, so either character of the delimiter ends it.
FieldToEither(s) ==
  SubSeq(s, 1, RunLength(s, ToSet(s) \ ToSet(messageDelimiter)))

\* substr(0, find(delimiter)): all of s when there is no delimiter.
Field(s) ==
  LET at == find(s, messageDelimiter)
  IN IF at = 0 THEN s ELSE SubSeq(s, 1, at - 1)

\* erase(0, find(delimiter) + 2): as npos is the largest size_t, the sum is 1
\* when there is no delimiter, and one character is erased.
AfterField(s) ==
  LET at == find(s, messageDelimiter)
  IN IF at = 0 THEN Without(s, 1) ELSE Without(s, at + 1)

\* Mutant of Origin: what is not a number is read as 0, as atoi does.
OriginOrZero(s) == IF stoi(s) = {} THEN {0} ELSE stoi(s)

Origin(s) == {int8(n) : n \in stoi(s)}

\* The message that was received, or none: both numbers are read with stoi,
\* and the receive loops ignore what it throws.
decode(chars) ==
  LET second == AfterField(chars)
      third == AfterField(second)
      fourth == AfterField(third)
      fifth == AfterField(fourth)
      sixth == AfterField(fifth)
  IN {message(q, stringToMessageType(Field(second)), Field(third),
              Field(fourth), Field(fifth), origin) :
        q \in stoi(Field(chars)), origin \in Origin(Field(sixth))}

\* The payload after a further name.
afterName(constructed, name) ==
  constructed \o Append(name, syncIdentifierDelimiter)

createServerSyncPayload(clients) ==
  LET payload[k \in 0 .. Len(clients)] ==
        IF k = 0 THEN <<>> ELSE afterName(payload[k - 1], clients[k])
  IN payload[Len(clients)]

\* What is known after a further character: a name ends at a comma.
afterCharacter(read, c) ==
  IF c # syncIdentifierDelimiter
    THEN [out |-> read.out, found |-> Append(read.found, c)]
    ELSE [out |-> Append(read.out, read.found), found |-> <<>>]

reading(payload) ==
  LET read[k \in 0 .. Len(payload)] ==
        IF k = 0 THEN [out |-> <<>>, found |-> <<>>]
                 ELSE afterCharacter(read[k - 1], payload[k])
  IN read

\* Mutant of viewServerSyncPayload: what follows the last comma is a name too.
viewServerSyncPayloadAndRest(payload) ==
  LET last == reading(payload)[Len(payload)]
  IN IF last.found = <<>> THEN last.out ELSE Append(last.out, last.found)

\* What follows the last comma is dropped.
viewServerSyncPayload(payload) == reading(payload)[Len(payload)].out
=============================================================================
