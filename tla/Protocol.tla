------------------------------ MODULE Protocol ------------------------------
(***************************************************************************)
(* The wire protocol as both ends read it: opcodes, sizes, the server's    *)
(* checks on a request (protocol.py, client_handler.py) and the client's   *)
(* check on a fetched message (MessageBodies.h).  A request is the record  *)
(* of the fields its bytes unpack to; a field its opcode does not carry is *)
(* never read.                                                             *)
(***************************************************************************)
EXTENDS Integers

SERVER_VERSION == 1
NAME_LEN == 255
PUBLIC_KEY_LEN == 160
ENCRYPTED_SYM_KEY_LENGTH == 128
UUID_LEN == 16
REQ_HEADER_LEN == UUID_LEN + 1 + 2 + 4
SUB_HEADER_SIZE == UUID_LEN + 1 + 4

RegisterReq == 1000
UserListReq == 1001
GetPKReq == 1002
SendMessageReq == 1003
GetMessagesReq == 1004
RequestCodes == {RegisterReq, UserListReq, GetPKReq, SendMessageReq, GetMessagesReq}

RegisterRes == 2000
UserListRes == 2001
GetPKRes == 2002
SendMessageRes == 2003
GetMessagesRes == 2004
CommunicationError == 9000
ResponseCodes == {RegisterRes, UserListRes, GetPKRes, SendMessageRes,
                  GetMessagesRes, CommunicationError}

GetSK == 1
SendSK == 2
Text == 3
MessageTypes == {GetSK, SendSK, Text}
-----------------------------------------------------------------------------
(* The payload size of every opcode but SendMessageReq, whose payload may  *)
(* have any length.                                                        *)
BodySize(code) ==
  CASE code = RegisterReq -> NAME_LEN + PUBLIC_KEY_LEN
    [] code = GetPKReq    -> UUID_LEN
    [] OTHER              -> 0

(* RequestHeader.is_valid                                                  *)
HeaderValid(r) ==
  /\ r.version <= SERVER_VERSION
  /\ r.code \in RequestCodes
  /\ r.code # SendMessageReq => r.payload_size = BodySize(r.code)

(* What handle_client requires of a request before it looks at the sender: *)
(* both recv calls return every byte asked for and the header is valid.    *)
(* header_read and payload_read are the byte counts the two calls return.  *)
WellFormed(r) ==
  /\ r.header_read = REQ_HEADER_LEN
  /\ HeaderValid(r)
  /\ r.payload_read = r.payload_size

(* What handle_send_message requires of the body, whose content occupies   *)
(* the payload bytes after the sub-header.                                 *)
ContentLength(r) == r.payload_size - SUB_HEADER_SIZE

(* Mutant: the two size rules of the message types are left out.           *)
BodySizeOnly(r) ==
  r.content_size = ContentLength(r) /\ r.message_type \in MessageTypes

(* Mutant: the size field is not compared with the payload.                *)
BodyTypeOnly(r) ==
  /\ r.message_type \in MessageTypes
  /\ r.message_type = GetSK => r.content_size = 0
  /\ r.message_type = SendSK => r.content_size = ENCRYPTED_SYM_KEY_LENGTH

BodyAccepted(r) ==
  /\ r.content_size = ContentLength(r)
  /\ r.message_type \in MessageTypes
  /\ r.message_type = GetSK => r.content_size = 0
  /\ r.message_type = SendSK => r.content_size = ENCRYPTED_SYM_KEY_LENGTH

(* MessageHeader::Deserialize of the client on a message of its inbox.     *)
DeserializesAtClient(m) ==
  \/ m.message_type = GetSK /\ m.content_size = 0
  \/ m.message_type = SendSK /\ m.content_size = ENCRYPTED_SYM_KEY_LENGTH
  \/ m.message_type = Text
=============================================================================
