------------------------------ MODULE T1Codec ------------------------------
(***************************************************************************)
(* The bytes of the T=1 line: the checksum of utils-lib/Iso13239CRC.cc,    *)
(* the blocks of utils-lib/Tpdu.cc with the checks T1protocol.cc makes of  *)
(* a block it received, and the answer to power-on of utils-lib/Atp.cc.    *)
(*                                                                         *)
(* Everything here is a function of its arguments.  A block is a record    *)
(* like the struct Tpdu; on the line it is a sequence of bytes.            *)
(***************************************************************************)
EXTENDS Integers, Sequences

Byte == 0 .. 255
Word == 0 .. 2^16 - 1

(* Bits of a number, the least significant one first. *)
BitOf(v, i) == (v \div 2^i) % 2
FlipBit(v, i) == IF BitOf(v, i) = 1 THEN v - 2^i ELSE v + 2^i

(* v with the bits of the byte b added modulo 2. *)
XorByte(v, b) ==
    LET low[i \in 0 .. 8] ==
          IF i = 0 THEN 0
          ELSE low[i - 1] + 2^(i - 1) * ((BitOf(v, i - 1) + BitOf(b, i - 1)) % 2)
    IN  256 * (v \div 256) + low[8]

-----------------------------------------------------------------------------
(* computeCrc: CRC_POLYNOMIAL = 0x8408 has the bits 15, 10 and 3. *)
CRC_PRESET == 65535

ShiftCrc(v) ==
    IF v % 2 = 1 THEN 2^15 + FlipBit(FlipBit(v \div 2, 10), 3) ELSE v \div 2

(* What the next byte makes of the checksum.  TLC evaluates the argument   *)
(* of a function first: once is one, and so is add.                        *)
CrcByte(v, b) ==
    LET once == [w \in Word |-> ShiftCrc(w)]
        shift[k \in 0 .. 8] == IF k = 0 THEN XorByte(v, b) ELSE once[shift[k - 1]]
    IN  shift[8]

ComputeCrc(data) ==
    LET add == [v \in Word |-> [b \in Byte |-> CrcByte(v, b)]]
        crc[i \in 0 .. Len(data)] ==
          IF i = 0 THEN CRC_PRESET ELSE add[crc[i - 1]][data[i]]
    IN  65535 - crc[Len(data)]

(* Tpdu_getChecksumBytes and back: the low byte travels first. *)
ChecksumBytes(crc) == <<crc % 256, crc \div 256>>
ChecksumValue(bytes) == bytes[1] + 256 * bytes[2]

-----------------------------------------------------------------------------
(* The PCB byte. *)
NAD_HOST_TO_SLAVE == 33
NAD_SLAVE_TO_HOST == 18

SBLOCK_RESYNCH_REQUEST == 192
SBLOCK_IFS_REQUEST == 193
SBLOCK_ABORT_REQUEST == 194
SBLOCK_WTX_REQUEST == 195
SBLOCK_SWRESET_REQUEST == 207

(* An S-response is the S-request with bit 5 set. *)
ResponseTo(request) == request + 32

TpduType(pcb) == IF pcb < 128 THEN "I" ELSE IF pcb < 192 THEN "R" ELSE "S"

(* T1protocol_getValidPcb. *)
IBlockPcb(ns, isLast) == 64 * ns + (IF isLast THEN 0 ELSE 32)
RBlockSubtypes == {"ErrorFree", "ChecksumError", "OtherErrors"}
RBlockPcb(nr, subtype) ==
    128 + 16 * nr + (CASE subtype = "ErrorFree" -> 0
                       [] subtype = "ChecksumError" -> 1
                       [] subtype = "OtherErrors" -> 2)

-----------------------------------------------------------------------------
(* Tpdu_formTpdu with the checksum type CRC, for data it does not refuse:  *)
(* at most TPDU_MAX_DATA_LENGTH bytes.                                     *)
FormTpdu(nad, pcb, data) ==
    [nad |-> nad, pcb |-> pcb, len |-> Len(data), data |-> data,
     checksum |-> ComputeCrc(<<nad, pcb, Len(data)>> \o data)]

ToByteArray(tpdu) ==
    <<tpdu.nad, tpdu.pcb, tpdu.len>> \o tpdu.data \o ChecksumBytes(tpdu.checksum)

(* What the two reads of a response store: the header, then the rest. *)
FromBytes(header, rest) ==
    [nad |-> header[1], pcb |-> header[2], len |-> header[3],
     data |-> SubSeq(rest, 1, header[3]),
     checksum |-> ChecksumValue(SubSeq(rest, header[3] + 1, header[3] + 2))]

-----------------------------------------------------------------------------
(* The checks of a received block, those of the sequence number aside. *)
ChecksumOk(tpdu) ==
    tpdu.checksum = ComputeCrc(<<tpdu.nad, tpdu.pcb, tpdu.len>> \o tpdu.data)

PcbOk(pcb) ==
    /\ TpduType(pcb) = "I" => pcb % 32 = 0
    /\ TpduType(pcb) = "R" => \A i \in {2, 3, 5, 6} : BitOf(pcb, i) = 0
    /\ TpduType(pcb) = "S" => BitOf(pcb, 4) = 0

OneByteSBlocks ==
    {SBLOCK_WTX_REQUEST, SBLOCK_IFS_REQUEST,
     ResponseTo(SBLOCK_WTX_REQUEST), ResponseTo(SBLOCK_IFS_REQUEST)}
EmptySBlocks ==
    {SBLOCK_ABORT_REQUEST, SBLOCK_RESYNCH_REQUEST,
     ResponseTo(SBLOCK_ABORT_REQUEST), ResponseTo(SBLOCK_RESYNCH_REQUEST)}

(* A software reset's blocks may have any length. *)
LenOk(tpdu, ifsc) ==
    /\ TpduType(tpdu.pcb) = "I" => tpdu.len <= ifsc
    /\ TpduType(tpdu.pcb) = "R" => tpdu.len = 0
    /\ tpdu.pcb \in OneByteSBlocks => tpdu.len = 1
    /\ tpdu.pcb \in EmptySBlocks => tpdu.len = 0

BlockOk(tpdu, ifsc) == PcbOk(tpdu.pcb) /\ LenOk(tpdu, ifsc) /\ ChecksumOk(tpdu)

-----------------------------------------------------------------------------
(* The ATP as it is read from the SE, its length in front (offset 0). *)
EXPECTED_ATP_LENGTH == 37
ATP_MAX_ALLOWED_LENGTH == 39
CHECKSUM_OFFSET_IN_ATP == 36

(* The offsets of Atp.h count from 0. *)
AtpByte(atp, offset) == atp[offset + 1]

(* Atp_setAtp, for an ATP of at least the expected length: the checksum of *)
(* all but the last two bytes must be found where an ATP of the expected   *)
(* length has it, and the checksum type must be LRC (0) or CRC (1).        *)
AtpOk(atp) ==
    /\ AtpByte(atp, 0) <= ATP_MAX_ALLOWED_LENGTH
    /\ ComputeCrc(SubSeq(atp, 1, AtpByte(atp, 0) - 1)) =
         ChecksumValue(SubSeq(atp, CHECKSUM_OFFSET_IN_ATP + 1, CHECKSUM_OFFSET_IN_ATP + 2))
    /\ AtpByte(atp, 12) \in {0, 1}

(* The fields the driver uses. *)
AtpFields(atp) ==
    [bwt  |-> 256 * AtpByte(atp, 6) + AtpByte(atp, 7),
     crc  |-> AtpByte(atp, 12) = 1,
     ifsc |-> AtpByte(atp, 13)]

(* The values in use before an ATP was read. *)
DefaultAtp == [bwt |-> 1680, crc |-> TRUE, ifsc |-> 254]
=============================================================================
