------------------------------ MODULE SensorBus ------------------------------
(***************************************************************************)
(* What the drivers of the camera sensors have in common: transfers over   *)
(* SCCB (sccb.c), the ways in which a driver strings them together, and    *)
(* the device they reach.                                                  *)
(*                                                                         *)
(* Only the registers that init_status of a driver reads back, and those   *)
(* its setters depend on, are kept; a transfer to any other register is    *)
(* Other, and a run of such transfers is one Other.                        *)
(***************************************************************************)
EXTENDS Integers, Sequences, TLC

\* A device: its registers by address, its selected page, and the bank the
\* driver believes to be selected.
Device(regs) == [regs |-> regs, page |-> 0, bank |-> 0]
Address(dev, reg) == 256 * dev.page + reg

\* Bits off..(off + width - 1) of a byte, and a byte with them replaced.
Slice(byte, off, width) == (byte \div 2^off) % 2^width
Splice(byte, off, width, val) ==
  byte + ((val % 2^width) - Slice(byte, off, width)) * 2^off

-----------------------------------------------------------------------------
(* Transfers                                                               *)

Other == [op |-> "other"]
\* SCCB_Write of a register, and set_reg_bits: a read, then a write.
Put(reg, val) == [op |-> "put", reg |-> reg, off |-> 0, width |-> 8, val |-> val]
Bits(reg, off, width, val) ==
  [op |-> "bits", reg |-> reg, off |-> off, width |-> width, val |-> val]
\* write_reg16: the high byte, then the low one.
Put16(reg, val) == <<Put(reg, val \div 256), Put(reg + 1, val)>>
\* A write to the page register.
Page(page) == [op |-> "page", val |-> page]
\* The same through a driver that remembers the bank (ov2640.c, set_bank).
Bank(bank) == [op |-> "bank", val |-> bank]

\* The byte in the register of a transfer, if it is kept.
Content(dev, step) ==
  LET a == Address(dev, step.reg)
  IN IF a \in DOMAIN dev.regs THEN dev.regs[a] ELSE 0

\* The register gets the bits of the transfer, and otherwise those of byte.
Modify(dev, step, byte) ==
  LET a == Address(dev, step.reg)
  IN IF a \in DOMAIN dev.regs
     THEN [dev EXCEPT !.regs[a] = Splice(byte, step.off, step.width, step.val)]
     ELSE dev

\* A transfer that succeeds.
Done(dev, step) ==
  CASE step.op \in {"put", "bits"} -> Modify(dev, step, Content(dev, step))
    [] step.op \in {"page", "bank"} ->
         IF step.op = "bank" /\ dev.bank = step.val THEN dev
         ELSE [dev EXCEPT !.page = step.val, !.bank = step.val]
    [] step.op = "other" -> dev

\* A write that fails leaves the device alone; the bank is noted before.
Missed(dev, step) == IF step.op = "bank" THEN [dev EXCEPT !.bank = step.val] ELSE dev

\* SCCB_Read gives a value like any other when it fails: 255 if the register
\* could not be named, 0 if it could not be fetched.
Misread(dev, step, value) == Modify(dev, step, value)

-----------------------------------------------------------------------------
(* Calls                                                                   *)

\* A call of a setter is a sequence of parts.  A failed write ends its part;
\* an error that is "returned" ends the call, one that is "kept" or "ignored"
\* does not, and one that is returned or kept is its result.  One that is
\* "withheld" ends the call without being its result.  The fields of "note"
\* are set after the part, unless there has been an error.
NoNote == [f \in {} |-> 0]
Part(steps, error, note) == [steps |-> steps, error |-> error, note |-> note]

Note(note) == Part(<<>>, "returned", note)
Checked(steps) == Part(steps, "returned", NoNote)
Ignored(steps) == Part(steps, "ignored", NoNote)
\* ret |= ... for each transfer
Collected(steps) == [i \in DOMAIN steps |-> Part(<<steps[i]>>, "kept", NoNote)]

\* The two usual forms: the status first, or last.
StatusFirst(note, steps) == <<Note(note), Checked(steps)>>
StatusLast(note, steps) == <<Part(steps, "returned", note)>>
\* Mutant: set_dummy is not set.
NoDummy == <<Part(<<>>, "missing", NoNote)>>
\* return -1 without a transfer.
Rejected == <<Part(<<>>, "rejected", NoNote)>>
\* A setter that the driver does not set: a call of a null pointer.
Missing == <<Part(<<>>, "missing", NoNote)>>

\* No result is looked at.
Shrugged(steps) == [i \in DOMAIN steps |-> Ignored(<<steps[i]>>)]

\* Registers that are not read back, and nothing is noted.
Sent == <<Checked(<<Other>>)>>

\* ret |= ..., and the value is noted before, or after if all went well.
NotedThenCollected(note, steps) == <<Note(note)>> \o Collected(steps)
CollectedThenNoted(note, steps) == Collected(steps) \o <<Note(note)>>

\* return sensor->status.field: what the field is then, taken for an error.
ReturnsStatus(status, field, steps, enable) ==
  <<Part(steps, IF status[field] = 0 THEN "withheld" ELSE "returned", field :> enable)>>
    \o (IF enable = 0 THEN <<>> ELSE Rejected)

\* Most drivers force a value into its range.
Clamp(n, low, high) == IF n < low THEN low ELSE IF n > high THEN high ELSE n

\* The types of the fields of camera_status_t.
Signed == {"brightness", "contrast", "saturation", "sharpness", "ae_level"}
Whole == {"framesize", "pixformat", "binning", "scale"}
\* Mutant: a status whose fields are int.
Uncast(note) == note
Stored(note) ==
  [f \in DOMAIN note |->
     CASE f \in Whole -> note[f]
       [] f = "aec_value" -> note[f] % 65536
       [] f \in Signed -> ((note[f] + 128) % 256) - 128
       [] OTHER -> note[f] % 256]

-----------------------------------------------------------------------------
(* Sizes                                                                   *)

\* framesize_t, from 0: width, height and aspect ratio.
resolution ==
  <<<<96, 96, "1x1">>, <<160, 120, "4x3">>, <<176, 144, "5x4">>, <<240, 176, "4x3">>,
    <<240, 240, "1x1">>, <<320, 240, "4x3">>, <<400, 296, "4x3">>, <<480, 320, "3x2">>,
    <<640, 480, "4x3">>, <<800, 600, "4x3">>, <<1024, 768, "4x3">>, <<1280, 720, "16x9">>,
    <<1280, 1024, "5x4">>, <<1600, 1200, "4x3">>, <<1920, 1080, "16x9">>, <<720, 1280, "9x16">>,
    <<864, 1536, "9x16">>, <<2048, 1536, "4x3">>, <<2560, 1440, "16x9">>, <<2560, 1600, "16x10">>,
    <<1088, 1920, "9x16">>, <<2560, 1920, "4x3">>>>

Width(framesize) == resolution[framesize + 1][1]
Height(framesize) == resolution[framesize + 1][2]
Ratio(framesize) == resolution[framesize + 1][3]

-----------------------------------------------------------------------------
(* Reading back                                                            *)

\* A field of the status that init_status reads from the device: the bits it
\* is made of, the most significant first, and what it makes of them.
Field(bits, val) == [at |-> bits, val |-> val]
At(reg, off, width) == [reg |-> reg, off |-> off, width |-> width]
Flag(reg, off) == Field(<<At(reg, off, 1)>>, [n \in 0..1 |-> n])
NotFlag(reg, off) == Field(<<At(reg, off, 1)>>, [n \in 0..1 |-> 1 - n])
\* check_reg_mask with a mask of several bits: all of them are set.
AllSet(reg, off, width) ==
  Field(<<At(reg, off, width)>>, [n \in 0..(2^width - 1) |-> IF n = 2^width - 1 THEN 1 ELSE 0])
Number(bits) == Field(bits, [n \in 0..65535 |-> n])
Byte(reg) == Number(<<At(reg, 0, 8)>>)
\* A byte that is kept in a signed field.
SignedByte(reg) == Field(<<At(reg, 0, 8)>>, [n \in 0..255 |-> ((n + 128) % 256) - 128])

\* The fields that the drivers of the small sensors clear, all but the frame
\* size and the pixel format.
Cleared ==
  {"brightness", "contrast", "saturation", "sharpness", "denoise", "ae_level", "gainceiling",
   "awb", "dcw", "agc", "aec", "hmirror", "vflip", "colorbar", "bpc", "wpc", "raw_gma", "lenc",
   "quality", "special_effect", "wb_mode", "awb_gain", "agc_gain", "aec_value", "aec2"}

=============================================================================
