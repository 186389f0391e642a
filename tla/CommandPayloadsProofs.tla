----------------------- MODULE CommandPayloadsProofs -----------------------
(***************************************************************************)
(* Compiler and runtime judge a payload alike, a command the compiler      *)
(* lowered is prepared and writes all of its outputs, and no command the   *)
(* runtime prepares reaches outside its operands: for every payload of     *)
(* every form, whoever changed it, and every command record beside it.     *)
(*                                                                         *)
(* The first part goes through the forms.  ParsedFits: when a parser of    *)
(* src/cpp accepts a payload, the operands that dispatch.cc asks for are   *)
(* at least as large as what the launched kernels touch, have the accesses *)
(* of the provider's contract, and the scratch is written before it is     *)
(* read.  Numbers of operands and shapes differ from form to form, so each *)
(* has a lemma; its steps are the fields the parser has fixed, the extents *)
(* that follow from them, and the operands asked for.                      *)
(*                                                                         *)
(* The second part, LoweredPrepares, compares what the compiler derives    *)
(* from a problem with what the runtime derives from its bytes: provider,  *)
(* tag, operands, workspace, module and architecture.                      *)
(*                                                                         *)
(* The third part is the invariant: the payload keeps the layout of its    *)
(* form, a command that counts as lowered is the one of the problem that   *)
(* is read from the payload, and an outcome is what the runtime's          *)
(* conditions give.                                                        *)
(***************************************************************************)
EXTENDS PayloadCodecProofs

(* Of a payload's layout the extents need that its fields are unsigned and  *)
(* that one of them, which holds any value, is where its form has it.      *)
Carried(magic) ==
  CASE magic \in GeluMulForms -> 64
    [] magic = "AISTU1" -> 32
    [] magic = "AILTMM1" -> 124
    [] magic = "AIPPA1" -> 316
    [] OTHER -> 8
LaidOut(b) ==
  /\ b = [magic |-> b.magic, size |-> b.size, at |-> b.at] /\ b.magic \in Magics
  /\ b.at = [o \in DOMAIN b.at |-> b.at[o]] /\ Carried(b.magic) \in DOMAIN b.at
  /\ \A o \in DOMAIN b.at : b.at[o] \in Nat

(* Operands are a list of accesses and sizes.                              *)
Listed(operands) ==
  /\ Len(operands) \in Nat /\ operands = [i \in 1..Len(operands) |-> operands[i]]
  /\ \A i \in 1..Len(operands) : /\ operands[i] = [access |-> operands[i].access, bytes |-> operands[i].bytes]
                                 /\ operands[i].bytes \in Int

(* What Prepare asks of the operands covers what the kernels touch of them. *)
Covered(extents, required) ==
  /\ Len(extents) = Len(required) /\ DOMAIN extents = 1..Len(required)
  /\ \A i \in 1..Len(required) :
        /\ extents[i] \in Int /\ required[i].bytes \in Nat \ {0}
        /\ extents[i] <= required[i].bytes
(* An output is written up to its end, or up to the end of the window of a *)
(* state that is updated.                                                  *)
Produces(b, extent, bytes) ==
  extent = IF b.magic = "AISTU1" THEN 2 * (b.at[32] + b.at[24]) ELSE bytes
Filled(b, extents, required) ==
  \A i \in 1..Len(required) : required[i].access = "w" => Produces(b, extents[i], required[i].bytes)
(* That what a payload's parser lets through fits its operands, which are  *)
(* those the compiler declares ...                                         *)
Fits(b) ==
  /\ Covered(Runtime!Extents(b), Runtime!Requires(b)) /\ Filled(b, Runtime!Extents(b), Runtime!Requires(b))
  /\ Operands(Read(b)) = Runtime!Requires(b) /\ Listed(Runtime!Requires(b))

(* The extents of a launch, and the operands asked for and declared.       *)
Reaches(b, extents) == Runtime!Extents(b) = extents
Asks(b, reads, writes) ==
  Runtime!Requires(b) = Runtime!Required(reads, writes) /\ Operands(Read(b)) = Contract(reads, writes)
(* ... and its scratch.                                                    *)
ScratchFits(b) ==
  LET scratch == Runtime!ScratchExtent(b)
  IN /\ scratch.read \in Int /\ scratch.written \in Int
     /\ scratch.read <= scratch.written /\ scratch.written <= Runtime!RequiredWorkspace(b)

(* The widest row the tiled kernel takes; named, since it is only compared. *)
Widest == 32768

-----------------------------------------------------------------------------
(* Helpers: contracts, sizes of tensors, numbers of operands.              *)

(* What is required over numbers is a list of operands, and the contract.  *)
LEMMA RequiredListed ==
  ASSUME NEW reads \in Seq(Nat \ {0}), NEW writes \in Seq(Nat \ {0})
  PROVE /\ Listed(Runtime!Required(reads, writes))
        /\ Runtime!Required(reads, writes) = Contract(reads, writes)
        /\ Len(Runtime!Required(reads, writes)) = Len(reads) + Len(writes)
        /\ \A i \in 1..(Len(reads) + Len(writes)) :
             /\ Runtime!Required(reads, writes)[i].access = IF i <= Len(reads) THEN "r" ELSE "w"
             /\ Runtime!Required(reads, writes)[i].bytes = (reads \o writes)[i]
             /\ (reads \o writes)[i] \in Nat \ {0}
  <1>1. /\ reads \o writes \in Seq(Nat \ {0})
        /\ Len(reads \o writes) = Len(reads) + Len(writes)
    OBVIOUS
  <1>2. \A i \in 1..(Len(reads) + Len(writes)) : (reads \o writes)[i] \in Nat \ {0}
    BY <1>1
  <1>3. Len(Runtime!Required(reads, writes)) = Len(reads) + Len(writes)
    BY DEF Runtime!Required
  <1>4. Runtime!Required(reads, writes) = Contract(reads, writes)
    BY DEF Runtime!Required, Contract
  <1>5. Listed(Runtime!Required(reads, writes))
    BY <1>2, <1>3 DEF Runtime!Required, Listed
  <1>6. \A i \in 1..(Len(reads) + Len(writes)) :
          /\ Runtime!Required(reads, writes)[i].access = IF i <= Len(reads) THEN "r" ELSE "w"
          /\ Runtime!Required(reads, writes)[i].bytes = (reads \o writes)[i]
    BY DEF Runtime!Required
  <1> QED BY <1>2, <1>3, <1>4, <1>5, <1>6

(* A product of positive numbers is positive.                              *)
LEMMA Positive == \A a, c \in Nat \ {0} : a * c \in Nat \ {0}
  <1> SUFFICES ASSUME NEW a \in Nat \ {0}, NEW c \in Nat \ {0} PROVE a * c \in Nat \ {0}
    OBVIOUS
  <1>1. a * c \in Nat
    BY SMT
  <1>2. a * c # 0
    BY SMT
  <1> QED BY <1>1, <1>2

(* The bytes of tensors of one to four dimensions.                         *)
LEMMA Bytes1 == \A t \in 1..4, a \in Nat : Tensor(t, <<a>>) = DTypeBytes[t] * a
  <1>1. \A t \in 1..4, a \in Nat : DTypeBytes[t] * a \in Nat
    BY DEF DTypeBytes
  <1>2. \A n \in Nat : n * 1 * 1 * 1 = n
    OBVIOUS
  <1> QED BY <1>1, <1>2 DEF Tensor

(* Two dimensions.                                                         *)
LEMMA Bytes2 == \A t \in 1..4, a, b \in Nat : Tensor(t, <<a, b>>) = DTypeBytes[t] * a * b
  <1> SUFFICES ASSUME NEW t \in 1..4, NEW a \in Nat, NEW b \in Nat
               PROVE Tensor(t, <<a, b>>) = DTypeBytes[t] * a * b
    OBVIOUS
  <1> DEFINE n == DTypeBytes[t] * a * b
  <1>1. DTypeBytes[t] \in Nat
    BY DEF DTypeBytes
  <1>2. n \in Nat
    BY <1>1
  <1>3. Tensor(t, <<a, b>>) = n * 1 * 1
    BY DEF Tensor
  <1> HIDE DEF n
  <1>4. n * 1 * 1 = n
    BY <1>2
  <1> QED BY <1>3, <1>4 DEF n

(* Three dimensions.                                                       *)
LEMMA Bytes3 == \A t \in 1..4, a, b, c \in Nat : Tensor(t, <<a, b, c>>) = DTypeBytes[t] * a * b * c
  <1> SUFFICES ASSUME NEW t \in 1..4, NEW a \in Nat, NEW b \in Nat, NEW c \in Nat
               PROVE Tensor(t, <<a, b, c>>) = DTypeBytes[t] * a * b * c
    OBVIOUS
  <1> DEFINE n == DTypeBytes[t] * a * b * c
  <1>1. DTypeBytes[t] \in Nat
    BY DEF DTypeBytes
  <1>2. n \in Nat
    BY <1>1
  <1>3. Tensor(t, <<a, b, c>>) = n * 1
    BY DEF Tensor
  <1> HIDE DEF n
  <1>4. n * 1 = n
    BY <1>2
  <1> QED BY <1>3, <1>4 DEF n

(* Four dimensions.                                                        *)
LEMMA Bytes4 ==
  \A t \in 1..4, a, b, c, d \in Nat : Tensor(t, <<a, b, c, d>>) = DTypeBytes[t] * a * b * c * d
  BY DEF Tensor

(* The bytes of one element of each type.                                  *)
LEMMA Scalars == DTypeBytes[1] = 4 /\ DTypeBytes[2] = 2 /\ DTypeBytes[3] = 4 /\ DTypeBytes[4] = 1
  BY DEF DTypeBytes

(* A form fits when its extents are below its reads and up to its writes;  *)
(* the next lemmas say so for each number of operands the forms have.      *)
LEMMA Fitting ==
  ASSUME NEW b, NEW extents \in Seq(Int), NEW reads \in Seq(Nat \ {0}), NEW writes \in Seq(Nat \ {0}),
         Len(extents) = Len(reads) + Len(writes),
         \A i \in 1..Len(reads) : extents[i] <= reads[i],
         \A i \in 1..Len(writes) : extents[Len(reads) + i] <= writes[i],
         \A i \in 1..Len(writes) : Produces(b, extents[Len(reads) + i], writes[i]),
         Reaches(b, extents), Asks(b, reads, writes)
  PROVE Fits(b)
  <1> DEFINE n == Len(reads) + Len(writes)
             required == Runtime!Required(reads, writes)
             all == reads \o writes
  <1>1. /\ Listed(required) /\ required = Contract(reads, writes) /\ Len(required) = n
    BY RequiredListed
  <1>a. \A i \in 1..n : required[i].access = (IF i <= Len(reads) THEN "r" ELSE "w")
    BY RequiredListed
  <1>b. \A i \in 1..n : required[i].bytes = all[i] /\ all[i] \in Nat \ {0}
    BY RequiredListed
  <1>2. ASSUME NEW i \in 1..n
        PROVE extents[i] <= all[i] /\ (i > Len(reads) => Produces(b, extents[i], all[i]))
    <2>1. CASE i <= Len(reads)
      BY <2>1
    <2>2. CASE ~(i <= Len(reads))
      <3>1. PICK j \in 1..Len(writes) : i = Len(reads) + j
        <4>1. i - Len(reads) \in 1..Len(writes) /\ i = Len(reads) + (i - Len(reads))
          BY <2>2
        <4> QED BY <4>1
      <3>2. (reads \o writes)[Len(reads) + j] = writes[j]
        OBVIOUS
      <3>3. extents[Len(reads) + j] <= writes[j] /\ Produces(b, extents[Len(reads) + j], writes[j])
        OBVIOUS
      <3> QED BY <3>1, <3>2, <3>3
    <2> QED BY <2>1, <2>2
  <1>3. DOMAIN extents = 1..n /\ \A i \in 1..n : extents[i] \in Int
    OBVIOUS
  <1>4. Len(extents) = n /\ Len(reads) \in Nat /\ n \in Nat
    OBVIOUS
  <1> HIDE DEF n, required, all
  <1>5. Covered(extents, required)
    <2>1. \A i \in 1..n : /\ extents[i] \in Int /\ required[i].bytes \in Nat \ {0}
                          /\ extents[i] <= required[i].bytes
      BY <1>2, <1>3, <1>b
    <2> QED BY ONLY <1>1, <1>3, <1>4, <2>1 DEF Covered
  <1>6. Filled(b, extents, required)
    <2>1. ASSUME NEW i \in 1..n, required[i].access = "w"
          PROVE Produces(b, extents[i], required[i].bytes)
      <3>1. ~(i <= Len(reads))
        BY <1>a, <2>1
      <3>2. i > Len(reads)
        BY <1>4, <3>1
      <3> QED BY <1>2, <1>b, <3>2
    <2> QED BY ONLY <1>1, <2>1 DEF Filled
  <1>7. Reaches(b, extents) /\ Asks(b, reads, writes)
    OBVIOUS
  <1> QED BY ONLY <1>1, <1>5, <1>6, <1>7 DEF Fits, Reaches, Asks, required

(* One input, one output, the input perhaps only in part.                   *)
LEMMA Fits11 ==
  ASSUME NEW b, b.magic # "AISTU1", NEW x1 \in Int, NEW r1 \in Nat \ {0}, NEW r2 \in Nat \ {0},
         x1 <= r1, Reaches(b, <<x1, r2>>), Asks(b, <<r1>>, <<r2>>)
  PROVE Fits(b)
  <1> DEFINE ex == <<x1, r2>>
             re == <<r1>>
             wr == <<r2>>
  <1>1. ex \in Seq(Int) /\ re \in Seq(Nat \ {0}) /\ wr \in Seq(Nat \ {0})
    OBVIOUS
  <1>2. Len(ex) = 2 /\ Len(re) = 1 /\ Len(wr) = 1
    OBVIOUS
  <1>3. (\A j \in 1..1 : ex[j] <= re[j]) /\ \A j \in 1..1 : ex[1 + j] <= wr[j] /\ ex[1 + j] = wr[j]
    OBVIOUS
  <1>4. Reaches(b, ex) /\ Asks(b, re, wr)
    OBVIOUS
  <1> HIDE DEF ex, re, wr
  <1>5. /\ Len(ex) = Len(re) + Len(wr) /\ \A j \in 1..Len(re) : ex[j] <= re[j]
        /\ \A j \in 1..Len(wr) : ex[Len(re) + j] <= wr[j]
        /\ \A j \in 1..Len(wr) : Produces(b, ex[Len(re) + j], wr[j])
    BY <1>2, <1>3 DEF Produces
  <1> QED BY <1>1, <1>4, <1>5, Fitting

(* Two inputs, one output.                                                  *)
LEMMA Fits21 ==
  ASSUME NEW b, b.magic # "AISTU1", NEW r1 \in Nat \ {0}, NEW r2 \in Nat \ {0}, NEW r3 \in Nat \ {0},
         Reaches(b, <<r1, r2, r3>>), Asks(b, <<r1, r2>>, <<r3>>)
  PROVE Fits(b)
  <1> DEFINE ex == <<r1, r2, r3>>
             re == <<r1, r2>>
             wr == <<r3>>
  <1>1. ex \in Seq(Int) /\ re \in Seq(Nat \ {0}) /\ wr \in Seq(Nat \ {0})
    OBVIOUS
  <1>2. Len(ex) = 3 /\ Len(re) = 2 /\ Len(wr) = 1
    OBVIOUS
  <1>3. (\A j \in 1..2 : ex[j] <= re[j]) /\ \A j \in 1..1 : ex[2 + j] <= wr[j] /\ ex[2 + j] = wr[j]
    OBVIOUS
  <1>4. Reaches(b, ex) /\ Asks(b, re, wr)
    OBVIOUS
  <1> HIDE DEF ex, re, wr
  <1>5. /\ Len(ex) = Len(re) + Len(wr) /\ \A j \in 1..Len(re) : ex[j] <= re[j]
        /\ \A j \in 1..Len(wr) : ex[Len(re) + j] <= wr[j]
        /\ \A j \in 1..Len(wr) : Produces(b, ex[Len(re) + j], wr[j])
    BY <1>2, <1>3 DEF Produces
  <1> QED BY <1>1, <1>4, <1>5, Fitting

(* Three inputs, one output.                                                *)
LEMMA Fits31 ==
  ASSUME NEW b, b.magic # "AISTU1", NEW r1 \in Nat \ {0}, NEW r2 \in Nat \ {0}, NEW r3 \in Nat \ {0},
         NEW r4 \in Nat \ {0}, Reaches(b, <<r1, r2, r3, r4>>), Asks(b, <<r1, r2, r3>>, <<r4>>)
  PROVE Fits(b)
  <1> DEFINE ex == <<r1, r2, r3, r4>>
             re == <<r1, r2, r3>>
             wr == <<r4>>
  <1>1. ex \in Seq(Int) /\ re \in Seq(Nat \ {0}) /\ wr \in Seq(Nat \ {0})
    OBVIOUS
  <1>2. Len(ex) = 4 /\ Len(re) = 3 /\ Len(wr) = 1
    OBVIOUS
  <1>3. (\A j \in 1..3 : ex[j] <= re[j]) /\ \A j \in 1..1 : ex[3 + j] <= wr[j] /\ ex[3 + j] = wr[j]
    OBVIOUS
  <1>4. Reaches(b, ex) /\ Asks(b, re, wr)
    OBVIOUS
  <1> HIDE DEF ex, re, wr
  <1>5. /\ Len(ex) = Len(re) + Len(wr) /\ \A j \in 1..Len(re) : ex[j] <= re[j]
        /\ \A j \in 1..Len(wr) : ex[Len(re) + j] <= wr[j]
        /\ \A j \in 1..Len(wr) : Produces(b, ex[Len(re) + j], wr[j])
    BY <1>2, <1>3 DEF Produces
  <1> QED BY <1>1, <1>4, <1>5, Fitting

(* Four inputs, one output.                                                 *)
LEMMA Fits41 ==
  ASSUME NEW b, b.magic # "AISTU1", NEW r1 \in Nat \ {0}, NEW r2 \in Nat \ {0}, NEW r3 \in Nat \ {0},
         NEW r4 \in Nat \ {0}, NEW r5 \in Nat \ {0}, Reaches(b, <<r1, r2, r3, r4, r5>>),
         Asks(b, <<r1, r2, r3, r4>>, <<r5>>)
  PROVE Fits(b)
  <1> DEFINE ex == <<r1, r2, r3, r4, r5>>
             re == <<r1, r2, r3, r4>>
             wr == <<r5>>
  <1>1. ex \in Seq(Int) /\ re \in Seq(Nat \ {0}) /\ wr \in Seq(Nat \ {0})
    OBVIOUS
  <1>2. Len(ex) = 5 /\ Len(re) = 4 /\ Len(wr) = 1
    OBVIOUS
  <1>3. (\A j \in 1..4 : ex[j] <= re[j]) /\ \A j \in 1..1 : ex[4 + j] <= wr[j] /\ ex[4 + j] = wr[j]
    OBVIOUS
  <1>4. Reaches(b, ex) /\ Asks(b, re, wr)
    OBVIOUS
  <1> HIDE DEF ex, re, wr
  <1>5. /\ Len(ex) = Len(re) + Len(wr) /\ \A j \in 1..Len(re) : ex[j] <= re[j]
        /\ \A j \in 1..Len(wr) : ex[Len(re) + j] <= wr[j]
        /\ \A j \in 1..Len(wr) : Produces(b, ex[Len(re) + j], wr[j])
    BY <1>2, <1>3 DEF Produces
  <1> QED BY <1>1, <1>4, <1>5, Fitting

(* One input, two outputs.                                                  *)
LEMMA Fits12 ==
  ASSUME NEW b, b.magic # "AISTU1", NEW r1 \in Nat \ {0}, NEW r2 \in Nat \ {0}, NEW r3 \in Nat \ {0},
         Reaches(b, <<r1, r2, r3>>), Asks(b, <<r1>>, <<r2, r3>>)
  PROVE Fits(b)
  <1> DEFINE ex == <<r1, r2, r3>>
             re == <<r1>>
             wr == <<r2, r3>>
  <1>1. ex \in Seq(Int) /\ re \in Seq(Nat \ {0}) /\ wr \in Seq(Nat \ {0})
    OBVIOUS
  <1>2. Len(ex) = 3 /\ Len(re) = 1 /\ Len(wr) = 2
    OBVIOUS
  <1>3. (\A j \in 1..1 : ex[j] <= re[j]) /\ \A j \in 1..2 : ex[1 + j] <= wr[j] /\ ex[1 + j] = wr[j]
    OBVIOUS
  <1>4. Reaches(b, ex) /\ Asks(b, re, wr)
    OBVIOUS
  <1> HIDE DEF ex, re, wr
  <1>5. /\ Len(ex) = Len(re) + Len(wr) /\ \A j \in 1..Len(re) : ex[j] <= re[j]
        /\ \A j \in 1..Len(wr) : ex[Len(re) + j] <= wr[j]
        /\ \A j \in 1..Len(wr) : Produces(b, ex[Len(re) + j], wr[j])
    BY <1>2, <1>3 DEF Produces
  <1> QED BY <1>1, <1>4, <1>5, Fitting

(* One input, three outputs.                                                *)
LEMMA Fits13 ==
  ASSUME NEW b, b.magic # "AISTU1", NEW r1 \in Nat \ {0}, NEW r2 \in Nat \ {0}, NEW r3 \in Nat \ {0},
         NEW r4 \in Nat \ {0}, Reaches(b, <<r1, r2, r3, r4>>), Asks(b, <<r1>>, <<r2, r3, r4>>)
  PROVE Fits(b)
  <1> DEFINE ex == <<r1, r2, r3, r4>>
             re == <<r1>>
             wr == <<r2, r3, r4>>
  <1>1. ex \in Seq(Int) /\ re \in Seq(Nat \ {0}) /\ wr \in Seq(Nat \ {0})
    OBVIOUS
  <1>2. Len(ex) = 4 /\ Len(re) = 1 /\ Len(wr) = 3
    OBVIOUS
  <1>3. (\A j \in 1..1 : ex[j] <= re[j]) /\ \A j \in 1..3 : ex[1 + j] <= wr[j] /\ ex[1 + j] = wr[j]
    OBVIOUS
  <1>4. Reaches(b, ex) /\ Asks(b, re, wr)
    OBVIOUS
  <1> HIDE DEF ex, re, wr
  <1>5. /\ Len(ex) = Len(re) + Len(wr) /\ \A j \in 1..Len(re) : ex[j] <= re[j]
        /\ \A j \in 1..Len(wr) : ex[Len(re) + j] <= wr[j]
        /\ \A j \in 1..Len(wr) : Produces(b, ex[Len(re) + j], wr[j])
    BY <1>2, <1>3 DEF Produces
  <1> QED BY <1>1, <1>4, <1>5, Fitting

(* Two inputs, two outputs.                                                 *)
LEMMA Fits22 ==
  ASSUME NEW b, b.magic # "AISTU1", NEW r1 \in Nat \ {0}, NEW r2 \in Nat \ {0}, NEW r3 \in Nat \ {0},
         NEW r4 \in Nat \ {0}, Reaches(b, <<r1, r2, r3, r4>>), Asks(b, <<r1, r2>>, <<r3, r4>>)
  PROVE Fits(b)
  <1> DEFINE ex == <<r1, r2, r3, r4>>
             re == <<r1, r2>>
             wr == <<r3, r4>>
  <1>1. ex \in Seq(Int) /\ re \in Seq(Nat \ {0}) /\ wr \in Seq(Nat \ {0})
    OBVIOUS
  <1>2. Len(ex) = 4 /\ Len(re) = 2 /\ Len(wr) = 2
    OBVIOUS
  <1>3. (\A j \in 1..2 : ex[j] <= re[j]) /\ \A j \in 1..2 : ex[2 + j] <= wr[j] /\ ex[2 + j] = wr[j]
    OBVIOUS
  <1>4. Reaches(b, ex) /\ Asks(b, re, wr)
    OBVIOUS
  <1> HIDE DEF ex, re, wr
  <1>5. /\ Len(ex) = Len(re) + Len(wr) /\ \A j \in 1..Len(re) : ex[j] <= re[j]
        /\ \A j \in 1..Len(wr) : ex[Len(re) + j] <= wr[j]
        /\ \A j \in 1..Len(wr) : Produces(b, ex[Len(re) + j], wr[j])
    BY <1>2, <1>3 DEF Produces
  <1> QED BY <1>1, <1>4, <1>5, Fitting

(* Four inputs, two outputs.                                                *)
LEMMA Fits42 ==
  ASSUME NEW b, b.magic # "AISTU1", NEW r1 \in Nat \ {0}, NEW r2 \in Nat \ {0}, NEW r3 \in Nat \ {0},
         NEW r4 \in Nat \ {0}, NEW r5 \in Nat \ {0}, NEW r6 \in Nat \ {0},
         Reaches(b, <<r1, r2, r3, r4, r5, r6>>), Asks(b, <<r1, r2, r3, r4>>, <<r5, r6>>)
  PROVE Fits(b)
  <1> DEFINE ex == <<r1, r2, r3, r4, r5, r6>>
             re == <<r1, r2, r3, r4>>
             wr == <<r5, r6>>
  <1>1. ex \in Seq(Int) /\ re \in Seq(Nat \ {0}) /\ wr \in Seq(Nat \ {0})
    OBVIOUS
  <1>2. Len(ex) = 6 /\ Len(re) = 4 /\ Len(wr) = 2
    OBVIOUS
  <1>3. (\A j \in 1..4 : ex[j] <= re[j]) /\ \A j \in 1..2 : ex[4 + j] <= wr[j] /\ ex[4 + j] = wr[j]
    OBVIOUS
  <1>4. Reaches(b, ex) /\ Asks(b, re, wr)
    OBVIOUS
  <1> HIDE DEF ex, re, wr
  <1>5. /\ Len(ex) = Len(re) + Len(wr) /\ \A j \in 1..Len(re) : ex[j] <= re[j]
        /\ \A j \in 1..Len(wr) : ex[Len(re) + j] <= wr[j]
        /\ \A j \in 1..Len(wr) : Produces(b, ex[Len(re) + j], wr[j])
    BY <1>2, <1>3 DEF Produces
  <1> QED BY <1>1, <1>4, <1>5, Fitting

(* Four inputs, three outputs.                                              *)
LEMMA Fits43 ==
  ASSUME NEW b, b.magic # "AISTU1", NEW r1 \in Nat \ {0}, NEW r2 \in Nat \ {0}, NEW r3 \in Nat \ {0},
         NEW r4 \in Nat \ {0}, NEW r5 \in Nat \ {0}, NEW r6 \in Nat \ {0}, NEW r7 \in Nat \ {0},
         Reaches(b, <<r1, r2, r3, r4, r5, r6, r7>>), Asks(b, <<r1, r2, r3, r4>>, <<r5, r6, r7>>)
  PROVE Fits(b)
  <1> DEFINE ex == <<r1, r2, r3, r4, r5, r6, r7>>
             re == <<r1, r2, r3, r4>>
             wr == <<r5, r6, r7>>
  <1>1. ex \in Seq(Int) /\ re \in Seq(Nat \ {0}) /\ wr \in Seq(Nat \ {0})
    OBVIOUS
  <1>2. Len(ex) = 7 /\ Len(re) = 4 /\ Len(wr) = 3
    OBVIOUS
  <1>3. (\A j \in 1..4 : ex[j] <= re[j]) /\ \A j \in 1..3 : ex[4 + j] <= wr[j] /\ ex[4 + j] = wr[j]
    OBVIOUS
  <1>4. Reaches(b, ex) /\ Asks(b, re, wr)
    OBVIOUS
  <1> HIDE DEF ex, re, wr
  <1>5. /\ Len(ex) = Len(re) + Len(wr) /\ \A j \in 1..Len(re) : ex[j] <= re[j]
        /\ \A j \in 1..Len(wr) : ex[Len(re) + j] <= wr[j]
        /\ \A j \in 1..Len(wr) : Produces(b, ex[Len(re) + j], wr[j])
    BY <1>2, <1>3 DEF Produces
  <1> QED BY <1>1, <1>4, <1>5, Fitting

(* from_bytes keeps the form the magic names.                              *)
LEMMA FormRead ==
  ASSUME NEW b, b.magic \in Magics
  PROVE Read(b).form = b.magic
  BY DEF Read, Magics, GeluMulForms, CompactGateForms, RoundedForms, RmsNormRead, LayerNormRead,
     TimeEmbeddingRead,
     ActionSliceRead, AdaptiveRmsNormRead, VisionAttentionRead, SuffixMetadataRead, PrefixInputRead,
     PrefixKvStoreRead, RopeRead, KvPackRead, CudaKernelRead, GeluMulRead, MulAddRead, SplitRead,
     StateUpdateRead, RoundedRead, LinearRead, PatchProjectionRead, FlashInferRead

-----------------------------------------------------------------------------
(* The fixed kernels.                                                      *)

(* Layer normalisation: 256 rows of 1152, a block for each.                *)
LEMMA LayerNormFits ==
  ASSUME NEW b, b.magic = "AILNR1", Runtime!Parses(b)
  PROVE Fits(b)
  <1>1. Runtime!LayerNormParses(b)
    BY DEF Runtime!Parses
  <1>2. /\ b.at[40] = 256 /\ b.at[92] = 1179648 /\ b.at[100] = 4608 /\ b.at[108] = 4608
        /\ b.at[116] = 1179648
    BY SMT, <1>1 DEF Runtime!LayerNormParses, Runtime!Words, Runtime!Longs, Runtime!Run
  <1>3. Runtime!Extents(b) = <<1179648, 4608, 4608, 1179648>>
    BY SMT, <1>2 DEF Runtime!Extents, Runtime!LayerNormExtent
  <1>4. Runtime!Requires(b) = Runtime!Required(<<1179648, 4608, 4608>>, <<1179648>>)
    BY SMT, <1>2 DEF Runtime!Requires
  <1>5. LayerNormOperands = Contract(<<1179648, 4608, 4608>>, <<1179648>>)
    <2>1. Tensor(1, <<256, 1152>>) = 1179648
      BY SMT, Scalars, Bytes2
    <2>2. Tensor(1, <<1152>>) = 4608
      BY SMT, Scalars, Bytes1
    <2> QED BY SMT, <2>1, <2>2 DEF LayerNormOperands, F32, BF16, I32, BOOL
  <1>6. Operands(Read(b)) = LayerNormOperands
    <2> DEFINE p == Read(b)
    <2> HIDE DEF p
    <2>1. p.form = "AILNR1"
      BY FormRead DEF Magics, p
    <2>2. Operands(p) = LayerNormOperands
      BY <2>1 DEF Operands, GeluMulForms, CompactGateForms, RoundedForms
    <2> QED BY <2>2 DEF p
  <1>7. Reaches(b, <<1179648, 4608, 4608, 1179648>>)
    BY SMT, <1>3 DEF Reaches
  <1>8. Asks(b, <<1179648, 4608, 4608>>, <<1179648>>)
    BY SMT, <1>4, <1>5, <1>6 DEF Asks
  <1> QED BY SMT, <1>7, <1>8, Fits31

(* Time embedding: two halves of 512 from one scalar.                      *)
LEMMA TimeEmbeddingFits ==
  ASSUME NEW b, b.magic = "AITEM1", Runtime!Parses(b)
  PROVE Fits(b)
  <1>1. Runtime!TimeEmbeddingParses(b)
    BY DEF Runtime!Parses
  <1>2. b.at[36] = 2
    BY SMT, <1>1 DEF Runtime!TimeEmbeddingParses, Runtime!Words, Runtime!Longs, Runtime!Run
  <1>3. Runtime!Extents(b) = <<4, 4096>>
    BY SMT, <1>2 DEF Runtime!Extents, Runtime!TimeEmbeddingExtent, Runtime!Guarded, Runtime!Lesser
  <1>4. Runtime!Requires(b) = Runtime!Required(<<4>>, <<4096>>)
    BY SMT, <1>2 DEF Runtime!Requires
  <1>5. TimeEmbeddingOperands = Contract(<<4>>, <<4096>>)
    <2>1. Tensor(1, <<1>>) = 4
      BY SMT, Scalars, Bytes1
    <2>2. Tensor(1, <<1, 1024>>) = 4096
      BY SMT, Scalars, Bytes2
    <2> QED BY SMT, <2>1, <2>2 DEF TimeEmbeddingOperands, F32, BF16, I32, BOOL
  <1>6. Operands(Read(b)) = TimeEmbeddingOperands
    <2> DEFINE p == Read(b)
    <2> HIDE DEF p
    <2>1. p.form = "AITEM1"
      BY FormRead DEF Magics, p
    <2>2. Operands(p) = TimeEmbeddingOperands
      BY <2>1 DEF Operands, GeluMulForms, CompactGateForms, RoundedForms
    <2> QED BY <2>2 DEF p
  <1>7. Reaches(b, <<4, 4096>>)
    BY SMT, <1>3 DEF Reaches
  <1>8. Asks(b, <<4>>, <<4096>>)
    BY SMT, <1>4, <1>5, <1>6 DEF Asks
  <1> QED BY SMT, <1>7, <1>8, Fits11

(* Action slice: 7 of the 32 columns of 50 rows; the last column read lies *)
(* 100 bytes before the end of the input.                                  *)
LEMMA ActionSliceFits ==
  ASSUME NEW b, b.magic = "AISLC1", Runtime!Parses(b)
  PROVE Fits(b)
  <1>1. Runtime!ActionSliceParses(b)
    BY DEF Runtime!Parses
  <1>2. b.at[44] = 2
    BY SMT, <1>1 DEF Runtime!ActionSliceParses, Runtime!Words, Runtime!Longs, Runtime!Run
  <1>3. Runtime!Extents(b) = <<6300, 1400>>
    BY SMT, <1>2 DEF Runtime!Extents, Runtime!ActionSliceExtent, Runtime!Guarded, Runtime!Lesser
  <1>4. Runtime!Requires(b) = Runtime!Required(<<6400>>, <<1400>>)
    BY SMT, <1>2 DEF Runtime!Requires
  <1>5. ActionSliceOperands = Contract(<<6400>>, <<1400>>)
    <2>1. Tensor(1, <<1, 50, 32>>) = 6400
      BY SMT, Scalars, Bytes3
    <2>2. Tensor(1, <<1, 50, 7>>) = 1400
      BY SMT, Scalars, Bytes3
    <2> QED BY SMT, <2>1, <2>2 DEF ActionSliceOperands, F32, BF16, I32, BOOL
  <1>6. Operands(Read(b)) = ActionSliceOperands
    <2> DEFINE p == Read(b)
    <2> HIDE DEF p
    <2>1. p.form = "AISLC1"
      BY FormRead DEF Magics, p
    <2>2. Operands(p) = ActionSliceOperands
      BY <2>1 DEF Operands, GeluMulForms, CompactGateForms, RoundedForms
    <2> QED BY <2>2 DEF p
  <1>7. Reaches(b, <<6300, 1400>>)
    BY SMT, <1>3 DEF Reaches
  <1>8. Asks(b, <<6400>>, <<1400>>)
    BY SMT, <1>4, <1>5, <1>6 DEF Asks
  <1> QED BY SMT, <1>7, <1>8, Fits11

(* Adaptive RMS normalisation of 50 rows, and the gate beside it.          *)
LEMMA AdaptiveRmsNormFits ==
  ASSUME NEW b, b.magic = "AIARM1", Runtime!Parses(b)
  PROVE Fits(b)
  <1>1. Runtime!AdaptiveRmsNormParses(b)
    BY DEF Runtime!Parses
  <1>2. b.at[60] = 50
    BY SMT, <1>1 DEF Runtime!AdaptiveRmsNormParses, Runtime!Words, Runtime!Longs, Runtime!Run
  <1>3. Runtime!Extents(b) = <<102400, 12288, 102400, 102400>>
    BY SMT, <1>2 DEF Runtime!Extents, Runtime!AdaptiveRmsNormExtent, Runtime!Lesser
  <1>4. Runtime!Requires(b) = Runtime!Required(<<102400, 12288>>, <<102400, 102400>>)
    BY SMT, <1>2 DEF Runtime!Requires
  <1>5. AdaptiveRmsNormOperands = Contract(<<102400, 12288>>, <<102400, 102400>>)
    <2>1. Tensor(2, <<1, 50, 1024>>) = 102400
      BY SMT, Scalars, Bytes3
    <2>2. Tensor(1, <<1, 3072>>) = 12288
      BY SMT, Scalars, Bytes2
    <2> QED BY SMT, <2>1, <2>2 DEF AdaptiveRmsNormOperands, F32, BF16, I32, BOOL
  <1>6. Operands(Read(b)) = AdaptiveRmsNormOperands
    <2> DEFINE p == Read(b)
    <2> HIDE DEF p
    <2>1. p.form = "AIARM1"
      BY FormRead DEF Magics, p
    <2>2. Operands(p) = AdaptiveRmsNormOperands
      BY <2>1 DEF Operands, GeluMulForms, CompactGateForms, RoundedForms
    <2> QED BY <2>2 DEF p
  <1>7. Reaches(b, <<102400, 12288, 102400, 102400>>)
    BY SMT, <1>3 DEF Reaches
  <1>8. Asks(b, <<102400, 12288>>, <<102400, 102400>>)
    BY SMT, <1>4, <1>5, <1>6 DEF Asks
  <1> QED BY SMT, <1>7, <1>8, Fits22

(* Vision attention: a block for each query token and head.                *)
LEMMA VisionAttentionFits ==
  ASSUME NEW b, b.magic = "AIVAT1", Runtime!Parses(b)
  PROVE Fits(b)
  <1>1. Runtime!VisionAttentionParses(b)
    BY DEF Runtime!Parses
  <1>2. /\ b.at[64] = 256 /\ b.at[68] = 16 /\ b.at[100] = 1179648 /\ b.at[108] = 1179648
        /\ b.at[116] = 1179648 /\ b.at[124] = 1 /\ b.at[132] = 1179648
    BY SMT, <1>1 DEF Runtime!VisionAttentionParses, Runtime!Words, Runtime!Longs, Runtime!Run
  <1>3. Runtime!Extents(b) = <<1179648, 1179648, 1179648, 1, 1179648>>
    BY SMT, <1>2 DEF Runtime!Extents, Runtime!VisionAttentionExtent
  <1>4. Runtime!Requires(b) = Runtime!Required(<<1179648, 1179648, 1179648, 1>>, <<1179648>>)
    BY SMT, <1>2 DEF Runtime!Requires
  <1>5. VisionAttentionOperands = Contract(<<1179648, 1179648, 1179648, 1>>, <<1179648>>)
    <2>1. Tensor(1, <<1, 256, 16, 72>>) = 1179648
      BY SMT DEF Tensor, DTypeBytes
    <2>2. Tensor(4, <<1>>) = 1
      BY SMT, Scalars, Bytes1
    <2> QED BY SMT, <2>1, <2>2 DEF VisionAttentionOperands, F32, BF16, I32, BOOL
  <1>6. Operands(Read(b)) = VisionAttentionOperands
    <2> DEFINE p == Read(b)
    <2> HIDE DEF p
    <2>1. p.form = "AIVAT1"
      BY FormRead DEF Magics, p
    <2>2. Operands(p) = VisionAttentionOperands
      BY <2>1 DEF Operands, GeluMulForms, CompactGateForms, RoundedForms
    <2> QED BY <2>2 DEF p
  <1>7. Reaches(b, <<1179648, 1179648, 1179648, 1, 1179648>>)
    BY SMT, <1>3 DEF Reaches
  <1>8. Asks(b, <<1179648, 1179648, 1179648, 1>>, <<1179648>>)
    BY SMT, <1>4, <1>5, <1>6 DEF Asks
  <1> QED BY SMT, <1>7, <1>8, Fits41

(* Mask and positions of the suffix: the first strides, the second is      *)
(* guarded.                                                                *)
LEMMA SuffixMetadataFits ==
  ASSUME NEW b, b.magic = "AISMD1", Runtime!Parses(b)
  PROVE Fits(b)
  <1>1. Runtime!SuffixMetadataParses(b)
    BY DEF Runtime!Parses
  <1>2. b.at[60] = 199 /\ b.at[64] = 256
    BY SMT, <1>1 DEF Runtime!SuffixMetadataParses, Runtime!Words, Runtime!Longs, Runtime!Run
  <1>3. Runtime!Extents(b) = <<968, 50900, 200>>
    BY SMT, <1>2 DEF Runtime!Extents, Runtime!SuffixMetadataExtent, Runtime!Strided, Runtime!Lesser
  <1>4. Runtime!Requires(b) = Runtime!Required(<<968>>, <<50900, 200>>)
    BY SMT, <1>2 DEF Runtime!Requires
  <1>5. SuffixMetadataOperands = Contract(<<968>>, <<50900, 200>>)
    <2>1. Tensor(4, <<1, 968>>) = 968
      BY SMT, Scalars, Bytes2
    <2>2. Tensor(4, <<1, 50, 1018>>) = 50900
      BY SMT, Scalars, Bytes3
    <2>3. Tensor(3, <<1, 50>>) = 200
      BY SMT, Scalars, Bytes2
    <2> QED BY SMT, <2>1, <2>2, <2>3 DEF SuffixMetadataOperands, F32, BF16, I32, BOOL
  <1>6. Operands(Read(b)) = SuffixMetadataOperands
    <2> DEFINE p == Read(b)
    <2> HIDE DEF p
    <2>1. p.form = "AISMD1"
      BY FormRead DEF Magics, p
    <2>2. Operands(p) = SuffixMetadataOperands
      BY <2>1 DEF Operands, GeluMulForms, CompactGateForms, RoundedForms
    <2> QED BY <2>2 DEF p
  <1>7. Reaches(b, <<968, 50900, 200>>)
    BY SMT, <1>3 DEF Reaches
  <1>8. Asks(b, <<968>>, <<50900, 200>>)
    BY SMT, <1>4, <1>5, <1>6 DEF Asks
  <1> QED BY SMT, <1>7, <1>8, Fits12

(* The prefix: three images, the embedding table and the tokens.           *)
LEMMA PrefixInputFits ==
  ASSUME NEW b, b.magic = "AIPIA1", Runtime!Parses(b)
  PROVE Fits(b)
  <1>1. Runtime!PrefixInputParses(b)
    BY DEF Runtime!Parses
  <1>2. b.at[52] = 7744
    BY SMT, <1>1 DEF Runtime!PrefixInputParses, Runtime!Words, Runtime!Longs, Runtime!Run
  <1>3. Runtime!Extents(b) = <<2097152, 2097152, 2097152, 1053294592, 800, 1, 1, 1, 200, 7929856, 968, 3872>>
    BY SMT, <1>2 DEF Runtime!Extents, Runtime!PrefixInputExtent, Runtime!Guarded, Runtime!Lesser
  <1>4. Runtime!Requires(b) = Runtime!Required(<<2097152, 2097152, 2097152, 1053294592, 800, 1, 1, 1, 200>>, <<7929856, 968, 3872>>)
    BY SMT, <1>2 DEF Runtime!Requires
  <1>5. PrefixInputOperands = Contract(<<2097152, 2097152, 2097152, 1053294592, 800, 1, 1, 1, 200>>, <<7929856, 968, 3872>>)
    <2>1. Tensor(1, <<1, 256, 2048>>) = 2097152
      BY SMT, Scalars, Bytes3
    <2>2. Tensor(4, <<1>>) = 1
      BY SMT, Scalars, Bytes1
    <2>3. Tensor(2, <<257152, 2048>>) = 1053294592
      BY SMT, Scalars, Bytes2
    <2>4. Tensor(3, <<1, 200>>) = 800
      BY SMT, Scalars, Bytes2
    <2>5. Tensor(4, <<1, 200>>) = 200
      BY SMT, Scalars, Bytes2
    <2>6. Tensor(1, <<1, 968, 2048>>) = 7929856
      BY SMT, Scalars, Bytes3
    <2>7. Tensor(4, <<1, 968>>) = 968
      BY SMT, Scalars, Bytes2
    <2>8. Tensor(3, <<1, 968>>) = 3872
      BY SMT, Scalars, Bytes2
    <2> QED BY SMT, <2>1, <2>2, <2>3, <2>4, <2>5, <2>6, <2>7, <2>8 DEF PrefixInputOperands, F32, BF16,
       I32, BOOL
  <1>6. Operands(Read(b)) = PrefixInputOperands
    <2> DEFINE p == Read(b)
    <2> HIDE DEF p
    <2>1. p.form = "AIPIA1"
      BY FormRead DEF Magics, p
    <2>2. Operands(p) = PrefixInputOperands
      BY <2>1 DEF Operands, GeluMulForms, CompactGateForms, RoundedForms
    <2> QED BY <2>2 DEF p
  <1>7. Reaches(b, <<2097152, 2097152, 2097152, 1053294592, 800, 1, 1, 1, 200, 7929856, 968, 3872>>)
    BY SMT, <1>3 DEF Reaches
  <1>8. Asks(b, <<2097152, 2097152, 2097152, 1053294592, 800, 1, 1, 1, 200>>, <<7929856, 968, 3872>>)
    BY SMT, <1>4, <1>5, <1>6 DEF Asks
  <1> DEFINE ex == <<2097152, 2097152, 2097152, 1053294592, 800, 1, 1, 1, 200, 7929856, 968, 3872>>
             re == <<2097152, 2097152, 2097152, 1053294592, 800, 1, 1, 1, 200>>
             wr == <<7929856, 968, 3872>>
  <1>9. ex \in Seq(Int) /\ re \in Seq(Nat \ {0}) /\ wr \in Seq(Nat \ {0})
    BY SMT
  <1>10. Len(ex) = 12 /\ Len(re) = 9 /\ Len(wr) = 3
    BY SMT
  <1>11. (\A j \in 1..9 : ex[j] <= re[j]) /\ \A j \in 1..3 : ex[9 + j] <= wr[j] /\ ex[9 + j] = wr[j]
    BY SMT
  <1>12. Reaches(b, ex) /\ Asks(b, re, wr)
    BY <1>7, <1>8
  <1> HIDE DEF ex, re, wr
  <1>13. /\ Len(ex) = Len(re) + Len(wr) /\ \A j \in 1..Len(re) : ex[j] <= re[j]
         /\ \A j \in 1..Len(wr) : ex[Len(re) + j] <= wr[j]
         /\ \A j \in 1..Len(wr) : Produces(b, ex[Len(re) + j], wr[j])
    BY <1>10, <1>11 DEF Produces
  <1> QED BY <1>9, <1>12, <1>13, Fitting

(* The prefix's keys and values, copied by the halves of one launch.       *)
LEMMA PrefixKvStoreFits ==
  ASSUME NEW b, b.magic = "AIKVS1", Runtime!Parses(b)
  PROVE Fits(b)
  <1>1. Runtime!PrefixKvStoreParses(b)
    BY DEF Runtime!Parses
  <1>2. b.at[56] = 242
    BY SMT, <1>1 DEF Runtime!PrefixKvStoreParses, Runtime!Words, Runtime!Longs, Runtime!Run
  <1>3. Runtime!Extents(b) = <<495616, 495616, 495616, 495616>>
    BY SMT, <1>2 DEF Runtime!Extents, Runtime!PrefixKvStoreExtent, Runtime!Guarded, Runtime!Lesser
  <1>4. Runtime!Requires(b) = Runtime!Required(<<495616, 495616>>, <<495616, 495616>>)
    BY SMT, <1>2 DEF Runtime!Requires
  <1>5. PrefixKvStoreOperands = Contract(<<495616, 495616>>, <<495616, 495616>>)
    <2>1. Tensor(2, <<1, 968, 1, 256>>) = 495616
      BY SMT DEF Tensor, DTypeBytes
    <2> QED BY SMT, <2>1 DEF PrefixKvStoreOperands, F32, BF16, I32, BOOL
  <1>6. Operands(Read(b)) = PrefixKvStoreOperands
    <2> DEFINE p == Read(b)
    <2> HIDE DEF p
    <2>1. p.form = "AIKVS1"
      BY FormRead DEF Magics, p
    <2>2. Operands(p) = PrefixKvStoreOperands
      BY <2>1 DEF Operands, GeluMulForms, CompactGateForms, RoundedForms
    <2> QED BY <2>2 DEF p
  <1>7. Reaches(b, <<495616, 495616, 495616, 495616>>)
    BY SMT, <1>3 DEF Reaches
  <1>8. Asks(b, <<495616, 495616>>, <<495616, 495616>>)
    BY SMT, <1>4, <1>5, <1>6 DEF Asks
  <1> QED BY SMT, <1>7, <1>8, Fits22

(* Prefix and current keys and values, packed one behind the other.        *)
LEMMA KvPackFits ==
  ASSUME NEW b, b.magic = "AIKVP1", Runtime!Parses(b)
  PROVE Fits(b)
  <1>1. Runtime!KvPackParses(b)
    BY DEF Runtime!Parses
  <1>2. b.at[64] = 255
    BY SMT, <1>1 DEF Runtime!KvPackParses, Runtime!Words, Runtime!Longs, Runtime!Run
  <1>3. Runtime!Extents(b) = <<495616, 495616, 25600, 25600, 521216, 521216>>
    BY SMT, <1>2 DEF Runtime!Extents, Runtime!KvPackExtent, Runtime!Strided
  <1>4. Runtime!Requires(b) = Runtime!Required(<<495616, 495616, 25600, 25600>>, <<521216, 521216>>)
    BY SMT, <1>2 DEF Runtime!Requires
  <1>5. KvPackOperands = Contract(<<495616, 495616, 25600, 25600>>, <<521216, 521216>>)
    <2>1. Tensor(2, <<1, 1, 968, 256>>) = 495616
      BY SMT DEF Tensor, DTypeBytes
    <2>2. Tensor(2, <<1, 50, 1, 256>>) = 25600
      BY SMT DEF Tensor, DTypeBytes
    <2>3. Tensor(2, <<1, 1, 1018, 256>>) = 521216
      BY SMT DEF Tensor, DTypeBytes
    <2> QED BY SMT, <2>1, <2>2, <2>3 DEF KvPackOperands, F32, BF16, I32, BOOL
  <1>6. Operands(Read(b)) = KvPackOperands
    <2> DEFINE p == Read(b)
    <2> HIDE DEF p
    <2>1. p.form = "AIKVP1"
      BY FormRead DEF Magics, p
    <2>2. Operands(p) = KvPackOperands
      BY <2>1 DEF Operands, GeluMulForms, CompactGateForms, RoundedForms
    <2> QED BY <2>2 DEF p
  <1>7. Reaches(b, <<495616, 495616, 25600, 25600, 521216, 521216>>)
    BY SMT, <1>3 DEF Reaches
  <1>8. Asks(b, <<495616, 495616, 25600, 25600>>, <<521216, 521216>>)
    BY SMT, <1>4, <1>5, <1>6 DEF Asks
  <1> QED BY SMTT(60), <1>7, <1>8, Fits42

(* RMS normalisation in its two shapes.                                    *)
LEMMA RmsNormFits ==
  ASSUME NEW b, b.magic = "AIRMS1", Runtime!Parses(b)
  PROVE Fits(b)
  <1>1. Runtime!RmsNormParses(b)
    BY DEF Runtime!Parses
  <1>2. \/ /\ b.at[16] = 1 /\ b.at[48] = 50 /\ b.at[96] = 204800 /\ b.at[104] = 4096
           /\ b.at[112] = 204800
        \/ /\ b.at[16] = 2 /\ b.at[48] = 968 /\ b.at[96] = 3964928 /\ b.at[104] = 8192
           /\ b.at[112] = 3964928
    BY SMT, <1>1 DEF Runtime!RmsNormParses, Runtime!Words, Runtime!Longs, Runtime!Run
  <1>3. Read(b).form = "AIRMS1" /\ Read(b).variant = b.at[16]
    <2>1. Read(b) = RmsNormRead(b)
      BY DEF Read, GeluMulForms, CompactGateForms, RoundedForms
    <2> QED BY <2>1 DEF RmsNormRead
  <1>4. Operands(Read(b)) = RmsNormOperands(Read(b))
    <2> DEFINE p == Read(b)
    <2> HIDE DEF p
    <2>1. p.form = "AIRMS1"
      BY <1>3 DEF p
    <2>2. Operands(p) = RmsNormOperands(p)
      BY <2>1 DEF Operands, GeluMulForms, CompactGateForms, RoundedForms
    <2> QED BY <2>2 DEF p
  <1>5. CASE b.at[16] = 1
    <2>1. Tensor(1, <<50, 1024>>) = 204800
      BY SMT DEF Tensor, DTypeBytes
    <2>2. Tensor(1, <<1024>>) = 4096
      BY SMT DEF Tensor, DTypeBytes
    <2>3. Operands(Read(b)) = Contract(<<204800, 4096>>, <<204800>>)
      <3> DEFINE p == Read(b)
      <3>1. p.variant = 1
        BY <1>3, <1>5
      <3> HIDE DEF p
      <3>2. RmsNormOperands(p) = Contract(<<204800, 4096>>, <<204800>>)
        BY SMT, <3>1, <2>1, <2>2 DEF RmsNormOperands, RmsNormShape, F32, BF16, I32, BOOL
      <3> QED BY <3>2, <1>4 DEF p
    <2>4. Runtime!Extents(b) = <<204800, 4096, 204800>>
      BY SMT, <1>2, <1>5 DEF Runtime!Extents, Runtime!RmsNormExtent
    <2>5. Runtime!Requires(b) = Runtime!Required(<<204800, 4096>>, <<204800>>)
      BY SMT, <1>2, <1>5 DEF Runtime!Requires
    <2>6. Reaches(b, <<204800, 4096, 204800>>)
      BY SMT, <2>4 DEF Reaches
    <2>7. Asks(b, <<204800, 4096>>, <<204800>>)
      BY SMT, <2>3, <2>5 DEF Asks
    <2> QED BY SMT, <2>6, <2>7, Fits21
  <1>6. CASE b.at[16] = 2
    <2>1. Tensor(2, <<968, 2048>>) = 3964928
      BY SMT DEF Tensor, DTypeBytes
    <2>2. Tensor(1, <<2048>>) = 8192
      BY SMT DEF Tensor, DTypeBytes
    <2>3. Operands(Read(b)) = Contract(<<3964928, 8192>>, <<3964928>>)
      <3> DEFINE p == Read(b)
      <3>1. p.variant = 2
        BY <1>3, <1>6
      <3> HIDE DEF p
      <3>2. RmsNormOperands(p) = Contract(<<3964928, 8192>>, <<3964928>>)
        BY SMT, <3>1, <2>1, <2>2 DEF RmsNormOperands, RmsNormShape, F32, BF16, I32, BOOL
      <3> QED BY <3>2, <1>4 DEF p
    <2>4. Runtime!Extents(b) = <<3964928, 8192, 3964928>>
      BY SMT, <1>2, <1>6 DEF Runtime!Extents, Runtime!RmsNormExtent
    <2>5. Runtime!Requires(b) = Runtime!Required(<<3964928, 8192>>, <<3964928>>)
      BY SMT, <1>2, <1>6 DEF Runtime!Requires
    <2>6. Reaches(b, <<3964928, 8192, 3964928>>)
      BY SMT, <2>4 DEF Reaches
    <2>7. Asks(b, <<3964928, 8192>>, <<3964928>>)
      BY SMT, <2>3, <2>5 DEF Asks
    <2> QED BY SMT, <2>6, <2>7, Fits21
  <1> QED BY <1>2, <1>5, <1>6

(* The rotation in its four shapes.                                        *)
LEMMA RopeFits ==
  ASSUME NEW b, b.magic = "AIROP1", Runtime!Parses(b)
  PROVE Fits(b)
  <1>1. Runtime!RopeParses(b)
    BY DEF Runtime!Parses
  <1>2. \/ /\ b.at[16] = 1 /\ b.at[60] = 3872 /\ b.at[112] = 3964928 /\ b.at[120] = 3872
           /\ b.at[128] = 3964928
        \/ /\ b.at[16] = 2 /\ b.at[60] = 484 /\ b.at[112] = 495616 /\ b.at[120] = 3872
           /\ b.at[128] = 495616
        \/ /\ b.at[16] = 3 /\ b.at[60] = 200 /\ b.at[112] = 204800 /\ b.at[120] = 200
           /\ b.at[128] = 204800
        \/ /\ b.at[16] = 4 /\ b.at[60] = 25 /\ b.at[112] = 25600 /\ b.at[120] = 200
           /\ b.at[128] = 25600
    BY SMT, <1>1 DEF Runtime!RopeParses, Runtime!Words, Runtime!Longs, Runtime!Run, Runtime!RopeVariant
  <1>3. Read(b).form = "AIROP1" /\ Read(b).variant = b.at[16]
    <2>1. Read(b) = RopeRead(b)
      BY DEF Read, GeluMulForms, CompactGateForms, RoundedForms
    <2> QED BY <2>1 DEF RopeRead
  <1>4. Operands(Read(b)) = RopeOperands(Read(b))
    <2> DEFINE p == Read(b)
    <2> HIDE DEF p
    <2>1. p.form = "AIROP1"
      BY <1>3 DEF p
    <2>2. Operands(p) = RopeOperands(p)
      BY <2>1 DEF Operands, GeluMulForms, CompactGateForms, RoundedForms
    <2> QED BY <2>2 DEF p
  <1>5. CASE b.at[16] = 1
    <2>1. Tensor(2, RopeShape[1] \o <<256>>) = 3964928
      <3> DEFINE q == RopeShape[1] \o <<256>>
      <3>1. Len(q) = 3 /\ q[1] = 968 /\ q[2] = 8 /\ q[3] = 256
        BY SMT DEF RopeShape
      <3> HIDE DEF q
      <3>2. Tensor(2, q) = 3964928
        BY SMT, <3>1 DEF Tensor, DTypeBytes
      <3> QED BY <3>2 DEF q
    <2>2. Tensor(3, <<1, 968>>) = 3872
      BY SMT DEF Tensor, DTypeBytes
    <2>3. RopeShape[1][1] = 968
      BY SMT DEF RopeShape
    <2>4. Operands(Read(b)) = Contract(<<3964928, 3872>>, <<3964928>>)
      <3> DEFINE p == Read(b)
      <3>1. p.variant = 1
        BY <1>3, <1>5
      <3> HIDE DEF p
      <3>2. RopeOperands(p) = Contract(<<3964928, 3872>>, <<3964928>>)
        BY SMT, <3>1, <2>1, <2>2, <2>3 DEF RopeOperands, F32, BF16, I32, BOOL
      <3> QED BY <3>2, <1>4 DEF p
    <2>5. Runtime!Extents(b) = <<3964928, 3872, 3964928>>
      BY SMT, <1>2, <1>5 DEF Runtime!Extents, Runtime!RopeExtent, Runtime!Guarded, Runtime!Lesser
    <2>6. Runtime!Requires(b) = Runtime!Required(<<3964928, 3872>>, <<3964928>>)
      BY SMT, <1>2, <1>5 DEF Runtime!Requires
    <2>7. Reaches(b, <<3964928, 3872, 3964928>>)
      BY SMT, <2>5 DEF Reaches
    <2>8. Asks(b, <<3964928, 3872>>, <<3964928>>)
      BY SMT, <2>4, <2>6 DEF Asks
    <2> QED BY SMT, <2>7, <2>8, Fits21
  <1>6. CASE b.at[16] = 2
    <2>1. Tensor(2, RopeShape[2] \o <<256>>) = 495616
      <3> DEFINE q == RopeShape[2] \o <<256>>
      <3>1. Len(q) = 3 /\ q[1] = 968 /\ q[2] = 1 /\ q[3] = 256
        BY SMT DEF RopeShape
      <3> HIDE DEF q
      <3>2. Tensor(2, q) = 495616
        BY SMT, <3>1 DEF Tensor, DTypeBytes
      <3> QED BY <3>2 DEF q
    <2>2. Tensor(3, <<1, 968>>) = 3872
      BY SMT DEF Tensor, DTypeBytes
    <2>3. RopeShape[2][1] = 968
      BY SMT DEF RopeShape
    <2>4. Operands(Read(b)) = Contract(<<495616, 3872>>, <<495616>>)
      <3> DEFINE p == Read(b)
      <3>1. p.variant = 2
        BY <1>3, <1>6
      <3> HIDE DEF p
      <3>2. RopeOperands(p) = Contract(<<495616, 3872>>, <<495616>>)
        BY SMT, <3>1, <2>1, <2>2, <2>3 DEF RopeOperands, F32, BF16, I32, BOOL
      <3> QED BY <3>2, <1>4 DEF p
    <2>5. Runtime!Extents(b) = <<495616, 3872, 495616>>
      BY SMT, <1>2, <1>6 DEF Runtime!Extents, Runtime!RopeExtent, Runtime!Guarded, Runtime!Lesser
    <2>6. Runtime!Requires(b) = Runtime!Required(<<495616, 3872>>, <<495616>>)
      BY SMT, <1>2, <1>6 DEF Runtime!Requires
    <2>7. Reaches(b, <<495616, 3872, 495616>>)
      BY SMT, <2>5 DEF Reaches
    <2>8. Asks(b, <<495616, 3872>>, <<495616>>)
      BY SMT, <2>4, <2>6 DEF Asks
    <2> QED BY SMT, <2>7, <2>8, Fits21
  <1>7. CASE b.at[16] = 3
    <2>1. Tensor(2, RopeShape[3] \o <<256>>) = 204800
      <3> DEFINE q == RopeShape[3] \o <<256>>
      <3>1. Len(q) = 3 /\ q[1] = 50 /\ q[2] = 8 /\ q[3] = 256
        BY SMT DEF RopeShape
      <3> HIDE DEF q
      <3>2. Tensor(2, q) = 204800
        BY SMT, <3>1 DEF Tensor, DTypeBytes
      <3> QED BY <3>2 DEF q
    <2>2. Tensor(3, <<1, 50>>) = 200
      BY SMT DEF Tensor, DTypeBytes
    <2>3. RopeShape[3][1] = 50
      BY SMT DEF RopeShape
    <2>4. Operands(Read(b)) = Contract(<<204800, 200>>, <<204800>>)
      <3> DEFINE p == Read(b)
      <3>1. p.variant = 3
        BY <1>3, <1>7
      <3> HIDE DEF p
      <3>2. RopeOperands(p) = Contract(<<204800, 200>>, <<204800>>)
        BY SMT, <3>1, <2>1, <2>2, <2>3 DEF RopeOperands, F32, BF16, I32, BOOL
      <3> QED BY <3>2, <1>4 DEF p
    <2>5. Runtime!Extents(b) = <<204800, 200, 204800>>
      BY SMT, <1>2, <1>7 DEF Runtime!Extents, Runtime!RopeExtent, Runtime!Guarded, Runtime!Lesser
    <2>6. Runtime!Requires(b) = Runtime!Required(<<204800, 200>>, <<204800>>)
      BY SMT, <1>2, <1>7 DEF Runtime!Requires
    <2>7. Reaches(b, <<204800, 200, 204800>>)
      BY SMT, <2>5 DEF Reaches
    <2>8. Asks(b, <<204800, 200>>, <<204800>>)
      BY SMT, <2>4, <2>6 DEF Asks
    <2> QED BY SMT, <2>7, <2>8, Fits21
  <1>8. CASE b.at[16] = 4
    <2>1. Tensor(2, RopeShape[4] \o <<256>>) = 25600
      <3> DEFINE q == RopeShape[4] \o <<256>>
      <3>1. Len(q) = 3 /\ q[1] = 50 /\ q[2] = 1 /\ q[3] = 256
        BY SMT DEF RopeShape
      <3> HIDE DEF q
      <3>2. Tensor(2, q) = 25600
        BY SMT, <3>1 DEF Tensor, DTypeBytes
      <3> QED BY <3>2 DEF q
    <2>2. Tensor(3, <<1, 50>>) = 200
      BY SMT DEF Tensor, DTypeBytes
    <2>3. RopeShape[4][1] = 50
      BY SMT DEF RopeShape
    <2>4. Operands(Read(b)) = Contract(<<25600, 200>>, <<25600>>)
      <3> DEFINE p == Read(b)
      <3>1. p.variant = 4
        BY <1>3, <1>8
      <3> HIDE DEF p
      <3>2. RopeOperands(p) = Contract(<<25600, 200>>, <<25600>>)
        BY SMT, <3>1, <2>1, <2>2, <2>3 DEF RopeOperands, F32, BF16, I32, BOOL
      <3> QED BY <3>2, <1>4 DEF p
    <2>5. Runtime!Extents(b) = <<25600, 200, 25600>>
      BY SMT, <1>2, <1>8 DEF Runtime!Extents, Runtime!RopeExtent, Runtime!Guarded, Runtime!Lesser
    <2>6. Runtime!Requires(b) = Runtime!Required(<<25600, 200>>, <<25600>>)
      BY SMT, <1>2, <1>8 DEF Runtime!Requires
    <2>7. Reaches(b, <<25600, 200, 25600>>)
      BY SMT, <2>5 DEF Reaches
    <2>8. Asks(b, <<25600, 200>>, <<25600>>)
      BY SMT, <2>4, <2>6 DEF Asks
    <2> QED BY SMT, <2>7, <2>8, Fits21
  <1> QED BY <1>2, <1>5, <1>6, <1>7, <1>8

(* FlashInfer's two attentions.                                            *)
LEMMA FlashInferFits ==
  ASSUME NEW b, b.magic = "AIFIAT1", Runtime!Parses(b)
  PROVE Fits(b)
  <1>1. Runtime!FlashInferParses(b)
    BY DEF Runtime!Parses
  <1>2. \/ /\ b.at[16] = 1 /\ b.at[36] = 1 /\ b.at[52] = 50 /\ b.at[56] = 1018
           /\ b.at[96] = 204800 /\ b.at[104] = 521216 /\ b.at[112] = 521216
           /\ b.at[120] = 50900 /\ b.at[128] = 204800
        \/ /\ b.at[16] = 2 /\ b.at[36] = 2 /\ b.at[52] = 968 /\ b.at[56] = 968
           /\ b.at[96] = 3964928 /\ b.at[104] = 495616 /\ b.at[112] = 495616 /\ b.at[120] = 968
           /\ b.at[128] = 3964928
    BY SMT, <1>1 DEF Runtime!FlashInferParses, Runtime!Words, Runtime!Longs, Runtime!Run
  <1>3. Read(b).form = "AIFIAT1" /\ Read(b).variant = b.at[16]
    <2>1. Read(b) = FlashInferRead(b)
      BY DEF Read, GeluMulForms, CompactGateForms, RoundedForms
    <2> QED BY <2>1 DEF FlashInferRead
  <1>4. Operands(Read(b)) = FlashInferOperands(Read(b))
    <2> DEFINE p == Read(b)
    <2> HIDE DEF p
    <2>1. p.form = "AIFIAT1"
      BY <1>3 DEF p
    <2>2. Operands(p) = FlashInferOperands(p)
      BY <2>1 DEF Operands, GeluMulForms, CompactGateForms, RoundedForms
    <2> QED BY <2>2 DEF p
  <1>5. CASE b.at[16] = 1
    <2>1. Tensor(4, <<50, 1018>>) = 50900
      BY SMT DEF Tensor, DTypeBytes
    <2>2. Tensor(4, <<968>>) = 968
      BY SMT DEF Tensor, DTypeBytes
    <2>3. Operands(Read(b)) = Contract(<<204800, 521216, 521216, 50900>>, <<204800>>)
      <3> DEFINE p == Read(b)
      <3>1. p.variant = 1
        BY <1>3, <1>5
      <3> HIDE DEF p
      <3>2. FlashInferOperands(p) = Contract(<<204800, 521216, 521216, 50900>>, <<204800>>)
        BY SMT, <3>1, <2>1, <2>2 DEF FlashInferOperands, AttentionOperands, FlashShape, F32, BF16, I32,
           BOOL
      <3> QED BY <3>2, <1>4 DEF p
    <2>4. Runtime!Extents(b) = <<204800, 521216, 521216, 50900, 204800>>
      BY SMT, <1>2, <1>5 DEF Runtime!Extents, Runtime!FlashInferExtent
    <2>5. Runtime!Requires(b) = Runtime!Required(<<204800, 521216, 521216, 50900>>, <<204800>>)
      BY SMT, <1>2, <1>5 DEF Runtime!Requires
    <2>6. Reaches(b, <<204800, 521216, 521216, 50900, 204800>>)
      BY SMT, <2>4 DEF Reaches
    <2>7. Asks(b, <<204800, 521216, 521216, 50900>>, <<204800>>)
      BY SMT, <2>3, <2>5 DEF Asks
    <2> QED BY SMT, <2>6, <2>7, Fits41
  <1>6. CASE b.at[16] = 2
    <2>1. Tensor(4, <<50, 1018>>) = 50900
      BY SMT DEF Tensor, DTypeBytes
    <2>2. Tensor(4, <<968>>) = 968
      BY SMT DEF Tensor, DTypeBytes
    <2>3. Operands(Read(b)) = Contract(<<3964928, 495616, 495616, 968>>, <<3964928>>)
      <3> DEFINE p == Read(b)
      <3>1. p.variant = 2
        BY <1>3, <1>6
      <3> HIDE DEF p
      <3>2. FlashInferOperands(p) = Contract(<<3964928, 495616, 495616, 968>>, <<3964928>>)
        BY SMT, <3>1, <2>1, <2>2 DEF FlashInferOperands, AttentionOperands, FlashShape, F32, BF16, I32,
           BOOL
      <3> QED BY <3>2, <1>4 DEF p
    <2>4. Runtime!Extents(b) = <<3964928, 495616, 495616, 968, 3964928>>
      BY SMT, <1>2, <1>6 DEF Runtime!Extents, Runtime!FlashInferExtent
    <2>5. Runtime!Requires(b) = Runtime!Required(<<3964928, 495616, 495616, 968>>, <<3964928>>)
      BY SMT, <1>2, <1>6 DEF Runtime!Requires
    <2>6. Reaches(b, <<3964928, 495616, 495616, 968, 3964928>>)
      BY SMT, <2>4 DEF Reaches
    <2>7. Asks(b, <<3964928, 495616, 495616, 968>>, <<3964928>>)
      BY SMT, <2>3, <2>5 DEF Asks
    <2> QED BY SMT, <2>6, <2>7, Fits41
  <1> QED BY <1>2, <1>5, <1>6

-----------------------------------------------------------------------------
(* Attention with library products, and the forms that carry sizes.        *)

(* The attentions with library products: the operands of the four shapes.  *)
LEMMA RoundedFits ==
  ASSUME NEW b, b.magic \in RoundedForms, Runtime!Parses(b)
  PROVE Fits(b) /\ b.at[16] \in 1..4
  <1>0. b.magic # "AISTU1"
    BY DEF RoundedForms
  <1>1. Runtime!RoundedAttentionParses(b)
    BY DEF Runtime!Parses, RoundedForms
  <1>2. b.at[16] \in 1..4
    <2>1. Runtime!Field(b, 16) \in 1..4
      BY <1>1 DEF Runtime!RoundedAttentionParses
    <2> QED BY <2>1 DEF Runtime!Field
  <1>3. Read(b).form = b.magic /\ Read(b).variant = b.at[16]
    <2>1. Read(b) = RoundedRead(b)
      BY DEF Read, GeluMulForms, CompactGateForms, RoundedForms
    <2> QED BY <2>1 DEF RoundedRead
  <1>4. Operands(Read(b)) = RoundedOperands(Read(b))
    <2> DEFINE p == Read(b)
    <2> HIDE DEF p
    <2>1. p.form \in RoundedForms
      BY <1>3 DEF p
    <2>2. Operands(p) = RoundedOperands(p)
      BY <2>1 DEF Operands, GeluMulForms, CompactGateForms, RoundedForms
    <2> QED BY <2>2 DEF p
  <1>5. Runtime!Extents(b) = Runtime!RoundedAttentionExtent(b)
    BY DEF Runtime!Extents, RoundedForms
  <1>6. Runtime!Requires(b) = Runtime!RoundedAttentionRequires(b)
    BY DEF Runtime!Requires, RoundedForms
  <1>7. Tensor(4, <<50, 1018>>) = 50900 /\ Tensor(4, <<968>>) = 968
    BY SMT DEF Tensor, DTypeBytes
  <1>8. ASSUME b.at[16] = 1 PROVE Fits(b)
    <2>1. Operands(Read(b)) = Contract(<<204800, 521216, 521216, 50900>>, <<204800>>)
      <3> DEFINE p == Read(b)
      <3>1. p.variant = 1
        BY <1>3, <1>8
      <3> HIDE DEF p
      <3>2. RoundedOperands(p) = Contract(<<204800, 521216, 521216, 50900>>, <<204800>>)
        BY SMT, <3>1, <1>7 DEF RoundedOperands, AttentionOperands, RoundedShape, BOOL
      <3> QED BY <3>2, <1>4 DEF p
    <2>2. Runtime!Extents(b) = <<204800, 521216, 521216, 50900, 204800>>
      BY SMT, <1>5, <1>8 DEF Runtime!RoundedAttentionExtent, Runtime!AttentionDims,
         Runtime!AttentionScalar
    <2>3. Runtime!Requires(b) = Runtime!Required(<<204800, 521216, 521216, 50900>>, <<204800>>)
      BY SMT, <1>6, <1>8 DEF Runtime!RoundedAttentionRequires, Runtime!AttentionDims,
         Runtime!AttentionScalar
    <2>4. Reaches(b, <<204800, 521216, 521216, 50900, 204800>>)
      BY SMT, <2>2 DEF Reaches
    <2>5. Asks(b, <<204800, 521216, 521216, 50900>>, <<204800>>)
      BY SMT, <2>1, <2>3 DEF Asks
    <2> QED BY SMT, <1>0, <2>4, <2>5, Fits41
  <1>9. ASSUME b.at[16] = 2 PROVE Fits(b)
    <2>1. Operands(Read(b)) = Contract(<<3964928, 495616, 495616, 968>>, <<3964928>>)
      <3> DEFINE p == Read(b)
      <3>1. p.variant = 2
        BY <1>3, <1>9
      <3> HIDE DEF p
      <3>2. RoundedOperands(p) = Contract(<<3964928, 495616, 495616, 968>>, <<3964928>>)
        BY SMT, <3>1, <1>7 DEF RoundedOperands, AttentionOperands, RoundedShape, BOOL
      <3> QED BY <3>2, <1>4 DEF p
    <2>2. Runtime!Extents(b) = <<3964928, 495616, 495616, 968, 3964928>>
      BY SMT, <1>5, <1>9 DEF Runtime!RoundedAttentionExtent, Runtime!AttentionDims,
         Runtime!AttentionScalar
    <2>3. Runtime!Requires(b) = Runtime!Required(<<3964928, 495616, 495616, 968>>, <<3964928>>)
      BY SMT, <1>6, <1>9 DEF Runtime!RoundedAttentionRequires, Runtime!AttentionDims,
         Runtime!AttentionScalar
    <2>4. Reaches(b, <<3964928, 495616, 495616, 968, 3964928>>)
      BY SMT, <2>2 DEF Reaches
    <2>5. Asks(b, <<3964928, 495616, 495616, 968>>, <<3964928>>)
      BY SMT, <2>1, <2>3 DEF Asks
    <2> QED BY SMT, <1>0, <2>4, <2>5, Fits41
  <1>10. ASSUME b.at[16] = 3 PROVE Fits(b)
    <2>1. Operands(Read(b)) = Contract(<<1179648, 1179648, 1179648, 1>>, <<1179648>>)
      <3> DEFINE p == Read(b)
      <3>1. p.variant = 3
        BY <1>3, <1>10
      <3> HIDE DEF p
      <3>2. RoundedOperands(p) = Contract(<<1179648, 1179648, 1179648, 1>>, <<1179648>>)
        BY SMT, <3>1, <1>7 DEF RoundedOperands, AttentionOperands, RoundedShape, BOOL
      <3> QED BY <3>2, <1>4 DEF p
    <2>2. Runtime!Extents(b) = <<1179648, 1179648, 1179648, 1, 1179648>>
      BY SMT, <1>5, <1>10 DEF Runtime!RoundedAttentionExtent, Runtime!AttentionDims,
         Runtime!AttentionScalar
    <2>3. Runtime!Requires(b) = Runtime!Required(<<1179648, 1179648, 1179648, 1>>, <<1179648>>)
      BY SMT, <1>6, <1>10 DEF Runtime!RoundedAttentionRequires, Runtime!AttentionDims,
         Runtime!AttentionScalar
    <2>4. Reaches(b, <<1179648, 1179648, 1179648, 1, 1179648>>)
      BY SMT, <2>2 DEF Reaches
    <2>5. Asks(b, <<1179648, 1179648, 1179648, 1>>, <<1179648>>)
      BY SMT, <2>1, <2>3 DEF Asks
    <2> QED BY SMT, <1>0, <2>4, <2>5, Fits41
  <1>11. ASSUME b.at[16] = 4 PROVE Fits(b)
    <2>1. Operands(Read(b)) = Contract(<<1179648, 1179648, 1179648, 1>>, <<1179648>>)
      <3> DEFINE p == Read(b)
      <3>1. p.variant = 4
        BY <1>3, <1>11
      <3> HIDE DEF p
      <3>2. RoundedOperands(p) = Contract(<<1179648, 1179648, 1179648, 1>>, <<1179648>>)
        BY SMT, <3>1, <1>7 DEF RoundedOperands, AttentionOperands, RoundedShape, BOOL
      <3> QED BY <3>2, <1>4 DEF p
    <2>2. Runtime!Extents(b) = <<1179648, 1179648, 1179648, 1, 1179648>>
      BY SMT, <1>5, <1>11 DEF Runtime!RoundedAttentionExtent, Runtime!AttentionDims,
         Runtime!AttentionScalar
    <2>3. Runtime!Requires(b) = Runtime!Required(<<1179648, 1179648, 1179648, 1>>, <<1179648>>)
      BY SMT, <1>6, <1>11 DEF Runtime!RoundedAttentionRequires, Runtime!AttentionDims,
         Runtime!AttentionScalar
    <2>4. Reaches(b, <<1179648, 1179648, 1179648, 1, 1179648>>)
      BY SMT, <2>2 DEF Reaches
    <2>5. Asks(b, <<1179648, 1179648, 1179648, 1>>, <<1179648>>)
      BY SMT, <2>1, <2>3 DEF Asks
    <2> QED BY SMT, <1>0, <2>4, <2>5, Fits41
  <1> QED BY <1>2, <1>8, <1>9, <1>10, <1>11

(* The softmax leaves no score of the scratch unwritten: its blocks cover  *)
(* the rows, and the scratch is as large as the payload asks for.          *)
LEMMA RoundedScratch ==
  ASSUME NEW b, b.magic \in RoundedForms, Runtime!Parses(b)
  PROVE ScratchFits(b)
  <1>1. Runtime!RoundedAttentionParses(b) /\ b.at[16] \in 1..4
    <2>1. Runtime!RoundedAttentionParses(b)
      BY DEF Runtime!Parses, RoundedForms
    <2> QED BY <2>1, RoundedFits
  <1>2. CASE b.magic = "AIRAT1"
    <2>1. Runtime!ScratchExtent(b) = [written |-> 0, read |-> 0]
      BY <1>2 DEF Runtime!ScratchExtent
    <2>2. Runtime!RequiredWorkspace(b) = 0
      BY <1>2 DEF Runtime!RequiredWorkspace
    <2> QED BY <2>1, <2>2 DEF ScratchFits
  <1>3. CASE b.magic \in {"AIRAT2", "AIRAT3"}
    <2>1. b.at[88] = Runtime!ScoreBytes(b.at[16])
      <3>1. Runtime!Longs(b, 88, <<Runtime!ScoreBytes(Runtime!Field(b, 16))>>)
        BY <1>1, <1>3 DEF Runtime!RoundedAttentionParses
      <3>2. Runtime!Field(b, 16) = b.at[16]
        <4>1. Runtime!Field(b, 16) \in 1..4
          BY <1>1 DEF Runtime!RoundedAttentionParses
        <4> QED BY <4>1 DEF Runtime!Field
      <3> QED BY <3>1, <3>2 DEF Runtime!Longs, Runtime!Run
    <2>2. Runtime!ScratchExtent(b) =
            [written |-> Runtime!SoftmaxBytes(b), read |-> Runtime!ScoreBytes(b.at[16])]
      BY <1>3 DEF Runtime!ScratchExtent
    <2>3. Runtime!RequiredWorkspace(b) = b.at[88]
      BY <1>3 DEF Runtime!RequiredWorkspace
    <2>4. b.magic = "AIRAT3" => b.at[16] \in 1..2
      <3>1. b.magic = "AIRAT3" => Runtime!Field(b, 16) \in 1..2
        BY <1>1 DEF Runtime!RoundedAttentionParses
      <3> QED BY <3>1 DEF Runtime!Field
    <2>5. Runtime!SoftmaxBytes(b) = Runtime!ScoreBytes(b.at[16]) /\ Runtime!ScoreBytes(b.at[16]) \in Nat
      <3>1. CASE b.at[16] = 1
        BY SMT, <3>1, <2>4, <1>3 DEF Runtime!SoftmaxBytes, Runtime!ScoreBytes, Runtime!AttentionDims,
           Runtime!AttentionScalar, Runtime!Lesser, Runtime!Blocks
      <3>2. CASE b.at[16] = 2
        BY SMT, <3>2, <2>4, <1>3 DEF Runtime!SoftmaxBytes, Runtime!ScoreBytes, Runtime!AttentionDims,
           Runtime!AttentionScalar, Runtime!Lesser, Runtime!Blocks
      <3>3. CASE b.at[16] = 3
        BY SMT, <3>3, <2>4, <1>3 DEF Runtime!SoftmaxBytes, Runtime!ScoreBytes, Runtime!AttentionDims,
           Runtime!AttentionScalar, Runtime!Lesser, Runtime!Blocks
      <3>4. CASE b.at[16] = 4
        BY SMT, <3>4, <2>4, <1>3 DEF Runtime!SoftmaxBytes, Runtime!ScoreBytes, Runtime!AttentionDims,
           Runtime!AttentionScalar, Runtime!Lesser, Runtime!Blocks
      <3> QED BY <1>1, <3>1, <3>2, <3>3, <3>4
    <2> QED BY <2>1, <2>2, <2>3, <2>5 DEF ScratchFits
  <1> QED BY <1>2, <1>3 DEF RoundedForms

(* A grid of at least one block strides over all elements.                 *)
LEMMA StridedAll ==
  ASSUME NEW n \in Nat \ {0}
  PROVE Runtime!Strided(Runtime!Lesser(Runtime!Blocks(n, 256), 4096), n) = n
  <1>1. (n + 256 - 1) \div 256 > 0
    BY SMT
  <1> QED BY SMT, <1>1 DEF Runtime!Strided, Runtime!Lesser, Runtime!Blocks

(* A kernel that carries a count of elements carries at least one.         *)
LEMMA NumberedElements ==
  ASSUME NEW b, Runtime!Numbered(b)
  PROVE b.at[16] \in Nat \ {0}
  <1>1. Runtime!Field(b, 16) \in 1..(2 ^ 26)
    BY DEF Runtime!Numbered
  <1>2. Runtime!Field(b, 16) \in Nat \ {0}
    BY <1>1
  <1> QED BY <1>2 DEF Runtime!Field

(* The rounded multiply-add strides over its elements.                     *)
LEMMA MulAddFits ==
  ASSUME NEW b, b.magic = "AIMAD1", Runtime!Parses(b)
  PROVE Fits(b)
  <1> DEFINE n == b.at[16]
  <1>1. Runtime!Numbered(b)
    BY DEF Runtime!Parses, Runtime!RoundedMulAddParses
  <1>2. n \in Nat \ {0}
    BY <1>1, NumberedElements
  <1>3. Read(b).form = "AIMAD1" /\ Read(b).numel = n
    <2>1. Read(b) = MulAddRead(b)
      BY DEF Read, GeluMulForms, CompactGateForms, RoundedForms
    <2> QED BY <2>1 DEF MulAddRead
  <1>4. Operands(Read(b)) = MulAddOperands(Read(b))
    <2> DEFINE p == Read(b)
    <2> HIDE DEF p
    <2>1. p.form = "AIMAD1"
      BY <1>3 DEF p
    <2>2. Operands(p) = MulAddOperands(p)
      BY <2>1 DEF Operands, GeluMulForms, CompactGateForms, RoundedForms
    <2> QED BY <2>2 DEF p
  <1>5. Tensor(BF16, <<n>>) = 2 * n
    BY <1>2, Bytes1, Scalars DEF BF16
  <1>6. Operands(Read(b)) = Contract(<<2 * n, 2 * n, 2 * n>>, <<2 * n>>)
    BY <1>3, <1>4, <1>5 DEF MulAddOperands
  <1>7. Runtime!Requires(b) = Runtime!Required(<<2 * n, 2 * n, 2 * n>>, <<2 * n>>)
    BY DEF Runtime!Requires, Runtime!RoundedMulAddRequires
  <1>8. Runtime!Extents(b) = <<2 * n, 2 * n, 2 * n, 2 * n>>
    <2>1. Runtime!Extents(b) = Runtime!RoundedMulAddExtent(b)
      BY DEF Runtime!Extents
    <2>2. Runtime!Strided(Runtime!Lesser(Runtime!Blocks(n, 256), 4096), n) = n
      BY <1>2, StridedAll
    <2> QED BY <2>1, <2>2 DEF Runtime!RoundedMulAddExtent
  <1>9. Reaches(b, <<2 * n, 2 * n, 2 * n, 2 * n>>) /\ Asks(b, <<2 * n, 2 * n, 2 * n>>, <<2 * n>>)
    BY <1>6, <1>7, <1>8 DEF Reaches, Asks
  <1>10. 2 * n \in Nat \ {0}
    <2> HIDE DEF n
    <2> QED BY SMT, <1>2
  <1> QED BY <1>9, <1>10, Fits31

(* The three forms with a compact gate: one row for each block, or one     *)
(* element for each of 200 blocks of threads.                              *)
LEMMA CompactGateFits ==
  ASSUME NEW b, b.magic \in CompactGateForms, Runtime!Parses(b)
  PROVE Fits(b)
  <1>0. b.magic # "AISTU1"
    BY DEF CompactGateForms
  <1>1. Read(b).form = b.magic
    BY FormRead DEF Magics
  <1>2. Runtime!Extents(b) = Runtime!CompactGateExtent(b) /\ Runtime!Requires(b) = Runtime!CompactGateRequires(b)
    BY DEF Runtime!Extents, Runtime!Requires, CompactGateForms
  <1>3. Operands(Read(b)) = CompactGateOperands(Read(b))
    <2> DEFINE p == Read(b)
    <2> HIDE DEF p
    <2>1. p.form \in CompactGateForms
      BY <1>1 DEF p
    <2>2. Operands(p) = CompactGateOperands(p)
      BY <2>1 DEF Operands, GeluMulForms, CompactGateForms, RoundedForms
    <2> QED BY <2>2 DEF p
  <1>4. Tensor(2, <<1, 50, 1024>>) = 102400
    BY SMT, Scalars, Bytes3
  <1>5. Tensor(1, <<1, 3072>>) = 12288
    BY SMT, Scalars, Bytes2
  <1>6. CASE b.magic = "AIANG1"
    <2>1. Operands(Read(b)) = Contract(<<102400, 12288>>, <<102400>>)
      <3> DEFINE p == Read(b)
      <3>1. p.form = "AIANG1"
        BY <1>1, <1>6
      <3> HIDE DEF p
      <3>2. CompactGateOperands(p) = Contract(<<102400, 12288>>, <<102400>>)
        BY SMT, <3>1, <1>4, <1>5 DEF CompactGateOperands, F32, BF16
      <3> QED BY <3>2, <1>3 DEF p
    <2>2. Reaches(b, <<102400, 12288, 102400>>)
      BY SMT, <1>2, <1>6 DEF Reaches, Runtime!CompactGateExtent, Runtime!AdaptiveRmsNormExtent,
         Runtime!Guarded,
         Runtime!Lesser
    <2>3. Asks(b, <<102400, 12288>>, <<102400>>)
      BY SMT, <1>2, <1>6, <2>1 DEF Asks, Runtime!CompactGateRequires
    <2> QED BY SMT, <1>0, <2>2, <2>3, Fits21
  <1>7. CASE b.magic = "AIGRD1"
    <2>1. Operands(Read(b)) = Contract(<<102400, 12288, 102400>>, <<102400>>)
      <3> DEFINE p == Read(b)
      <3>1. p.form = "AIGRD1"
        BY <1>1, <1>7
      <3> HIDE DEF p
      <3>2. CompactGateOperands(p) = Contract(<<102400, 12288, 102400>>, <<102400>>)
        BY SMT, <3>1, <1>4, <1>5 DEF CompactGateOperands, F32, BF16
      <3> QED BY <3>2, <1>3 DEF p
    <2>2. Reaches(b, <<102400, 12288, 102400, 102400>>)
      BY SMT, <1>2, <1>7 DEF Reaches, Runtime!CompactGateExtent, Runtime!AdaptiveRmsNormExtent,
         Runtime!Guarded,
         Runtime!Lesser
    <2>3. Asks(b, <<102400, 12288, 102400>>, <<102400>>)
      BY SMT, <1>2, <1>7, <2>1 DEF Asks, Runtime!CompactGateRequires
    <2> QED BY SMT, <1>0, <2>2, <2>3, Fits31
  <1>8. CASE b.magic = "AIGRN1"
    <2>1. Operands(Read(b)) = Contract(<<102400, 12288, 102400, 12288>>, <<102400, 102400>>)
      <3> DEFINE p == Read(b)
      <3>1. p.form = "AIGRN1"
        BY <1>1, <1>8
      <3> HIDE DEF p
      <3>2. CompactGateOperands(p) = Contract(<<102400, 12288, 102400, 12288>>, <<102400, 102400>>)
        BY SMT, <3>1, <1>4, <1>5 DEF CompactGateOperands, F32, BF16
      <3> QED BY <3>2, <1>3 DEF p
    <2>2. Reaches(b, <<102400, 12288, 102400, 12288, 102400, 102400>>)
      BY SMT, <1>2, <1>8 DEF Reaches, Runtime!CompactGateExtent, Runtime!AdaptiveRmsNormExtent,
         Runtime!Guarded,
         Runtime!Lesser
    <2>3. Asks(b, <<102400, 12288, 102400, 12288>>, <<102400, 102400>>)
      BY SMT, <1>2, <1>8, <2>1 DEF Asks, Runtime!CompactGateRequires
    <2> QED BY SMTT(60), <1>0, <2>2, <2>3, Fits42
  <1> QED BY <1>6, <1>7, <1>8 DEF CompactGateForms

(* An elementwise kernel strides over all of its elements.                 *)
LEMMA CudaKernelFits ==
  ASSUME NEW b, LaidOut(b), b.magic = "AICUKR1", Runtime!Parses(b)
  PROVE Fits(b)
  <1> DEFINE n == b.at[48]
             kernel == b.at[20]
             in == n * DTypeBytes[b.at[24]]
             out == n * DTypeBytes[b.at[28]]
  <1>1. Runtime!CudaKernelParses(b)
    BY DEF Runtime!Parses
  <1>2. kernel \in 1..11 /\ Runtime!Field(b, 20) = kernel
    <2>1. Runtime!Field(b, 20) \in 1..11
      BY <1>1 DEF Runtime!CudaKernelParses, Runtime!Kernels
    <2> QED BY <2>1 DEF Runtime!Field
  <1>3. b.at[24] \in 1..4 /\ b.at[28] \in 1..4
    <2>1. Runtime!Words(b, 24, Runtime!Kernels[kernel])
      BY <1>1, <1>2 DEF Runtime!CudaKernelParses
    <2>2. b.at[24] = Runtime!Kernels[kernel][1] /\ b.at[28] = Runtime!Kernels[kernel][2]
      <3>1. DOMAIN Runtime!Kernels[kernel] = 1..2
        BY <1>2 DEF Runtime!Kernels
      <3> HIDE DEF kernel
      <3> QED BY <2>1, <3>1 DEF Runtime!Words, Runtime!Run
    <2>3. Runtime!Kernels[kernel][1] \in 1..4 /\ Runtime!Kernels[kernel][2] \in 1..4
      BY <1>2 DEF Runtime!Kernels
    <2> QED BY <2>2, <2>3
  <1>4. n \in Nat \ {0} /\ Runtime!Field(b, 48) = n
    <2>1. Runtime!Field(b, 48) > 0 \/ Runtime!Field(b, 48) \in {1101824, 204800, 15859712, 1024}
      BY SMT, <1>1 DEF Runtime!CudaKernelParses, Runtime!KnownElementCount
    <2>2. Runtime!Field(b, 48) \in Nat
      BY DEF Runtime!Field, LaidOut
    <2>3. Runtime!Field(b, 48) \in Nat \ {0}
      BY SMT, <2>1, <2>2
    <2> QED BY <2>3 DEF Runtime!Field
  <1>5. Runtime!Strided(b.at[36], n) = n
    <2>1. Runtime!Field(b, 36) = Runtime!Grid(Runtime!Field(b, 48), Runtime!Field(b, 40)) /\ Runtime!Field(b, 40) \in 1..1024
      BY <1>1 DEF Runtime!CudaKernelParses
    <2>2. \A m \in Nat \ {0}, k \in 1..1024 : (m + k - 1) \div k > 0
      BY SMT
    <2>3. \A m \in Nat \ {0}, k \in 1..1024 : Runtime!Grid(m, k) > 0
      BY <2>2 DEF Runtime!Grid
    <2>4. Runtime!Field(b, 36) > 0
      <3> DEFINE f == Runtime!Field(b, 48)
                 k == Runtime!Field(b, 40)
      <3>1. f \in Nat \ {0} /\ k \in 1..1024
        BY <1>4, <2>1
      <3> HIDE DEF f, k
      <3>2. Runtime!Grid(f, k) > 0
        BY ZenonT(60), <2>3, <3>1
      <3> QED BY <2>1, <3>2 DEF f, k
    <2>5. Runtime!Field(b, 36) = b.at[36]
      BY <2>4 DEF Runtime!Field
    <2> QED BY <2>4, <2>5 DEF Runtime!Strided
  <1>6. Read(b) = CudaKernelRead(b)
    BY DEF Read, GeluMulForms, CompactGateForms, RoundedForms
  <1>7. Operands(Read(b)) = CudaKernelOperands(Read(b))
    <2> DEFINE p == Read(b)
    <2>1. p.form = "AICUKR1"
      BY <1>6 DEF CudaKernelRead
    <2> HIDE DEF p
    <2>2. Operands(p) = CudaKernelOperands(p)
      BY <2>1 DEF Operands, GeluMulForms, CompactGateForms, RoundedForms
    <2> QED BY <2>2 DEF p
  <1>8. /\ Read(b).kernel = kernel /\ Read(b).numel = n
        /\ Read(b).input = b.at[24] /\ Read(b).output = b.at[28]
    BY <1>6 DEF CudaKernelRead
  <1>9. Tensor(b.at[24], <<n>>) = in /\ Tensor(b.at[28], <<n>>) = out /\ in \in Nat \ {0} /\ out \in Nat \ {0}
    <2>1. DTypeBytes[b.at[24]] \in Nat \ {0} /\ DTypeBytes[b.at[28]] \in Nat \ {0}
      BY <1>3 DEF DTypeBytes
    <2>2. Tensor(b.at[24], <<n>>) = DTypeBytes[b.at[24]] * n /\ Tensor(b.at[28], <<n>>) = DTypeBytes[b.at[28]] * n
      BY <1>3, <1>4, Bytes1
    <2>3. in \in Nat \ {0} /\ out \in Nat \ {0}
      <3> HIDE DEF n
      <3> QED BY <1>4, <2>1, Positive
    <2> QED BY <1>4, <2>1, <2>2, <2>3
  <1>10. Runtime!ScalarBytes = DTypeBytes
    BY DEF Runtime!ScalarBytes, DTypeBytes
  <1>11. Runtime!Requires(b) = Runtime!CudaKernelRequires(b) /\ Runtime!Extents(b) = Runtime!CudaKernelExtent(b)
    BY DEF Runtime!Requires, Runtime!Extents
  <1> HIDE DEF in, out
  <1>12. CASE kernel \in 4..8
    <2>1. kernel \notin UnaryKernels
      BY <1>12 DEF UnaryKernels, ActivationKernels
    <2>2. Operands(Read(b)) = Contract(<<in, in>>, <<out>>)
      BY <1>7, <1>8, <1>9, <2>1 DEF CudaKernelOperands
    <2>3. Runtime!Requires(b) = Runtime!Required(<<in, in>>, <<out>>)
      BY <1>10, <1>11, <1>12 DEF Runtime!CudaKernelRequires, in, out
    <2>4. Runtime!LaunchAbi(kernel) = 2
      BY <1>12 DEF Runtime!LaunchAbi
    <2>5. Runtime!Extents(b) = <<in, in, out>>
      BY <1>5, <1>10, <1>11, <2>4 DEF Runtime!CudaKernelExtent, in, out
    <2>6. Reaches(b, <<in, in, out>>) /\ Asks(b, <<in, in>>, <<out>>)
      BY <2>2, <2>3, <2>5 DEF Reaches, Asks
    <2>7. in \in Nat \ {0} /\ out \in Nat \ {0}
      BY <1>9
    <2> QED BY <2>6, <2>7, Fits21
  <1>13. CASE kernel \notin 4..8
    <2>1. kernel \in UnaryKernels
      BY <1>2, <1>13 DEF UnaryKernels, ActivationKernels
    <2>2. Operands(Read(b)) = Contract(<<in>>, <<out>>)
      BY <1>7, <1>8, <1>9, <2>1 DEF CudaKernelOperands
    <2>3. Runtime!Requires(b) = Runtime!Required(<<in>>, <<out>>)
      BY <1>10, <1>11, <1>13 DEF Runtime!CudaKernelRequires, in, out
    <2>4. Runtime!LaunchAbi(kernel) = 1
      BY <1>13 DEF Runtime!LaunchAbi
    <2>5. Runtime!Extents(b) = <<in, out>>
      BY <1>5, <1>10, <1>11, <2>4 DEF Runtime!CudaKernelExtent, in, out
    <2>6. Reaches(b, <<in, out>>) /\ Asks(b, <<in>>, <<out>>) /\ in <= in /\ out <= out
      BY <1>9, <2>2, <2>3, <2>5 DEF Reaches, Asks
    <2>7. in \in Nat \ {0} /\ out \in Nat \ {0}
      BY <1>9
    <2> QED BY <2>6, <2>7, Fits11
  <1> QED BY <1>12, <1>13

(* The blocks of a tile's columns cover the width, and leave room for rows. *)
LEMMA ColumnsCovered ==
  ASSUME NEW w \in Nat, w > 0, w <= Widest
  PROVE LET columns == Runtime!Blocks(w, 256)
        IN 4096 \div columns > 0 /\ Runtime!Guarded(columns, w) = w
  <1> DEFINE columns == Runtime!Blocks(w, 256)
  <1>1. columns = (w + 256 - 1) \div 256
    BY DEF Runtime!Blocks
  <1>4. (w + 256 - 1) \div 256 > 0
    BY SMT
  <1>5. (w + 256 - 1) \div 256 <= 128
    BY SMT DEF Widest
  <1>6. ((w + 256 - 1) \div 256) * 256 >= w
    BY SMT
  <1>7. (w + 256 - 1) \div 256 \in Int
    BY SMT
  <1> HIDE DEF columns
  <1>2. Runtime!Guarded(columns, w) = w
    BY <1>1, <1>6, <1>7 DEF Runtime!Guarded, Runtime!Lesser
  <1>3. \A c \in 1..128 : 4096 \div c > 0
    BY SMT
  <1>8. columns \in 1..128
    BY <1>1, <1>4, <1>5, <1>7
  <1> QED BY <1>2, <1>3, <1>8 DEF columns

(* Tiles of whole rows cover a tensor the rows divide.                     *)
LEMMA TiledAll ==
  ASSUME NEW rows \in Nat \ {0}, NEW w \in Nat, w > 0, w <= Widest
  PROVE LET columns == Runtime!Blocks(w, 256)
            tall == IF rows <= 128 THEN rows ELSE Runtime!Lesser(rows, 4096 \div columns)
        IN (IF rows <= 128 THEN tall ELSE Runtime!Strided(tall, rows)) * Runtime!Guarded(columns, w)
             = rows * w
  <1> DEFINE columns == Runtime!Blocks(w, 256)
             most == 4096 \div columns
             guarded == Runtime!Guarded(columns, w)
  <1>1. most > 0 /\ guarded = w
    BY ColumnsCovered
  <1> HIDE DEF columns, most, guarded
  <1>2. Runtime!Strided(Runtime!Lesser(rows, most), rows) = rows
    <2>1. Runtime!Lesser(rows, most) > 0
      BY <1>1 DEF Runtime!Lesser
    <2> QED BY <2>1 DEF Runtime!Strided
  <1> DEFINE tall == IF rows <= 128 THEN rows ELSE Runtime!Lesser(rows, most)
  <1>3. (IF rows <= 128 THEN tall ELSE Runtime!Strided(tall, rows)) = rows
    BY <1>2
  <1>4. (IF rows <= 128 THEN tall ELSE Runtime!Strided(tall, rows)) * guarded = rows * w
    BY <1>1, <1>3
  <1> QED BY <1>4 DEF columns, most, guarded

(* GELU times gate: apart, packed, or packed and tiled by rows.            *)
LEMMA GeluMulFits ==
  ASSUME NEW b, LaidOut(b), b.magic \in GeluMulForms, Runtime!Parses(b)
  PROVE Fits(b)
  <1> DEFINE n == b.at[16]
             w == b.at[64]
  <1>0. b.magic # "AISTU1"
    BY DEF GeluMulForms
  <1>1. Runtime!GeluMulParses(b)
    BY DEF Runtime!Parses, GeluMulForms
  <1>2. n \in Nat \ {0}
    <2>1. Runtime!Numbered(b)
      BY <1>1 DEF Runtime!GeluMulParses
    <2> QED BY <2>1, NumberedElements
  <1>3. Runtime!Field(b, 64) = w
    <2>1. Carried(b.magic) = 64
      BY DEF Carried, GeluMulForms
    <2> QED BY <2>1 DEF LaidOut, Runtime!Field
  <1>4. /\ b.magic = "AIGMU1" => w = 0
        /\ b.magic # "AIGMU1" => w \in Nat /\ w > 0 /\ w <= Widest /\ n % w = 0
    <2> DEFINE f == Runtime!Field(b, 64)
    <2>1. IF b.magic = "AIGMU1" THEN f = 0
          ELSE f > 0 /\ f <= Widest /\ n % f = 0
      BY SMT, <1>1 DEF Runtime!GeluMulParses, Widest
    <2> HIDE DEF w, n, f
    <2>2. f = w
      BY <1>3 DEF f
    <2>3. /\ b.magic = "AIGMU1" => f = 0
          /\ b.magic # "AIGMU1" => f > 0 /\ f <= Widest /\ n % f = 0
      BY Zenon, <2>1
    <2>4. f \in Nat
      BY DEF f, Runtime!Field, LaidOut
    <2> QED BY Zenon, <2>2, <2>3, <2>4
  <1>5. Read(b) = GeluMulRead(b)
    BY DEF Read, GeluMulForms, CompactGateForms, RoundedForms
  <1>6. Read(b).form = b.magic /\ Read(b).numel = n /\ Read(b).width = w
    BY <1>5 DEF GeluMulRead
  <1>7. Operands(Read(b)) = GeluMulOperands(Read(b))
    <2> DEFINE p == Read(b)
    <2> HIDE DEF p
    <2>1. p.form \in GeluMulForms
      BY <1>6 DEF p
    <2>2. Operands(p) = GeluMulOperands(p)
      BY <2>1 DEF Operands, GeluMulForms, CompactGateForms, RoundedForms
    <2> QED BY <2>2 DEF p
  <1>8. Tensor(BF16, <<n>>) = 2 * n
    BY <1>2, Bytes1, Scalars DEF BF16
  <1>9. Runtime!Requires(b) = Runtime!GeluMulRequires(b) /\ Runtime!Extents(b) = Runtime!GeluMulExtent(b)
    BY DEF Runtime!Requires, Runtime!Extents, GeluMulForms
  <1>10. Runtime!Strided(Runtime!Lesser(Runtime!Blocks(n, 256), 4096), n) = n
    BY <1>2, StridedAll
  <1>11. CASE b.magic = "AIGMU1"
    <2>1. Operands(Read(b)) = Contract(<<2 * n, 2 * n>>, <<2 * n>>)
      BY <1>4, <1>6, <1>7, <1>8, <1>11 DEF GeluMulOperands
    <2>2. Runtime!Requires(b) = Runtime!Required(<<2 * n, 2 * n>>, <<2 * n>>)
      BY <1>9, <1>11 DEF Runtime!GeluMulRequires
    <2>3. Runtime!Extents(b) = <<2 * n, 2 * n, 2 * n>>
      BY <1>9, <1>10, <1>11 DEF Runtime!GeluMulExtent
    <2>4. Reaches(b, <<2 * n, 2 * n, 2 * n>>) /\ Asks(b, <<2 * n, 2 * n>>, <<2 * n>>)
      BY <2>1, <2>2, <2>3 DEF Reaches, Asks
    <2>5. 2 * n \in Nat \ {0}
      <3> HIDE DEF n
      <3> QED BY SMT, <1>2
    <2> HIDE DEF n
    <2> QED BY <1>0, <2>4, <2>5, Fits21
  <1>12. CASE b.magic # "AIGMU1"
    <2>1. 2 * (2 * n) = 4 * n
      BY <1>2
    <2>2. Operands(Read(b)) = Contract(<<4 * n>>, <<2 * n>>)
      <3>1. w # 0
        <4>1. w \in Nat /\ w > 0 /\ w <= Widest
          BY Zenon, <1>4, <1>12
        <4> HIDE DEF w
        <4> QED BY SMT, <4>1
      <3> QED BY <1>6, <1>7, <1>8, <2>1, <3>1 DEF GeluMulOperands
    <2>3. Runtime!Requires(b) = Runtime!Required(<<4 * n>>, <<2 * n>>)
      BY <1>9, <1>12, <2>1 DEF Runtime!GeluMulRequires
    <2>4. Runtime!Extents(b) = <<4 * n, 2 * n>>
      <3>1. CASE b.magic = "AIGMT1"
        <4> DEFINE rows == n \div w
        <4>1. w \in Nat /\ w > 0 /\ w <= Widest /\ n % w = 0
          BY Zenon, <1>4, <1>12
        <4>2. rows \in Nat \ {0} /\ rows * w = n
          <5>1. w \in Nat \ {0}
            BY SMT, <4>1
          <5> HIDE DEF n, w
          <5>2. n = w * (n \div w) + (n % w)
            BY SMT, <1>2, <5>1
          <5>3. n \div w \in Nat
            BY SMT, <1>2, <5>1
          <5> DEFINE r == n % w
          <5> HIDE DEF rows, r
          <5>4. n = w * rows + r /\ r = 0 /\ rows \in Nat
            BY Zenon, <5>2, <5>3, <4>1 DEF rows, r
          <5> QED BY SMT, <1>2, <5>1, <5>4
        <4> DEFINE columns == Runtime!Blocks(w, 256)
                   tall == IF rows <= 128 THEN rows ELSE Runtime!Lesser(rows, 4096 \div columns)
                   tiled == (IF rows <= 128 THEN tall ELSE Runtime!Strided(tall, rows)) * Runtime!Guarded(columns, w)
        <4>3. tiled = n
          <5> HIDE DEF n, w, rows
          <5> QED BY <4>1, <4>2, TiledAll
        <4>4. Runtime!GeluMulExtent(b) = <<4 * tiled, 2 * tiled>>
          BY SMT, <3>1 DEF Runtime!GeluMulExtent
        <4> HIDE DEF tiled
        <4> QED BY <1>9, <4>3, <4>4
      <3>2. CASE b.magic # "AIGMT1"
        BY <1>9, <1>10, <1>12, <3>2 DEF Runtime!GeluMulExtent
      <3> QED BY <3>1, <3>2
    <2>5. /\ Reaches(b, <<4 * n, 2 * n>>) /\ Asks(b, <<4 * n>>, <<2 * n>>)
      BY <2>2, <2>3, <2>4 DEF Reaches, Asks
    <2>6. 4 * n \in Nat \ {0} /\ 2 * n \in Nat \ {0} /\ 4 * n \in Int /\ 4 * n <= 4 * n
      <3> HIDE DEF n
      <3> QED BY SMT, <1>2
    <2> HIDE DEF n
    <2> QED BY <1>0, <2>5, <2>6, Fits11
  <1> QED BY <1>11, <1>12

(* A launch with a thread for each of n elements reaches all of them.      *)
LEMMA GuardedAll ==
  ASSUME NEW n \in Nat
  PROVE Runtime!Guarded(Runtime!Blocks(n, 256), n) = n
  <1>1. ((n + 256 - 1) \div 256) * 256 >= n
    BY SMT
  <1>2. (n + 256 - 1) \div 256 \in Int
    BY SMT
  <1> QED BY <1>1, <1>2 DEF Runtime!Guarded, Runtime!Lesser, Runtime!Blocks

(* The fused projection, rotation and packing: its 474 blocks are shared out *)
(* over queries, keys, copies and values without a gap.                    *)
LEMMA QkvRopePackFits ==
  ASSUME NEW b, b.magic = "AIQRP1", Runtime!Parses(b)
  PROVE Fits(b)
  <1>1. Runtime!Extents(b) = Runtime!QkvRopePackExtent
    BY DEF Runtime!Extents, Runtime!ProjectionSplitExtent
  <1>2. Runtime!QkvRopePackExtent = <<256000, 200, 495616, 495616, 204800, 521216, 521216>>
    BY SMT DEF Runtime!QkvRopePackExtent, Runtime!Guarded, Runtime!Lesser
  <1>3. Runtime!Requires(b) = Runtime!Required(<<256000, 200, 495616, 495616>>, <<204800, 521216, 521216>>)
    BY SMT DEF Runtime!Requires, Runtime!ProjectionSplitRequires
  <1>4. QkvRopePackOperands = Contract(<<256000, 200, 495616, 495616>>, <<204800, 521216, 521216>>)
    <2>1. Tensor(2, <<1, 968, 256>>) = 495616
      BY SMT, Scalars, Bytes3
    <2>2. Tensor(2, <<1, 1018, 256>>) = 521216
      BY SMT, Scalars, Bytes3
    <2>3. Tensor(2, <<1, 50, 2560>>) = 256000
      BY SMT, Scalars, Bytes3
    <2>4. Tensor(3, <<1, 50>>) = 200
      BY SMT, Scalars, Bytes2
    <2>5. Tensor(2, <<1, 50, 8, 256>>) = 204800
      BY SMT DEF Tensor, DTypeBytes
    <2> QED BY SMT, <2>1, <2>2, <2>3, <2>4, <2>5 DEF QkvRopePackOperands, BF16, I32
  <1>5. Operands(Read(b)) = QkvRopePackOperands
    <2> DEFINE p == Read(b)
    <2> HIDE DEF p
    <2>1. p.form = "AIQRP1"
      BY FormRead DEF Magics, p
    <2>2. Operands(p) = QkvRopePackOperands
      BY <2>1 DEF Operands, GeluMulForms, CompactGateForms, RoundedForms
    <2> QED BY <2>2 DEF p
  <1>6. Reaches(b, <<256000, 200, 495616, 495616, 204800, 521216, 521216>>)
    BY SMT, <1>1, <1>2 DEF Reaches
  <1>7. Asks(b, <<256000, 200, 495616, 495616>>, <<204800, 521216, 521216>>)
    BY SMT, <1>3, <1>4, <1>5 DEF Asks
  <1>8. b.magic # "AISTU1"
    OBVIOUS
  <1> QED BY SMTT(200), <1>6, <1>7, <1>8, Fits43

(* The split of a projection: every row's vectors fall to one of its parts. *)
LEMMA SplitFits ==
  ASSUME NEW b, LaidOut(b), b.magic = "AIPSP1", Runtime!Parses(b)
  PROVE Fits(b)
  <1> DEFINE rows == b.at[16]
             u == [i \in 1..3 |-> b.at[16 + (4 * i)] \div 8]
             all == u[1] + u[2] + u[3]
             part(i) == 2 * rows * b.at[16 + (4 * i)]
  <1>1. Runtime!ProjectionSplitParses(b)
    BY DEF Runtime!Parses
  <1>2. rows \in 1..128
    <2>1. Runtime!Field(b, 16) \in 1..128
      BY <1>1 DEF Runtime!ProjectionSplitParses
    <2> QED BY <2>1 DEF Runtime!Field
  <1>3. ASSUME NEW i \in 1..3
        PROVE u[i] \in Nat \ {0} /\ b.at[16 + (4 * i)] = 8 * u[i]
    <2> DEFINE w == b.at[16 + (4 * i)]
    <2>1. Runtime!Field(b, 16 + (4 * i)) # 0 /\ Runtime!Field(b, 16 + (4 * i)) % 8 = 0
      BY <1>1 DEF Runtime!ProjectionSplitParses
    <2>2. w # 0 /\ w % 8 = 0 /\ w \in Nat
      BY <2>1 DEF Runtime!Field, LaidOut
    <2> HIDE DEF w
    <2>3. w \div 8 \in Nat \ {0} /\ w = 8 * (w \div 8)
      BY SMT, <2>2
    <2> QED BY <2>3 DEF w
  <1>4. /\ b.at[20] = 8 * u[1] /\ b.at[24] = 8 * u[2] /\ b.at[28] = 8 * u[3]
        /\ u[1] \in Nat \ {0} /\ u[2] \in Nat \ {0} /\ u[3] \in Nat \ {0}
    <2> HIDE DEF u
    <2>1. 16 + (4 * 1) = 20 /\ 16 + (4 * 2) = 24 /\ 16 + (4 * 3) = 28 /\ 1 \in 1..3 /\ 2 \in 1..3 /\ 3 \in 1..3
      BY SMT
    <2> QED BY SMT, <2>1, <1>3
  <1>5. part(1) = 16 * rows * u[1] /\ part(2) = 16 * rows * u[2] /\ part(3) = 16 * rows * u[3]
    <2> HIDE DEF u, rows
    <2>1. rows \in Nat
      BY SMT, <1>2
    <2> QED BY SMT, <1>4, <2>1
  <1>6. Read(b) = SplitRead(b)
    BY DEF Read, GeluMulForms, CompactGateForms, RoundedForms
  <1>7. /\ Read(b).form = "AIPSP1" /\ Read(b).rows = rows
        /\ Read(b).widths[1] = b.at[20] /\ Read(b).widths[2] = b.at[24] /\ Read(b).widths[3] = b.at[28]
    BY <1>6 DEF SplitRead
  <1>8. Operands(Read(b)) = SplitOperands(Read(b))
    <2> DEFINE p == Read(b)
    <2> HIDE DEF p
    <2>1. p.form = "AIPSP1"
      BY <1>7 DEF p
    <2>2. Operands(p) = SplitOperands(p)
      BY <2>1 DEF Operands, GeluMulForms, CompactGateForms, RoundedForms
    <2> QED BY <2>2 DEF p
  <1>9. Operands(Read(b)) = Contract(<<part(1) + part(2) + part(3)>>, <<part(1), part(2), part(3)>>)
    <2>1. \A w \in Nat : Tensor(2, <<1, rows, w>>) = 2 * rows * w
      <3>1. rows \in Nat
        <4> HIDE DEF rows
        <4> QED BY SMT, <1>2
      <3> HIDE DEF rows
      <3>2. \A w \in Nat : Tensor(2, <<1, rows, w>>) = DTypeBytes[2] * 1 * rows * w
        <4>1. 2 \in 1..4 /\ 1 \in Nat
          OBVIOUS
        <4> QED BY ONLY <3>1, <4>1, Bytes3
      <3>3. DTypeBytes[2] * 1 * rows = 2 * rows
        BY <3>1, Scalars
      <3> QED BY <3>2, <3>3
    <2>2. b.at[20] \in Nat /\ b.at[24] \in Nat /\ b.at[28] \in Nat
      <3> HIDE DEF u
      <3> QED BY SMT, <1>4
    <2> DEFINE p == Read(b)
    <2>3. /\ Tensor(BF16, <<1, p.rows, p.widths[1]>>) = part(1)
          /\ Tensor(BF16, <<1, p.rows, p.widths[2]>>) = part(2)
          /\ Tensor(BF16, <<1, p.rows, p.widths[3]>>) = part(3)
      BY <1>7, <2>1, <2>2 DEF BF16
    <2> HIDE DEF p, part
    <2>4. SplitOperands(p) = Contract(<<part(1) + part(2) + part(3)>>, <<part(1), part(2), part(3)>>)
      BY <2>3 DEF SplitOperands
    <2> QED BY <1>8, <2>4 DEF p
  <1>10. Runtime!Requires(b) =
           Runtime!Required(<<part(1) + part(2) + part(3)>>, <<part(1), part(2), part(3)>>)
    <2>1. /\ rows * b.at[20] * 2 = part(1) /\ rows * b.at[24] * 2 = part(2)
          /\ rows * b.at[28] * 2 = part(3)
      <3> HIDE DEF u, rows
      <3>1. rows \in Nat
        BY SMT, <1>2
      <3> QED BY SMT, <1>4, <3>1
    <2>2. Runtime!Requires(b) = Runtime!ProjectionSplitRequires(b)
      BY DEF Runtime!Requires
    <2>3. Runtime!ProjectionSplitRequires(b) =
            Runtime!Required(<<rows * b.at[20] * 2 + rows * b.at[24] * 2 + rows * b.at[28] * 2>>,
                             <<rows * b.at[20] * 2, rows * b.at[24] * 2, rows * b.at[28] * 2>>)
      BY SMT DEF Runtime!ProjectionSplitRequires
    <2> HIDE DEF part
    <2> QED BY <2>1, <2>2, <2>3
  <1>11. Runtime!Extents(b) = <<part(1) + part(2) + part(3), part(1), part(2), part(3)>>
    <2> DEFINE done == Runtime!Guarded(Runtime!Blocks(rows * all, 256), rows * all) \div all
    <2>1. done = rows
      <3>1. all \in Nat \ {0} /\ rows \in Nat
        <4> HIDE DEF u, rows
        <4> QED BY SMT, <1>2, <1>4
      <3> HIDE DEF all, rows
      <3>2. rows * all \in Nat
        BY SMT, <3>1
      <3>3. Runtime!Guarded(Runtime!Blocks(rows * all, 256), rows * all) = rows * all
        BY <3>2, GuardedAll
      <3>4. \A r \in Nat, a \in Nat \ {0} : (r * a) \div a = r
        BY SMT
      <3> QED BY <3>1, <3>3, <3>4
    <2>2. Runtime!Extents(b) = Runtime!ProjectionSplitExtent(b)
      BY DEF Runtime!Extents
    <2>3. Runtime!ProjectionSplitExtent(b) =
            <<16 * done * all, 16 * done * u[1], 16 * done * u[2], 16 * done * u[3]>>
      BY SMT DEF Runtime!ProjectionSplitExtent
    <2>4. 16 * rows * all = part(1) + part(2) + part(3)
      <3>1. 16 * rows * all = 16 * rows * u[1] + 16 * rows * u[2] + 16 * rows * u[3]
        <4> HIDE DEF u, rows
        <4> QED BY SMT, <1>2, <1>4
      <3> HIDE DEF part, all
      <3> QED BY <1>5, <3>1
    <2> HIDE DEF done, all, part
    <2> QED BY <1>5, <2>1, <2>2, <2>3, <2>4
  <1>12. part(1) \in Nat \ {0} /\ part(2) \in Nat \ {0} /\ part(3) \in Nat \ {0}
    <2> HIDE DEF u
    <2>1. 16 * rows \in Nat \ {0}
      <3> HIDE DEF rows
      <3> QED BY SMT, <1>2
    <2> HIDE DEF rows
    <2>2. (16 * rows) * u[1] \in Nat \ {0} /\ (16 * rows) * u[2] \in Nat \ {0} /\ (16 * rows) * u[3] \in Nat \ {0}
      BY <1>4, <2>1, Positive
    <2> HIDE DEF part
    <2> QED BY <1>5, <2>2
  <1> HIDE DEF part
  <1>13. part(1) + part(2) + part(3) \in Nat \ {0}
    BY <1>12
  <1>14. /\ Reaches(b, <<part(1) + part(2) + part(3), part(1), part(2), part(3)>>)
         /\ Asks(b, <<part(1) + part(2) + part(3)>>, <<part(1), part(2), part(3)>>)
    BY <1>9, <1>10, <1>11 DEF Reaches, Asks
  <1> QED BY <1>12, <1>13, <1>14, Fits13

(* The state update writes a window, which lies inside the state.          *)
LEMMA StateUpdateFits ==
  ASSUME NEW b, LaidOut(b), b.magic = "AISTU1", Runtime!Parses(b)
  PROVE Fits(b)
  <1> DEFINE total == b.at[16]
             count == b.at[24]
             offset == b.at[32]
             v == count \div 8
  <1>1. Runtime!StateUpdateParses(b)
    BY DEF Runtime!Parses
  <1>2. count \in Nat \ {0} /\ total \in Nat /\ count % 8 = 0 /\ count <= total /\ offset <= total - count
        /\ offset \in Nat
    <2> DEFINE f(o) == Runtime!Field(b, o)
    <2>1. f(24) # 0 /\ f(24) <= f(16) /\ f(32) <= f(16) - f(24) /\ f(24) % 8 = 0
      BY <1>1 DEF Runtime!StateUpdateParses
    <2>2. f(16) \in Nat /\ f(24) \in Nat /\ f(32) \in Nat
      BY DEF Runtime!Field, LaidOut
    <2>3. f(24) # 0 /\ f(16) # 0
      <3> HIDE DEF f
      <3> QED BY SMT, <2>1, <2>2
    <2>4. f(24) = count /\ f(16) = total
      BY <2>3 DEF Runtime!Field
    <2>5. f(32) = offset
      <3>1. Carried(b.magic) = 32
        BY DEF Carried, GeluMulForms
      <3> QED BY <3>1 DEF Runtime!Field, LaidOut
    <2> HIDE DEF f, total, count, offset
    <2> QED BY <2>1, <2>2, <2>3, <2>4, <2>5
  <1>3. v \in Nat /\ count = 8 * v
    <2> HIDE DEF count
    <2> QED BY SMT, <1>2
  <1>4. Read(b) = StateUpdateRead(b)
    BY DEF Read, GeluMulForms, CompactGateForms, RoundedForms
  <1>5. Read(b).form = "AISTU1" /\ Read(b).total = total /\ Read(b).count = count
    BY <1>4 DEF StateUpdateRead
  <1>6. Operands(Read(b)) = StateUpdateOperands(Read(b))
    <2> DEFINE p == Read(b)
    <2> HIDE DEF p
    <2>1. p.form = "AISTU1"
      BY <1>5 DEF p
    <2>2. Operands(p) = StateUpdateOperands(p)
      BY <2>1 DEF Operands, GeluMulForms, CompactGateForms, RoundedForms
    <2> QED BY <2>2 DEF p
  <1>7. Tensor(BF16, <<count>>) = 2 * count /\ Tensor(BF16, <<total>>) = 2 * total
    BY <1>2, Bytes1, Scalars DEF BF16
  <1>8. Operands(Read(b)) = Contract(<<2 * count, 2 * count>>, <<2 * total, 2 * total>>)
    BY <1>5, <1>6, <1>7 DEF StateUpdateOperands
  <1>9. Runtime!Requires(b) = Runtime!Required(<<2 * count, 2 * count>>, <<2 * total, 2 * total>>)
    BY DEF Runtime!Requires, Runtime!StateUpdateRequires
  <1>10. Runtime!Extents(b) = <<2 * count, 2 * count, (2 * offset) + (2 * count), (2 * offset) + (2 * count)>>
    <2> DEFINE threads == Runtime!Guarded(Runtime!Blocks(2 * v, 256), 2 * v)
    <2>1. threads = 2 * v
      <3>1. 2 * v \in Nat
        BY <1>3
      <3> HIDE DEF v
      <3> QED BY <3>1, GuardedAll
    <2>2. Runtime!Extents(b) = Runtime!StateUpdateExtent(b)
      BY DEF Runtime!Extents
    <2>3. Runtime!StateUpdateExtent(b) =
            <<16 * Runtime!Lesser(threads, v), 16 * (threads - Runtime!Lesser(threads, v)),
              (2 * offset) + 16 * Runtime!Lesser(threads, v),
              (2 * offset) + 16 * (threads - Runtime!Lesser(threads, v))>>
      BY SMT DEF Runtime!StateUpdateExtent
    <2> HIDE DEF threads, v
    <2>4. Runtime!Lesser(threads, v) = v
      BY <1>3, <2>1 DEF Runtime!Lesser
    <2>5. 16 * v = 2 * count /\ 16 * (2 * v - v) = 2 * count
      BY <1>3
    <2> HIDE DEF count, offset
    <2> QED BY <2>1, <2>2, <2>3, <2>4, <2>5
  <1>11. /\ Reaches(b, <<2 * count, 2 * count, (2 * offset) + (2 * count), (2 * offset) + (2 * count)>>)
         /\ Asks(b, <<2 * count, 2 * count>>, <<2 * total, 2 * total>>)
    BY <1>8, <1>9, <1>10 DEF Reaches, Asks
  <1>12. /\ 2 * count \in Int /\ 2 * total \in Int /\ (2 * offset) + (2 * count) \in Int
         /\ (2 * offset) + (2 * count) <= 2 * total /\ 2 * count <= 2 * count
    <2> HIDE DEF count, offset, total
    <2> QED BY SMT, <1>2
  <1> HIDE DEF count, offset, total
  <1> DEFINE window == (2 * offset) + (2 * count)
             ex == <<2 * count, 2 * count, window, window>>
             re == <<2 * count, 2 * count>>
             wr == <<2 * total, 2 * total>>
  <1>13. 2 * count \in Nat \ {0} /\ 2 * total \in Nat \ {0}
    BY SMT, <1>2
  <1>14. /\ window \in Int /\ window <= 2 * total /\ 2 * count \in Int /\ 2 * count <= 2 * count
         /\ window = 2 * (offset + count)
    BY SMT, <1>2
  <1>15. Reaches(b, ex) /\ Asks(b, re, wr)
    BY <1>11
  <1> HIDE DEF window
  <1>16. ex \in Seq(Int) /\ re \in Seq(Nat \ {0}) /\ wr \in Seq(Nat \ {0})
    BY <1>13, <1>14
  <1>17. Len(ex) = 4 /\ Len(re) = 2 /\ Len(wr) = 2
    OBVIOUS
  <1>18. (\A j \in 1..2 : ex[j] <= re[j]) /\ \A j \in 1..2 : ex[2 + j] <= wr[j] /\ ex[2 + j] = window
    BY <1>14
  <1>19. \A x : Produces(b, window, x)
    BY <1>14 DEF Produces, offset, count
  <1> HIDE DEF ex, re, wr
  <1>20. /\ Len(ex) = Len(re) + Len(wr) /\ \A j \in 1..Len(re) : ex[j] <= re[j]
         /\ \A j \in 1..Len(wr) : ex[Len(re) + j] <= wr[j]
         /\ \A j \in 1..Len(wr) : Produces(b, ex[Len(re) + j], wr[j])
    BY <1>17, <1>18, <1>19
  <1> QED BY <1>15, <1>16, <1>20, Fitting

(* A matrix product of the library: operands as large as its dimensions.   *)
LEMMA CublasLtFits ==
  ASSUME NEW b, LaidOut(b), b.magic = "AILTMM1", Runtime!Parses(b)
  PROVE Fits(b)
  <1> DEFINE m == b.at[68]
             n == b.at[76]
             k == b.at[84]
             scalar == IF b.at[24] = 1 THEN 4 ELSE 2
  <1>1. Runtime!CublasLtParses(b, 0)
    BY DEF Runtime!Parses, Runtime!CublasLtLinearParses
  <1>2. b.at[24] \in {1, 2}
    <2>1. Runtime!Field(b, 0 + 24) \in {1, 2}
      BY <1>1 DEF Runtime!CublasLtParses
    <2>2. Runtime!Field(b, 24) \in {1, 2}
      BY <2>1
    <2> QED BY <2>2 DEF Runtime!Field
  <1>3. m \in Nat \ {0} /\ n \in Nat \ {0} /\ k \in Nat \ {0}
    <2>1. Runtime!Field(b, 0 + 68) # 0 /\ Runtime!Field(b, 0 + 76) # 0 /\ Runtime!Field(b, 0 + 84) # 0
      BY <1>1 DEF Runtime!CublasLtParses
    <2>2. Runtime!Field(b, 68) # 0 /\ Runtime!Field(b, 76) # 0 /\ Runtime!Field(b, 84) # 0
      BY <2>1
    <2> QED BY <2>2 DEF Runtime!Field, LaidOut
  <1>4. scalar = DTypeBytes[b.at[24]] /\ scalar \in Nat \ {0}
    BY <1>2 DEF DTypeBytes
  <1>5. Read(b) = LinearRead(b, 0)
    BY DEF Read, GeluMulForms, CompactGateForms, RoundedForms
  <1>6. /\ Read(b).form = "AILTMM1" /\ Read(b).dtype = b.at[24]
        /\ Read(b).m = m /\ Read(b).n = n /\ Read(b).k = k
    <2>1. /\ Read(b).form = "AILTMM1" /\ Read(b).dtype = b.at[0 + 24]
          /\ Read(b).m = b.at[0 + 68] /\ Read(b).n = b.at[0 + 76] /\ Read(b).k = b.at[0 + 84]
      BY <1>5 DEF LinearRead
    <2> QED BY <2>1
  <1>7. Operands(Read(b)) = LinearOperands(Read(b))
    <2> DEFINE p == Read(b)
    <2>1. p.form = "AILTMM1"
      BY <1>6
    <2> HIDE DEF p
    <2>2. Operands(p) = LinearOperands(p)
      BY <2>1 DEF Operands, GeluMulForms, CompactGateForms, RoundedForms
    <2> QED BY <2>2 DEF p
  <1> DEFINE a == m * k * scalar
             w == n * k * scalar
             bias == n * scalar
             c == m * n * scalar
  <1>8. /\ Tensor(b.at[24], <<m, k>>) = a /\ Tensor(b.at[24], <<n, k>>) = w
        /\ Tensor(b.at[24], <<n>>) = bias /\ Tensor(b.at[24], <<m, n>>) = c
    <2> DEFINE t == b.at[24]
    <2>1. t \in 1..4
      BY <1>2
    <2>2. t \in 1..4 /\ scalar = DTypeBytes[t] /\ scalar \in Nat
      BY <1>4, <2>1
    <2> HIDE DEF t, m, n, k, scalar
    <2>3. /\ Tensor(t, <<m, k>>) = scalar * m * k /\ Tensor(t, <<n, k>>) = scalar * n * k
          /\ Tensor(t, <<n>>) = scalar * n /\ Tensor(t, <<m, n>>) = scalar * m * n
      BY <1>3, <2>2, Bytes1, Bytes2
    <2>4. scalar * m * k = a /\ scalar * n * k = w /\ scalar * n = bias /\ scalar * m * n = c
      BY <1>3, <2>2
    <2> HIDE DEF a, w, bias, c
    <2> QED BY <2>3, <2>4 DEF t
  <1>9. a \in Nat \ {0} /\ w \in Nat \ {0} /\ bias \in Nat \ {0} /\ c \in Nat \ {0}
    <2> HIDE DEF m, n, k, scalar
    <2>1. m * k \in Nat \ {0} /\ n * k \in Nat \ {0} /\ m * n \in Nat \ {0}
      BY <1>3, Positive
    <2> QED BY <1>3, <1>4, <2>1, Positive
  <1>10. Runtime!Extents(b) = <<a, w, bias, c>>
    <2>1. Runtime!Extents(b) = Runtime!CublasLtLinearExtent(b, 0)
      BY DEF Runtime!Extents
    <2>2. 0 + 24 = 24 /\ 0 + 68 = 68 /\ 0 + 76 = 76 /\ 0 + 84 = 84
      OBVIOUS
    <2>3. Runtime!CublasLtLinearExtent(b, 0) = <<a, w, bias, c>>
      BY ONLY ZenonT(60), <2>2 DEF Runtime!CublasLtLinearExtent, a, w, bias, c, scalar, m, n, k
    <2> QED BY <2>1, <2>3
  <1>11. Runtime!Requires(b) = Runtime!Required(<<a, w, bias>>, <<c>>)
    BY DEF Runtime!Requires, Runtime!CublasLtLinearRequires
  <1> HIDE DEF m, n, k, scalar, a, w, bias, c
  <1>12. Operands(Read(b)) = Contract(<<a, w, bias>>, <<c>>)
    BY <1>6, <1>7, <1>8 DEF LinearOperands
  <1>13. Reaches(b, <<a, w, bias, c>>) /\ Asks(b, <<a, w, bias>>, <<c>>)
    BY <1>10, <1>11, <1>12 DEF Reaches, Asks
  <1> QED BY <1>9, <1>13, Fits31

(* The patches of the one image size, then the product that takes them     *)
(* from the workspace: as many bytes as the kernel laid out there.         *)
LEMMA PatchProjectionFits ==
  ASSUME NEW b, LaidOut(b), b.magic = "AIPPA1", Runtime!Parses(b)
  PROVE Fits(b) /\ ScratchFits(b)
  <1> DEFINE product == Runtime!CublasLtLinearExtent(b, 192)
             extent == Runtime!PatchProjectionExtent(b)
  <1>1. Runtime!PatchProjectionParses(b)
    BY DEF Runtime!Parses
  <1>2. b.at[24] = 256 /\ b.at[140] = 602112
    BY SMT, <1>1 DEF Runtime!PatchProjectionParses, Runtime!Words, Runtime!Longs, Runtime!Run
  <1>3. b.at[216] = 1 /\ b.at[260] = 256 /\ b.at[268] = 1152 /\ b.at[276] = 588
    BY SMT, <1>1 DEF Runtime!PatchProjectionParses, Runtime!Words, Runtime!Longs, Runtime!Run
  <1>4. product = <<602112, 2709504, 4608, 1179648>>
    BY SMT, <1>3 DEF Runtime!CublasLtLinearExtent
  <1>5. extent = [operands |-> <<602112, 2709504, 4608, 1179648>>, patches |-> 602112, read |-> 602112]
    <2> HIDE DEF product
    <2>1. Runtime!Lesser(b.at[24], 256) * 588 * 4 = 602112
      BY SMT, <1>2 DEF Runtime!Lesser
    <2>2. /\ product[1] = 602112 /\ product[2] = 2709504 /\ product[3] = 4608
          /\ product[4] = 1179648
      BY SMT, <1>4
    <2> QED BY SMT, <2>1, <2>2 DEF Runtime!PatchProjectionExtent, product
  <1> HIDE DEF product, extent
  <1>6. Runtime!Extents(b) = <<602112, 2709504, 4608, 1179648>>
    <2>1. Runtime!Extents(b) = extent.operands
      BY Zenon DEF Runtime!Extents, extent
    <2> QED BY SMT, <1>5, <2>1
  <1>7. Runtime!Requires(b) = Runtime!Required(<<602112, 2709504, 4608>>, <<1179648>>)
    BY SMT DEF Runtime!Requires
  <1>8. PatchProjectionOperands = Contract(<<602112, 2709504, 4608>>, <<1179648>>)
    <2>1. Tensor(1, <<1, 3, 224, 224>>) = 602112
      BY SMT DEF Tensor, DTypeBytes
    <2>2. Tensor(1, <<1152, 3, 14, 14>>) = 2709504
      BY SMT DEF Tensor, DTypeBytes
    <2>3. Tensor(1, <<1152>>) = 4608
      BY SMT, Scalars, Bytes1
    <2>4. Tensor(1, <<1, 16, 16, 1152>>) = 1179648
      BY SMT DEF Tensor, DTypeBytes
    <2> QED BY SMT, <2>1, <2>2, <2>3, <2>4 DEF PatchProjectionOperands, F32
  <1>9. Operands(Read(b)) = PatchProjectionOperands
    <2> DEFINE p == Read(b)
    <2> HIDE DEF p
    <2>1. p.form = "AIPPA1"
      BY FormRead DEF Magics, p
    <2>2. Operands(p) = PatchProjectionOperands
      BY <2>1 DEF Operands, GeluMulForms, CompactGateForms, RoundedForms
    <2> QED BY <2>2 DEF p
  <1>10. Reaches(b, <<602112, 2709504, 4608, 1179648>>)
    BY SMT, <1>6 DEF Reaches
  <1>11. Asks(b, <<602112, 2709504, 4608>>, <<1179648>>)
    BY SMT, <1>7, <1>8, <1>9 DEF Asks
  <1>12. Fits(b)
    BY SMT, <1>10, <1>11, Fits31
  <1>13. ScratchFits(b)
    <2>1. Runtime!ScratchExtent(b) = [written |-> extent.patches, read |-> extent.read]
      BY Zenon DEF Runtime!ScratchExtent, extent
    <2>2. Runtime!RequiredWorkspace(b) = b.at[140] + b.at[316]
      BY Zenon DEF Runtime!RequiredWorkspace
    <2>3. b.at[316] \in Nat
      <3>1. Carried(b.magic) = 316
        BY DEF Carried, GeluMulForms
      <3> QED BY <3>1 DEF LaidOut
    <2> DEFINE scratch == Runtime!ScratchExtent(b)
               workspace == Runtime!RequiredWorkspace(b)
    <2>4. scratch.written = 602112 /\ scratch.read = 602112
      BY SMT, <1>5, <2>1
    <2> HIDE DEF scratch, workspace
    <2>5. workspace = b.at[140] + b.at[316]
      BY <2>2 DEF workspace
    <2>6. scratch.written <= workspace /\ scratch.read <= scratch.written
      BY SMT, <1>2, <2>3, <2>4, <2>5
    <2>7. scratch.written \in Int /\ scratch.read \in Int
      BY SMT, <2>4
    <2> QED BY <2>6, <2>7 DEF ScratchFits, scratch, workspace
  <1> QED BY <1>12, <1>13

(* The other forms use no scratch.                                         *)
LEMMA ScratchUnused ==
  ASSUME NEW b, LaidOut(b), b.magic \notin RoundedForms \cup {"AIPPA1"}
  PROVE ScratchFits(b)
  <1>1. Runtime!ScratchExtent(b) = [written |-> 0, read |-> 0]
    BY DEF Runtime!ScratchExtent, RoundedForms
  <1>2. Runtime!RequiredWorkspace(b) \in Nat
    <2>1. CASE b.magic = "AILTMM1"
      <3>1. Carried(b.magic) = 124
        BY <2>1 DEF Carried, GeluMulForms
      <3> QED BY <2>1, <3>1 DEF LaidOut, Runtime!RequiredWorkspace
    <2>2. CASE b.magic # "AILTMM1"
      BY <2>2 DEF Runtime!RequiredWorkspace, RoundedForms
    <2> QED BY <2>1, <2>2
  <1> QED BY <1>1, <1>2 DEF ScratchFits

(* Whatever the form, what a parsed payload asks for covers what its       *)
(* kernels reach.                                                          *)
LEMMA ParsedFits ==
  ASSUME NEW b, LaidOut(b), Runtime!Parses(b)
  PROVE Fits(b) /\ ScratchFits(b)
  <1>1. b.magic \in Magics
    BY DEF LaidOut
  <1>2. CASE b.magic \in {"AIRMS1", "AILNR1", "AITEM1", "AISLC1", "AIARM1", "AIVAT1", "AISMD1", "AIPIA1"}
    <2>1. Fits(b)
      BY <1>2, RmsNormFits, LayerNormFits, TimeEmbeddingFits, ActionSliceFits, AdaptiveRmsNormFits,
         VisionAttentionFits, SuffixMetadataFits, PrefixInputFits
    <2>2. ScratchFits(b)
      BY <1>2, ScratchUnused DEF RoundedForms
    <2> QED BY <2>1, <2>2
  <1>3. CASE b.magic \in {"AIKVS1", "AIROP1", "AIKVP1", "AICUKR1", "AIFIAT1", "AIMAD1"}
    <2>1. Fits(b)
      BY <1>3, PrefixKvStoreFits, RopeFits, KvPackFits, CudaKernelFits, FlashInferFits, MulAddFits
    <2>2. ScratchFits(b)
      BY <1>3, ScratchUnused DEF RoundedForms
    <2> QED BY <2>1, <2>2
  <1>4. CASE b.magic \in {"AIPSP1", "AIQRP1", "AISTU1", "AILTMM1"}
    <2>1. Fits(b)
      BY <1>4, SplitFits, QkvRopePackFits, StateUpdateFits, CublasLtFits
    <2>2. ScratchFits(b)
      BY <1>4, ScratchUnused DEF RoundedForms
    <2> QED BY <2>1, <2>2
  <1>5. CASE b.magic \in GeluMulForms \cup CompactGateForms
    <2>1. Fits(b)
      BY <1>5, GeluMulFits, CompactGateFits
    <2>2. ScratchFits(b)
      BY <1>5, ScratchUnused DEF RoundedForms, GeluMulForms, CompactGateForms
    <2> QED BY <2>1, <2>2
  <1>6. CASE b.magic \in RoundedForms
    BY <1>6, RoundedFits, RoundedScratch
  <1>7. CASE b.magic = "AIPPA1"
    BY <1>7, PatchProjectionFits
  <1> QED BY <1>1, <1>2, <1>3, <1>4, <1>5, <1>6, <1>7 DEF Magics

(* The field of a form that LaidOut names is one of its layout.            *)
LEMMA CarriedLaid ==
  ASSUME NEW magic \in Magics
  PROVE Carried(magic) \in Layout(magic)
  <1>0. \A o, w, n \in Nat : \A i \in 1..n : o + (w * (i - 1)) \in Starts(o, w, n)
    BY DEF Starts
  <1>1. 8 \in Starts(8, 2, 2)
    <2>1. 8 + (2 * (1 - 1)) = 8 /\ 1 \in 1..2
      OBVIOUS
    <2> QED BY <1>0, <2>1
  <1>2. \A w, l : 8 \in Framed(w, l)
    BY <1>1 DEF Framed
  <1>3. 32 \in Framed(1, 4)
    <2>1. 12 + (4 * 1) = 16 /\ 16 + (8 * (3 - 1)) = 32 /\ 3 \in 1..4
      OBVIOUS
    <2>2. 32 \in Starts(16, 8, 4)
      BY <1>0, <2>1
    <2> QED BY <2>1, <2>2 DEF Framed
  <1>4. 124 \in Product
    <2>1. 68 + (8 * (8 - 1)) = 124 /\ 8 \in 1..8
      OBVIOUS
    <2>2. 124 \in Starts(68, 8, 8)
      <3>1. 68 + (8 * (8 - 1)) \in Starts(68, 8, 8)
        BY ZenonT(60), <2>1 DEF Starts
      <3> QED BY <2>1, <3>1
    <2> QED BY <2>2 DEF Product
  <1>5. 316 \in {192 + o : o \in Product}
    <2>1. 316 = 192 + 124
      OBVIOUS
    <2> QED BY <1>4, <2>1
  <1>6. CASE magic \in GeluMulForms
    <2>1. 64 \in GeluMulFields
      BY DEF GeluMulFields
    <2> QED BY <1>6, <2>1 DEF Layout, Carried, GeluMulForms, CompactGateForms
  <1>7. CASE magic \in {"AISTU1", "AILTMM1", "AIPPA1"}
    BY <1>3, <1>4, <1>5, <1>7 DEF Layout, Carried, GeluMulForms, CompactGateForms
  <1>8. CASE magic \notin GeluMulForms \cup {"AISTU1", "AILTMM1", "AIPPA1"}
    <2>1. Carried(magic) = 8
      BY <1>8 DEF Carried
    <2>2. \E w, l : Layout(magic) \in {Framed(w, l), RoundedFields, CudaFields, FlashFields}
      BY <1>8 DEF Layout, Magics, GeluMulForms, CompactGateForms, RoundedForms
    <2>3. 8 \in RoundedFields /\ 8 \in CudaFields /\ 8 \in FlashFields
      BY <1>1 DEF RoundedFields, CudaFields, FlashFields
    <2> QED BY <1>2, <2>1, <2>2, <2>3
  <1> QED BY <1>6, <1>7, <1>8

(* A payload of the layout of its form has what the extents need.          *)
LEMMA WholeLaidOut == ASSUME NEW b, LaidWhole(b) PROVE LaidOut(b)
  <1>1. b.magic \in Magics /\ b.at \in [Layout(b.magic) -> Nat]
    BY DEF LaidWhole
  <1>2. Carried(b.magic) \in Layout(b.magic)
    BY <1>1, CarriedLaid
  <1>3. b = [magic |-> b.magic, size |-> b.size, at |-> b.at]
    BY DEF LaidWhole
  <1> DEFINE D == Layout(b.magic)
             at == b.at
  <1>4. at \in [D -> Nat]
    BY <1>1
  <1> HIDE DEF D, at
  <1>5. DOMAIN at = D /\ at = [o \in D |-> at[o]] /\ \A o \in D : at[o] \in Nat
    BY <1>4
  <1> QED BY <1>1, <1>2, <1>3, <1>5 DEF LaidOut, at, D

(* Changing the value of one field keeps the layout.                       *)
LEMMA AlteredWhole ==
  ASSUME NEW b, LaidWhole(b), NEW o \in DOMAIN b.at, NEW v \in Nat
  PROVE LaidWhole([magic |-> b.magic, size |-> b.size,
                   at |-> [q \in DOMAIN b.at |-> IF q = o THEN v ELSE b.at[q]]])
  <1> DEFINE D == Layout(b.magic)
             at == [q \in DOMAIN b.at |-> IF q = o THEN v ELSE b.at[q]]
             c == [magic |-> b.magic, size |-> b.size, at |-> at]
  <1>1. b.at \in [D -> Nat] /\ b.magic \in Magics /\ b.size = Extent(b.magic)
    BY DEF LaidWhole
  <1>2. at \in [D -> Nat]
    <2> HIDE DEF D
    <2> QED BY <1>1
  <1> HIDE DEF at
  <1>3. c.magic = b.magic /\ c.size = b.size /\ c.at = at
    OBVIOUS
  <1>4. c = [magic |-> c.magic, size |-> c.size, at |-> c.at]
    BY <1>3
  <1> HIDE DEF c
  <1>5. LaidWhole(c)
    BY <1>1, <1>2, <1>3, <1>4 DEF LaidWhole, D
  <1> QED BY <1>5 DEF c, at

(* So does another magic of the same family: its forms share a layout.     *)
LEMMA RenamedWhole ==
  ASSUME NEW b, LaidWhole(b), NEW family \in Families, b.magic \in family, NEW magic \in family
  PROVE LaidWhole([magic |-> magic, size |-> b.size, at |-> b.at])
  <1> DEFINE c == [magic |-> magic, size |-> b.size, at |-> b.at]
             old == b.magic
  <1>1. \/ old \in GeluMulForms /\ magic \in GeluMulForms
        \/ old \in {"AIPSP1", "AIQRP1"} /\ magic \in {"AIPSP1", "AIQRP1"}
        \/ old \in {"AIMAD1"} \cup CompactGateForms /\ magic \in {"AIMAD1"} \cup CompactGateForms
        \/ old \in {"AIRAT2", "AIRAT3"} /\ magic \in {"AIRAT2", "AIRAT3"}
    BY DEF Families
  <1> HIDE DEF old
  <1>2. magic \in Magics
    BY <1>1 DEF Magics, RoundedForms
  <1>3. Layout(magic) = Layout(old)
    BY <1>1 DEF Layout, GeluMulForms, CompactGateForms
  <1>4. Extent(magic) = Extent(old)
    BY <1>1 DEF Extent, GeluMulForms, CompactGateForms
  <1>5. b.size = Extent(old) /\ b.at \in [Layout(old) -> Nat]
    BY DEF LaidWhole, old
  <1>6. c.magic = magic /\ c.size = b.size /\ c.at = b.at
    OBVIOUS
  <1>7. c = [magic |-> c.magic, size |-> c.size, at |-> c.at]
    OBVIOUS
  <1> HIDE DEF c
  <1>8. LaidWhole(c)
    BY <1>2, <1>3, <1>4, <1>5, <1>6, <1>7 DEF LaidWhole
  <1> QED BY <1>8 DEF c

-----------------------------------------------------------------------------
(* What the compiler lowers is what the runtime asks for.                  *)

(* The provider and the tag lead to the payload's form.                    *)
LEMMA FormDispatched ==
  ASSUME NEW p, p.form \in Magics
  PROVE Runtime!Dispatched(ProviderId(p), Tag(p), p.form)
  BY DEF Magics, GeluMulForms, CompactGateForms, RoundedForms, Runtime!Dispatched, ProviderId, Tag

(* The module that is read is the one the runtime compares.                *)
LEMMA ModuleRead ==
  ASSUME NEW b, b.magic \in Magics, b.magic \notin {"AILTMM1", "AIFIAT1"}
  PROVE Runtime!ModuleOf(b) = <<Read(b).module.bytes, Read(b).module.sha>>
  <1>1. CASE b.magic \in {"AIRMS1", "AILNR1", "AITEM1", "AISLC1", "AIARM1", "AIVAT1"}
    BY SMTT(150), <1>1 DEF Runtime!ModuleOf, Read, ModuleIn, GeluMulForms, CompactGateForms, RoundedForms, RmsNormRead,
       LayerNormRead, TimeEmbeddingRead, ActionSliceRead, AdaptiveRmsNormRead, VisionAttentionRead
  <1>2. CASE b.magic \in {"AISMD1", "AIPIA1", "AIKVS1", "AIROP1", "AIKVP1", "AICUKR1"}
    BY SMTT(150), <1>2 DEF Runtime!ModuleOf, Read, ModuleIn, GeluMulForms, CompactGateForms, RoundedForms,
       SuffixMetadataRead, PrefixInputRead, PrefixKvStoreRead, RopeRead, KvPackRead, CudaKernelRead
  <1>3. CASE b.magic \in GeluMulForms \cup ({"AIMAD1"} \cup CompactGateForms)
    BY SMTT(150), <1>3 DEF Runtime!ModuleOf, Read, ModuleIn, GeluMulForms, CompactGateForms, RoundedForms, GeluMulRead,
       MulAddRead
  <1>4. CASE b.magic \in {"AIPSP1", "AIQRP1", "AISTU1", "AIPPA1"}
    BY SMTT(150), <1>4 DEF Runtime!ModuleOf, Read, ModuleIn, GeluMulForms, CompactGateForms, RoundedForms, SplitRead,
       StateUpdateRead, PatchProjectionRead
  <1>5. CASE b.magic \in RoundedForms
    BY <1>5 DEF Runtime!ModuleOf, Read, ModuleIn, GeluMulForms, CompactGateForms, RoundedForms, RoundedRead
  <1> QED BY <1>1, <1>2, <1>3, <1>4, <1>5 DEF Magics

(* The workspace the attention with a product library declares.            *)
LEMMA RoundedWorkspaceAsked ==
  ASSUME NEW b, LaidWhole(b), b.magic \in RoundedForms, Runtime!Parses(b)
  PROVE Workspace(Read(b)) = Runtime!RequiredWorkspace(b)
  <1> DEFINE p == Read(b)
  <1>1. /\ p.form = b.magic /\ p.variant = b.at[16]
        /\ p.version = IF b.size = 192 THEN b.at[80] ELSE 0
    <2>1. p = RoundedRead(b)
      BY DEF Read, GeluMulForms, CompactGateForms, RoundedForms
    <2> QED BY <2>1 DEF RoundedRead
  <1> HIDE DEF p
  <1>2. Workspace(p) = RoundedWorkspace(p)
    BY <1>1 DEF Workspace, RoundedForms
  <1>3. Runtime!RoundedAttentionParses(b) /\ b.at[16] \in 1..4
    <2>1. Runtime!RoundedAttentionParses(b)
      BY DEF Runtime!Parses, RoundedForms
    <2> QED BY <2>1, RoundedFits
  <1>4. CASE b.magic = "AIRAT1"
    <2>1. b.size = 128
      <3>1. Extent("AIRAT1") = 128
        BY DEF Extent, GeluMulForms, CompactGateForms
      <3> QED BY <1>4, <3>1 DEF LaidWhole
    <2>2. p.version = 0
      BY <1>1, <2>1
    <2> QED BY <1>2, <1>4, <2>2 DEF RoundedWorkspace, Runtime!RequiredWorkspace, p
  <1>5. CASE b.magic \in {"AIRAT2", "AIRAT3"}
    <2>1. b.size = 192
      <3>1. Extent(b.magic) = 192
        BY <1>5, RoundedManyLays
      <3> QED BY <3>1 DEF LaidWhole
    <2>2. p.version # 0
      <3>1. Runtime!Field(b, 80) # 0
        BY <1>3, <1>5, <2>1 DEF Runtime!RoundedAttentionParses
      <3> QED BY <1>1, <2>1, <3>1 DEF Runtime!Field
    <2>3. b.at[88] = Runtime!ScoreBytes(b.at[16])
      <3>1. Runtime!Longs(b, 88, <<Runtime!ScoreBytes(Runtime!Field(b, 16))>>)
        BY <1>3, <1>5 DEF Runtime!RoundedAttentionParses
      <3>2. Runtime!Field(b, 16) = b.at[16]
        <4>1. Runtime!Field(b, 16) \in 1..4
          BY <1>3 DEF Runtime!RoundedAttentionParses
        <4> QED BY <4>1 DEF Runtime!Field
      <3> QED BY <3>1, <3>2 DEF Runtime!Longs, Runtime!Run
    <2>4. PICK q, k, heads, kv, dim, scores : RoundedCase(p.variant, q, k, heads, kv, dim, scores)
      BY <1>1, <1>3, RoundedShapes
    <2>5. /\ RoundedShape[p.variant].heads * RoundedShape[p.variant].q * RoundedShape[p.variant].k
               * RoundedShape[p.variant].scalar = scores
          /\ Runtime!ScoreBytes(p.variant) = scores
      BY <2>4, RoundedShaped
    <2>6. RoundedWorkspace(p) = scores
      BY <2>2, <2>5 DEF RoundedWorkspace
    <2>7. Runtime!RequiredWorkspace(b) = b.at[88]
      BY <1>5 DEF Runtime!RequiredWorkspace
    <2> QED BY ONLY <1>1, <1>2, <2>3, <2>5, <2>6, <2>7 DEF p
  <1> QED BY <1>4, <1>5 DEF RoundedForms

(* The workspace a lowering declares is the one Prepare requires.          *)
LEMMA WorkspaceAsked ==
  ASSUME NEW b, LaidWhole(b), Runtime!Parses(b)
  PROVE Workspace(Read(b)) = Runtime!RequiredWorkspace(b)
  <1> DEFINE p == Read(b)
  <1>1. b.magic \in Magics /\ p.form = b.magic
    BY FormRead DEF LaidWhole
  <1>2. CASE b.magic \in RoundedForms
    BY <1>2, RoundedWorkspaceAsked
  <1>3. CASE b.magic = "AILTMM1"
    <2>1. p.workspace = b.at[124]
      <3>1. p = LinearRead(b, 0)
        BY <1>3 DEF Read, GeluMulForms, CompactGateForms, RoundedForms
      <3> QED BY <3>1 DEF LinearRead
    <2> HIDE DEF p
    <2>2. Workspace(p) = p.workspace
      BY <1>1, <1>3 DEF Workspace, RoundedForms
    <2>3. Runtime!RequiredWorkspace(b) = b.at[124]
      BY <1>3 DEF Runtime!RequiredWorkspace
    <2> QED BY <2>1, <2>2, <2>3 DEF p
  <1>4. CASE b.magic = "AIPPA1"
    <2>1. p.linear.workspace = b.at[316]
      <3>1. p.linear = LinearRead(b, 192)
        BY <1>4, PatchRead
      <3>2. LinearRead(b, 192).workspace = b.at[192 + 124]
        BY ONLY SMT DEF LinearRead
      <3>3. 192 + 124 = 316
        BY SMT
      <3> QED BY ONLY <3>1, <3>2, <3>3
    <2> HIDE DEF p
    <2>2. Workspace(p) = PatchMatrixBytes + p.linear.workspace
      BY <1>1, <1>4 DEF Workspace, RoundedForms
    <2>3. Runtime!RequiredWorkspace(b) = b.at[140] + b.at[316]
      BY Zenon, <1>4 DEF Runtime!RequiredWorkspace
    <2>4. b.at[140] = 602112
      <3>1. Runtime!PatchProjectionParses(b)
        BY <1>4 DEF Runtime!Parses
      <3> QED BY SMT, <3>1 DEF Runtime!PatchProjectionParses, Runtime!Longs, Runtime!Run
    <2>5. PatchMatrixBytes = 602112
      BY SMT DEF PatchMatrixBytes
    <2> QED BY ONLY SMT, <2>1, <2>2, <2>3, <2>4, <2>5 DEF p
  <1>5. CASE b.magic \notin RoundedForms \cup {"AILTMM1", "AIPPA1"}
    <2> HIDE DEF p
    <2>1. Workspace(p) = 0
      BY <1>1, <1>5 DEF Workspace
    <2>2. Runtime!RequiredWorkspace(b) = 0
      BY <1>5 DEF Runtime!RequiredWorkspace, RoundedForms
    <2> QED BY <2>1, <2>2 DEF p
  <1> QED BY <1>2, <1>3, <1>4, <1>5

(* The architecture.                                                       *)
LEMMA TargetRead ==
  ASSUME NEW b, b.magic \in Magics
  PROVE Runtime!TargetArch(b) = IF b.magic \in {"AICUKR1", "AILTMM1"} THEN Read(b).arch ELSE SM120
  <1>1. CASE b.magic = "AICUKR1"
    BY <1>1, CudaRead DEF Runtime!TargetArch
  <1>2. CASE b.magic = "AILTMM1"
    <2>1. Read(b) = LinearRead(b, 0)
      BY <1>2 DEF Read, GeluMulForms, CompactGateForms, RoundedForms
    <2>2. Read(b).arch = b.at[16]
      BY <2>1 DEF LinearRead
    <2> QED BY <1>2, <2>2 DEF Runtime!TargetArch
  <1>3. CASE b.magic \notin {"AICUKR1", "AILTMM1"}
    BY <1>3 DEF Runtime!TargetArch, SM120
  <1> QED BY <1>1, <1>2, <1>3

(* A command with the fields of a lowering.                                *)
LEMMA CommandForFields ==
  ASSUME NEW p
  PROVE /\ CommandFor(p) = [provider |-> CommandFor(p).provider, tag |-> CommandFor(p).tag,
                            operands |-> CommandFor(p).operands, workspace |-> CommandFor(p).workspace,
                            module |-> CommandFor(p).module, arch |-> CommandFor(p).arch]
        /\ CommandFor(p).provider = ProviderId(p) /\ CommandFor(p).tag = Tag(p)
        /\ CommandFor(p).operands = Operands(p) /\ CommandFor(p).workspace = Workspace(p)
        /\ CommandFor(p).module = (IF HasModule(p) THEN p.module ELSE NoModule)
        /\ CommandFor(p).arch = (IF p.form \in {"AICUKR1", "AILTMM1"} THEN p.arch ELSE SM120)
  <1> DEFINE a == ProviderId(p)
             t == Tag(p)
             o == Operands(p)
             w == Workspace(p)
             m == IF HasModule(p) THEN p.module ELSE NoModule
             r == IF p.form \in {"AICUKR1", "AILTMM1"} THEN p.arch ELSE SM120
             c == CommandFor(p)
  <1>1. c = [provider |-> a, tag |-> t, operands |-> o, workspace |-> w, module |-> m, arch |-> r]
    BY DEF CommandFor
  <1> HIDE DEF a, t, o, w, m, r, c
  <1>2. /\ c.provider = a /\ c.tag = t /\ c.operands = o /\ c.workspace = w /\ c.module = m /\ c.arch = r
        /\ c = [provider |-> c.provider, tag |-> c.tag, operands |-> c.operands, workspace |-> c.workspace,
                module |-> c.module, arch |-> c.arch]
    BY ONLY <1>1
  <1> QED BY ONLY <1>2 DEF a, t, o, w, m, r, c

(* What the compiler decodes and lowers, the runtime prepares.             *)
LEMMA LoweredPrepares ==
  ASSUME NEW b, LaidWhole(b), Decodes(b)
  PROVE Runtime!Prepares(b, CommandFor(Read(b)))
  <1> DEFINE p == Read(b)
             c == CommandFor(p)
             required == Runtime!Requires(b)
  <1>1. b.magic \in Magics /\ p.form = b.magic
    BY FormRead DEF LaidWhole
  <1>2. Runtime!Parses(b)
    BY WholeAgree DEF SameAccepted
  <1>3. Fits(b)
    BY <1>2, WholeLaidOut, ParsedFits
  <1>4. Operands(p) = required /\ Covered(Runtime!Extents(b), required) /\ Listed(required)
    BY <1>3 DEF Fits
  <1>5. Runtime!Dispatched(ProviderId(p), Tag(p), b.magic)
    <2> HIDE DEF p
    <2> QED BY <1>1, FormDispatched
  <1>6. Workspace(p) = Runtime!RequiredWorkspace(b)
    BY <1>2, WorkspaceAsked
  <1>7. Runtime!TargetArch(b) = IF p.form \in {"AICUKR1", "AILTMM1"} THEN p.arch ELSE SM120
    BY <1>1, TargetRead
  <1>8. b.magic \notin {"AILTMM1", "AIFIAT1"} => Runtime!ModuleOf(b) = <<p.module.bytes, p.module.sha>> /\ HasModule(p)
    BY <1>1, ModuleRead DEF HasModule
  <1> HIDE DEF p, required
  <1>9. /\ c.provider = ProviderId(p) /\ c.tag = Tag(p) /\ c.operands = Operands(p) /\ c.workspace = Workspace(p)
        /\ c.module = (IF HasModule(p) THEN p.module ELSE NoModule)
        /\ c.arch = (IF p.form \in {"AICUKR1", "AILTMM1"} THEN p.arch ELSE SM120)
    BY CommandForFields
  <1> HIDE DEF c
  <1>10. /\ Runtime!TargetArch(b) = c.arch /\ c.workspace = Runtime!RequiredWorkspace(b) /\ c.operands = required
         /\ Runtime!Dispatched(c.provider, c.tag, b.magic)
    BY ONLY <1>4, <1>5, <1>6, <1>7, <1>9
  <1>11. b.magic \notin {"AILTMM1", "AIFIAT1"} => Runtime!ModuleOf(b) = <<c.module.bytes, c.module.sha>>
    BY ONLY <1>8, <1>9
  <1>12. \A i \in DOMAIN required : required[i].bytes # 0 /\ required[i].bytes >= required[i].bytes
    <2>1. DOMAIN required = 1..Len(required)
      BY <1>4 DEF Listed
    <2>2. \A i \in 1..Len(required) : required[i].bytes \in Nat \ {0}
      BY <1>4 DEF Covered
    <2> QED BY <2>1, <2>2
  <1>13. Runtime!Prepares(b, c)
    BY ONLY <1>2, <1>10, <1>11, <1>12 DEF Runtime!Prepares, required
  <1> QED BY <1>13 DEF c, p

-----------------------------------------------------------------------------
(* The invariant of payload and command.                                   *)

(* The record that names the payload has its fields, whatever they hold.  *)
CommandRecord ==
  command = [provider |-> command.provider, tag |-> command.tag, operands |-> command.operands,
             workspace |-> command.workspace, module |-> command.module, arch |-> command.arch]
(* A lowered command is the one of the problem that is read from its       *)
(* payload, and that payload the compiler decodes.                         *)
Lowered == Decodes(payload) /\ problem = Read(payload) /\ command = CommandFor(problem)
(* The inductive invariant.                                                *)
Judged ==
  /\ LaidWhole(payload) /\ CommandRecord /\ Listed(command.operands)
  /\ origin = "lowered" => Lowered
  /\ outcome = "prepared" => Runtime!Prepares(payload, command)
  /\ outcome = "refused" => ~Runtime!Prepares(payload, command)

(* A command lowered from a payload that is decoded lists its operands.    *)
LEMMA LoweredRecord ==
  ASSUME NEW b, LaidWhole(b), Decodes(b), NEW p, p = Read(b), NEW c, c = CommandFor(p)
  PROVE /\ c = [provider |-> c.provider, tag |-> c.tag, operands |-> c.operands, workspace |-> c.workspace,
                module |-> c.module, arch |-> c.arch]
        /\ Listed(c.operands) /\ c.operands = Runtime!Requires(b) /\ c.operands = Operands(p)
  <1>1. Runtime!Parses(b)
    BY WholeAgree DEF SameAccepted
  <1>2. Operands(p) = Runtime!Requires(b) /\ Listed(Runtime!Requires(b))
    BY <1>1, WholeLaidOut, ParsedFits DEF Fits
  <1> QED BY <1>2, CommandForFields

(* Initially the payload is the compiler's own.                            *)
LEMMA InitJudged == Init => Judged
  <1> SUFFICES ASSUME Init PROVE Judged
    OBVIOUS
  <1>1. problem \in Problem /\ Valid(problem) /\ Bytes(problem).magic = problem.form
    BY ProblemsAssumption DEF Init
  <1>2. payload = Bytes(problem) /\ command = CommandFor(problem) /\ outcome = "pending"
    BY DEF Init
  <1>3. LaidWhole(payload) /\ Read(payload) = problem /\ Decodes(payload)
    BY <1>1, <1>2, WholeBack, DecodesBack
  <1>4. CommandRecord /\ Listed(command.operands)
    BY <1>2, <1>3, LoweredRecord DEF CommandRecord
  <1> QED BY <1>2, <1>3, <1>4 DEF Judged, Lowered

(* A changed field: the layout stays, and the command is as it was.        *)
LEMMA AlterFieldJudged == Judged /\ AlterField => Judged'
  <1> SUFFICES ASSUME Judged, AlterField PROVE Judged'
    OBVIOUS
  <1>1. LaidWhole(payload')
    <2>1. PICK o \in DOMAIN payload.at, v \in Nat :
            payload' = [magic |-> payload.magic, size |-> payload.size,
                        at |-> [q \in DOMAIN payload.at |-> IF q = o THEN v ELSE payload.at[q]]]
      BY DEF AlterField
    <2>2. LaidWhole(payload)
      BY DEF Judged
    <2> QED BY <2>1, <2>2, AlteredWhole
  <1>2. outcome = "pending" /\ origin' = "altered" /\ UNCHANGED <<command, outcome>>
    BY DEF AlterField
  <1> QED BY <1>1, <1>2 DEF Judged, CommandRecord

(* A changed magic: likewise.                                              *)
LEMMA AlterMagicJudged == Judged /\ AlterMagic => Judged'
  <1> SUFFICES ASSUME Judged, AlterMagic PROVE Judged'
    OBVIOUS
  <1>1. LaidWhole(payload')
    <2>1. PICK family \in Families : /\ payload.magic \in family
                                     /\ \E magic \in family \ {payload.magic} :
                                          payload' = [magic |-> magic, size |-> payload.size, at |-> payload.at]
      BY DEF AlterMagic
    <2>2. PICK magic \in family : payload' = [magic |-> magic, size |-> payload.size, at |-> payload.at]
      BY <2>1
    <2>3. LaidWhole(payload)
      BY DEF Judged
    <2> QED BY <2>1, <2>2, <2>3, RenamedWhole
  <1>2. outcome = "pending" /\ origin' = "altered" /\ UNCHANGED <<command, outcome>>
    BY DEF AlterMagic
  <1> QED BY <1>1, <1>2 DEF Judged, CommandRecord

(* Lowering anew: the payload is decoded, so the runtime parses it and the *)
(* operands are those it asks for.                                         *)
LEMMA LowerJudged == Judged /\ Lower => Judged'
  <1> SUFFICES ASSUME Judged, Lower PROVE Judged'
    OBVIOUS
  <1>1. /\ problem' = Read(payload) /\ command' = CommandFor(problem') /\ UNCHANGED <<payload, outcome>>
        /\ outcome = "pending" /\ Decodes(payload)
    BY DEF Lower
  <1>2. LaidWhole(payload)
    BY DEF Judged
  <1>3. CommandRecord' /\ Listed(command'.operands)
    BY <1>1, <1>2, LoweredRecord DEF CommandRecord
  <1> QED BY <1>1, <1>2, <1>3 DEF Judged, Lowered

(* Replacing an operand, or dropping the last, leaves a list of operands.  *)
LEMMA ChangedListed ==
  ASSUME NEW s, Listed(s), NEW i \in 1..Len(s), NEW a, NEW n \in Int
  PROVE Listed(Changed(s, i, [access |-> a, bytes |-> n]))
  <1> DEFINE o == [access |-> a, bytes |-> n]
             t == Changed(s, i, o)
             l == Len(s)
  <1>1. o = [access |-> o.access, bytes |-> o.bytes] /\ o.bytes \in Int
    OBVIOUS
  <1>2. DOMAIN s = 1..l /\ l \in Nat
    BY DEF Listed
  <1> HIDE DEF o, l
  <1>3. t = [j \in 1..l |-> IF j = i THEN o ELSE s[j]]
    BY <1>2 DEF Changed
  <1>4. Len(t) = l
    BY <1>2, <1>3
  <1>5. \A j \in 1..l : /\ t[j] = [access |-> t[j].access, bytes |-> t[j].bytes]
                        /\ t[j].bytes \in Int
    BY <1>1, <1>3 DEF Listed, l
  <1>6. t = [j \in 1..l |-> t[j]]
    BY <1>3
  <1> HIDE DEF t
  <1>7. Listed(t)
    BY <1>2, <1>4, <1>5, <1>6 DEF Listed
  <1> QED BY <1>7 DEF t, o

(* The latter.                                                             *)
LEMMA ShortenedListed ==
  ASSUME NEW s, Listed(s)
  PROVE Listed(SubSeq(s, 1, Len(s) - 1))
  <1> DEFINE l == Len(s)
             t == SubSeq(s, 1, l - 1)
             V == {s[j] : j \in 1..l}
             m == Len(t)
  <1>1. l \in Nat /\ s \in Seq(V)
    BY DEF Listed
  <1>2. \A j \in 1..(l - 1) : j \in 1..l /\ s[j] \in V
    BY <1>1
  <1> HIDE DEF V
  <1>3. l - 1 \in Int /\ 1 \in Int
    BY <1>1
  <1>4. /\ t \in Seq(V) /\ Len(t) = (IF 1 <= l - 1 THEN (l - 1) - 1 + 1 ELSE 0)
        /\ \A j \in 1..((l - 1) - 1 + 1) : t[j] = s[1 + j - 1]
    <2> HIDE DEF l
    <2>1. \A j \in 1..(l - 1) : s[j] \in V
      BY <1>2
    <2> QED BY ONLY <1>3, <2>1, SubSeqProperties
  <1> HIDE DEF t, l
  <1>5. t \in Seq(V) /\ Len(t) = m /\ \A j \in 1..m : j \in 1..l /\ t[j] = s[j]
    BY <1>1, <1>2, <1>4
  <1>6. m \in Nat /\ t = [j \in 1..m |-> t[j]]
    BY <1>5
  <1> HIDE DEF m
  <1>7. \A j \in 1..m : /\ t[j] = [access |-> t[j].access, bytes |-> t[j].bytes]
                        /\ t[j].bytes \in Int
    BY <1>5 DEF Listed, l
  <1>8. Listed(t)
    BY <1>5, <1>6, <1>7 DEF Listed
  <1> QED BY <1>8 DEF t, l

(* A disturbed command is still a command.                                 *)
LEMMA DisturbJudged == Judged /\ Disturb => Judged'
  <1> SUFFICES ASSUME Judged, Disturb PROVE Judged'
    OBVIOUS
  <1> DEFINE s == command.operands
  <1>1. CommandRecord /\ LaidWhole(payload) /\ Listed(s)
    BY DEF Judged
  <1>2. UNCHANGED <<payload, outcome>> /\ outcome = "pending" /\ origin' = "disturbed"
    BY DEF Disturb
  <1>3. CASE \E x : \E f \in {"workspace", "module", "arch", "tag"} : command' = [command EXCEPT ![f] = x]
    <2>1. CommandRecord' /\ command'.operands = s
      BY <1>1, <1>3 DEF CommandRecord
    <2> QED BY <1>1, <1>2, <2>1 DEF Judged
  <1>4. ASSUME NEW i \in DOMAIN s,
               \E other \in {[s[i] EXCEPT !.bytes = @ - 1], [s[i] EXCEPT !.access = Flip(@)]} :
                 command' = [command EXCEPT !.operands = Changed(@, i, other)]
        PROVE Judged'
    <2>1. PICK other \in {[s[i] EXCEPT !.bytes = @ - 1], [s[i] EXCEPT !.access = Flip(@)]} :
            command' = [command EXCEPT !.operands = Changed(@, i, other)]
      BY <1>4
    <2>2. CommandRecord' /\ command'.operands = Changed(s, i, other)
      BY <1>1, <2>1 DEF CommandRecord
    <2>3. Listed(Changed(s, i, other))
      <3>0. Listed(s)
        BY <1>1
      <3> HIDE DEF s
      <3>1. i \in 1..Len(s)
        BY <3>0 DEF Listed
      <3> DEFINE o == s[i]
      <3>2. o = [access |-> o.access, bytes |-> o.bytes] /\ o.bytes \in Int
        BY <3>0, <3>1 DEF Listed
      <3>3. other \in {[o EXCEPT !.bytes = @ - 1], [o EXCEPT !.access = Flip(@)]}
        BY <2>1
      <3> HIDE DEF o
      <3>4. \/ other = [access |-> o.access, bytes |-> o.bytes - 1]
            \/ other = [access |-> Flip(o.access), bytes |-> o.bytes]
        BY <3>2, <3>3
      <3>5. o.bytes - 1 \in Int
        BY <3>2
      <3> QED BY <3>0, <3>1, <3>2, <3>4, <3>5, ChangedListed
    <2> QED BY <1>1, <1>2, <2>2, <2>3 DEF Judged
  <1>5. CASE command' = [command EXCEPT !.operands = SubSeq(@, 1, Len(@) - 1)]
    <2>1. CommandRecord' /\ command'.operands = SubSeq(s, 1, Len(s) - 1)
      BY <1>1, <1>5 DEF CommandRecord
    <2>2. Listed(SubSeq(s, 1, Len(s) - 1))
      BY <1>1, ShortenedListed
    <2> QED BY <1>1, <1>2, <2>1, <2>2 DEF Judged
  <1>6. \/ \E x : \E f \in {"workspace", "module", "arch", "tag"} : command' = [command EXCEPT ![f] = x]
        \/ \E i \in DOMAIN s :
             \E other \in {[s[i] EXCEPT !.bytes = @ - 1], [s[i] EXCEPT !.access = Flip(@)]} :
                 command' = [command EXCEPT !.operands = Changed(@, i, other)]
        \/ command' = [command EXCEPT !.operands = SubSeq(@, 1, Len(@) - 1)]
    BY Zenon DEF Disturb
  <1> QED BY <1>3, <1>4, <1>5, <1>6

(* Prepare only judges.                                                    *)
LEMMA PrepareJudged == Judged /\ Prepare => Judged'
  <1> SUFFICES ASSUME Judged, Prepare PROVE Judged'
    OBVIOUS
  <1>1. /\ UNCHANGED <<problem, payload, command, origin>>
        /\ outcome' = "prepared" => Runtime!Prepares(payload, command)
        /\ outcome' = "refused" => ~Runtime!Prepares(payload, command)
    BY DEF Prepare
  <1> QED BY <1>1 DEF Judged, CommandRecord, Lowered

(* Every step keeps the invariant.                                         *)
LEMMA JudgedKept == Judged /\ [Next]_vars => Judged'
  <1>1. CASE Next
    BY <1>1, AlterFieldJudged, AlterMagicJudged, LowerJudged, DisturbJudged, PrepareJudged DEF Next
  <1>2. CASE UNCHANGED vars
    BY <1>2 DEF vars, Judged, CommandRecord, Lowered
  <1> QED BY <1>1, <1>2

-----------------------------------------------------------------------------
(* What the invariant says of the properties.                              *)

(* A command is prepared only if its payload is parsed, so the operands it *)
(* was given cover what the form asks for, and that what it reaches.       *)
LEMMA JudgedInBounds == Judged => PreparedInBounds
  <1> SUFFICES ASSUME Judged, outcome = "prepared"
               PROVE LET extents == Runtime!Extents(payload)
                         scratch == Runtime!ScratchExtent(payload)
                         contract == Operands(Read(payload))
                     IN /\ Len(extents) = Len(command.operands)
                        /\ \A i \in DOMAIN extents : /\ extents[i] <= command.operands[i].bytes
                                                     /\ contract[i].access = command.operands[i].access
                        /\ scratch.read <= scratch.written /\ scratch.written <= command.workspace
    BY DEF PreparedInBounds
  <1> DEFINE extents == Runtime!Extents(payload)
             scratch == Runtime!ScratchExtent(payload)
             contract == Operands(Read(payload))
             required == Runtime!Requires(payload)
             given == command.operands
  <1>1. Runtime!Prepares(payload, command) /\ LaidOut(payload) /\ Listed(given)
    BY WholeLaidOut DEF Judged
  <1>2. Runtime!Parses(payload)
    BY <1>1 DEF Runtime!Prepares
  <1>3. Fits(payload) /\ ScratchFits(payload)
    BY <1>1, <1>2, ParsedFits
  <1>4. Covered(extents, required) /\ contract = required
    BY <1>3 DEF Fits
  <1>5. /\ Len(given) = Len(required) /\ command.workspace = Runtime!RequiredWorkspace(payload)
        /\ \A i \in DOMAIN given : given[i].access = required[i].access /\ given[i].bytes >= required[i].bytes
    BY <1>1 DEF Runtime!Prepares
  <1>6. scratch.read <= scratch.written /\ scratch.written <= command.workspace
    BY <1>3, <1>5 DEF ScratchFits
  <1> HIDE DEF extents, scratch, contract, required, given
  <1>7. Len(extents) = Len(given) /\ DOMAIN extents = DOMAIN given /\ DOMAIN given = 1..Len(required)
    BY <1>1, <1>4, <1>5 DEF Covered, Listed
  <1>8. ASSUME NEW i \in DOMAIN extents
        PROVE extents[i] <= given[i].bytes /\ contract[i].access = given[i].access
    <2>1. i \in 1..Len(required) /\ i \in DOMAIN given /\ i \in 1..Len(given)
      BY <1>5, <1>7
    <2>2. extents[i] \in Int /\ required[i].bytes \in Int /\ extents[i] <= required[i].bytes
      BY <1>4, <2>1 DEF Covered
    <2>3. given[i].bytes \in Int
      BY <1>1, <2>1 DEF Listed
    <2> QED BY <1>4, <1>5, <2>1, <2>2, <2>3
  <1> QED BY <1>6, <1>7, <1>8 DEF extents, scratch, contract, given

(* Both ends accept the same payloads, whatever became of this one.        *)
LEMMA JudgedAgree == Judged => DecodersAgree
  BY WholeAgree DEF Judged, SameAccepted, DecodersAgree

(* The runtime prepares a command as it was lowered.                       *)
LEMMA JudgedLowered == Judged => LoweredIsPrepared
  <1> SUFFICES ASSUME Judged, origin = "lowered" PROVE outcome # "refused"
    BY DEF LoweredIsPrepared
  <1>1. LaidWhole(payload) /\ Decodes(payload) /\ command = CommandFor(Read(payload))
    BY DEF Judged, Lowered
  <1>2. Runtime!Prepares(payload, command)
    BY <1>1, LoweredPrepares
  <1> QED BY <1>2 DEF Judged

(* The window of a state is the one the payload says.                      *)
LEMMA WindowRead ==
  ASSUME NEW b, b.magic = "AISTU1"
  PROVE Read(b).offset = b.at[32] /\ Read(b).count = b.at[24]
  <1>1. Read(b) = StateUpdateRead(b)
    BY DEF Read, GeluMulForms, CompactGateForms, RoundedForms
  <1> QED BY <1>1 DEF StateUpdateRead

(* The operands of a lowered command are those Prepare asks for, and those *)
(* the launch fills.                                                       *)
LEMMA JudgedComplete == Judged => OutputsComplete
  <1> SUFFICES ASSUME Judged, outcome = "prepared", origin = "lowered",
                      NEW i \in DOMAIN Runtime!Extents(payload), command.operands[i].access = "w"
               PROVE Runtime!Extents(payload)[i] = IF problem.form = "AISTU1"
                                                   THEN 2 * (problem.offset + problem.count)
                                                   ELSE command.operands[i].bytes
    BY DEF OutputsComplete
  <1> DEFINE extents == Runtime!Extents(payload)
             required == Runtime!Requires(payload)
             given == command.operands
  <1>1. LaidWhole(payload) /\ Decodes(payload) /\ problem = Read(payload) /\ command = CommandFor(problem)
    BY DEF Judged, Lowered
  <1>2. Runtime!Parses(payload)
    BY <1>1, WholeAgree DEF SameAccepted
  <1>3. Covered(extents, required) /\ Filled(payload, extents, required)
    BY <1>1, <1>2, WholeLaidOut, ParsedFits DEF Fits
  <1>4. given = required
    BY <1>1, LoweredRecord
  <1>5. problem.form = payload.magic
    BY <1>1, FormRead DEF LaidWhole
  <1>6. problem.form = "AISTU1" => problem.offset = payload.at[32] /\ problem.count = payload.at[24]
    BY <1>1, <1>5, WindowRead
  <1> HIDE DEF extents, required, given
  <1>7. i \in 1..Len(required)
    BY <1>3 DEF Covered, extents
  <1>8. required[i].access = "w"
    BY <1>4 DEF given
  <1>9. Produces(payload, extents[i], required[i].bytes)
    BY <1>3, <1>7, <1>8 DEF Filled
  <1> QED BY <1>4, <1>5, <1>6, <1>9 DEF Produces, extents, given

-----------------------------------------------------------------------------
(* What every behaviour keeps.                                             *)

(* Whatever became of payload and command, they have been judged by what   *)
(* they now hold.                                                          *)
LEMMA AlwaysJudged == Spec => []Judged
  BY InitJudged, JudgedKept, PTL DEF Spec

(* from_bytes of the compiler and the parsers of src/cpp accept the same   *)
(* payloads, except those the model names as tolerated, however a field or *)
(* the magic was changed.                                                  *)
THEOREM DecodersAlwaysAgree == Spec => []DecodersAgree
  <1> QED BY AlwaysJudged, JudgedAgree, PTL

(* A command as a lowering of src/src/aginfer/providers left it is never   *)
(* refused by Prepare: provider, tag, operands, workspace, architecture    *)
(* and module are those the runtime asks for.                              *)
THEOREM LoweredStaysPrepared == Spec => []LoweredIsPrepared
  <1> QED BY AlwaysJudged, JudgedLowered, PTL

(* Whatever field of a payload or of the command that names it was changed, *)
(* a command that Prepare accepts touches no byte behind an operand or the *)
(* workspace it was given, writes only operands declared as written, and   *)
(* reads no scratch it has not written.                                    *)
THEOREM PreparedStaysInBounds == Spec => []PreparedInBounds
  <1> QED BY AlwaysJudged, JudgedInBounds, PTL

(* The launches of a prepared command as it was lowered produce every byte *)
(* of every output, or the window of the state they update.                *)
THEOREM OutputsStayComplete == Spec => []OutputsComplete
  <1> QED BY AlwaysJudged, JudgedComplete, PTL
=============================================================================
