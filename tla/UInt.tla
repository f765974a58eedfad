-------------------------------- MODULE UInt --------------------------------
(***************************************************************************)
(* util.UInt (src/ext/util/uint.go): the tengo value the reflection bridge *)
(* makes of a Go uint, uint8 ... uint64 (object_wrapper.go) and that       *)
(* redis string commands return.  Its BinaryOp and Equals are     *)
(* what a script's operators do with it.                                   *)
(*                                                                         *)
(* Go's uint64 arithmetic is arithmetic modulo 2^64; a conversion          *)
(* uint64(i) of an int64 keeps the bits, so a negative i becomes i + 2^64, *)
(* and rune(u) keeps the low 32 bits as a signed number.  The widths are   *)
(* the constants W (64 in the code) and CW (32).                            *)
(***************************************************************************)
EXTENDS Integers, Bitwise

CONSTANTS
    W,    \* bits of uint64 and int64
    CW    \* bits of a rune (int32)

ASSUME W \in Nat \ {0} /\ CW \in 1..W

UInts == 0..(2^W - 1)
Ints  == (-(2^(W-1)))..(2^(W-1) - 1)
Runes == (-(2^(CW-1)))..(2^(CW-1) - 1)

\* The tengo values an operand or a result can be.  A float64 holds every
\* value of these small widths exactly.
IntV(i)   == [t |-> "int", v |-> i]
UIntV(u)    == [t |-> "uint", v |-> u]
FloatV(f) == [t |-> "float", v |-> f]
CharV(c)  == [t |-> "char", v |-> c]
BoolV(b)  == [t |-> "bool", v |-> b]
Fail(e)  == [t |-> "error", v |-> e]

Operands == {IntV(i) : i \in Ints} \cup {UIntV(u) : u \in UInts}
            \cup {FloatV(f) : f \in Ints} \cup {CharV(c) : c \in Runes}

Arith   == {"+", "-", "*", "/", "%", "&", "|", "^", "&^", "<<", ">>"}
Compare == {"<", ">", "<=", ">="}

\* uint64(i) and rune(u): the same bits, read at the other type.
ToUint(i) == i % 2^W
ToRune(u) == LET m == u % 2^CW IN IF m >= 2^(CW-1) THEN m - 2^CW ELSE m

\* A comparison operator on two numbers.
Cmp(op, a, b) ==
    CASE op = "<"  -> a < b
      [] op = ">"  -> a > b
      [] op = "<=" -> a <= b
      [] op = ">=" -> a >= b

\* o.Value op r for two uint64s.  Go panics on a division by zero; shifts
\* by W or more give 0.
UintOp(op, a, b) ==
    IF op \in {"/", "%"} /\ b = 0 THEN Fail("panic: integer divide by zero")
    ELSE UIntV(CASE op = "+"  -> (a + b) % 2^W
              [] op = "-"  -> (a - b) % 2^W
              [] op = "*"  -> (a * b) % 2^W
              [] op = "/"  -> a \div b
              [] op = "%"  -> a % b
              [] op = "&"  -> a & b
              [] op = "|"  -> a | b
              [] op = "^"  -> a ^^ b
              [] op = "&^" -> a & (2^W - 1 - b)
              [] op = "<<" -> (a * 2^b) % 2^W
              [] op = ">>" -> a \div 2^b)

\* The *tengo.Int and *UInt cases: the right operand as a uint64, then
\* the arithmetic or the comparison.  When the result equals o.Value the
\* code returns o itself, a UInt of the same value.
UintRhs(a, b, op) ==
    IF op \in Arith THEN UintOp(op, a, b) ELSE BoolV(Cmp(op, a, b))

\* The *tengo.Float case: float64(o.Value) op rhs.Value.  Quo is left out:
\* its result is not a whole number.
FloatRhs(a, f, op) ==
    CASE op = "+" -> FloatV(a + f)
      [] op = "-" -> FloatV(a - f)
      [] op = "*" -> FloatV(a * f)
      [] op \in Compare -> BoolV(Cmp(op, a, f))
      [] OTHER -> Fail("invalid operator")

\* The *tengo.Char case: Add and Sub in rune arithmetic (int32, wrapping),
\* the comparisons against uint64(rhs.Value).
CharRhs(a, c, op) ==
    CASE op = "+" -> CharV(ToRune(ToRune(a) + c))
      [] op = "-" -> CharV(ToRune(ToRune(a) - c))
      [] op \in Compare -> BoolV(Cmp(op, a, ToUint(c)))
      [] OTHER -> Fail("invalid operator")

\* UInt.BinaryOp(op, rhs) on o.Value = a; any other right operand type is
\* ErrInvalidOperator.
BinaryOp(a, op, rhs) ==
    CASE rhs.t = "int"   -> UintRhs(a, ToUint(rhs.v), op)
      [] rhs.t = "uint"  -> UintRhs(a, rhs.v, op)
      [] rhs.t = "float" -> FloatRhs(a, rhs.v, op)
      [] rhs.t = "char"  -> CharRhs(a, rhs.v, op)
      [] OTHER -> Fail("invalid operator")

\* UInt.Equals: a UInt of the same value, or an Int whose uint64 is it.
Equals(a, y) ==
    CASE y.t = "uint" -> a = y.v
      [] y.t = "int"  -> a = ToUint(y.v)
      [] OTHER -> FALSE

VARIABLE
    x    \* the value of a script variable holding a UInt

Init == x \in UInts

\* The script runs x = x op rhs (or x op= rhs) and the result is a UInt.
Assign(op, rhs) ==
    LET r == BinaryOp(x, op, rhs) IN
    /\ r.t = "uint"
    /\ x' = r.v

Next == \E op \in Arith, rhs \in Operands : Assign(op, rhs)

Spec == Init /\ [][Next]_x

-----------------------------------------------------------------------------
(* Properties                                                              *)

\* A script comparing a uint with an int gets the answer of the numbers:
\* u < i is true exactly when the integer u is less than the integer i, and
\* u == i when they are the same number (BinaryOp's *tengo.Int case and
\* Equals, which convert the int with uint64(rhs.Value)).
CompareAsNumbers ==
    \A i \in Ints :
        /\ \A op \in Compare : BinaryOp(x, op, IntV(i)) = BoolV(Cmp(op, x, i))
        /\ Equals(x, IntV(i)) = (x = i)

====
