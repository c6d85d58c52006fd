----------------------------- MODULE StringUtil -----------------------------
(***************************************************************************)
(* The helpers of src/src/common/StringUtil.hpp on texts.  A text is a     *)
(* sequence of symbols: a word or a number is a natural number, and the    *)
(* characters that texts are split at are the negative numbers below.      *)
(***************************************************************************)
EXTENDS Integers, Sequences, FiniteSetsExt, Functions

Dot == -1
Slash == -2
Space == -3
Comma == -4
Colon == -5
Dash == -6

(* getline reads a token from each position that is the first one or       *)
(* follows a delimiter, up to the next delimiter or the end of the text: a *)
(* text that ends with a delimiter has no empty token after it, and an     *)
(* empty text has none at all.                                             *)
starts(s, delim) == {i \in 1 .. Len(s) : i = 1 \/ s[i - 1] = delim}
stop(s, delim, i) ==
  Min({j \in i .. Len(s) : s[j] = delim} \cup {Len(s) + 1})
nth(S, k) == CHOOSE i \in S : Cardinality({j \in S : j <= i}) = k
explode(s, delim) ==
  [k \in 1 .. Cardinality(starts(s, delim)) |->
     LET i == nth(starts(s, delim), k)
     IN  SubSeq(s, i, stop(s, delim, i) - 1)]

matchIPToCIDR_oneMore(ip, CIDR, octetBits) ==
  LET ipTokens == explode(ip, Dot)
      subnetTokens == explode(explode(CIDR, Slash)[1], Dot)
      netmaskLength == explode(CIDR, Slash)[2][1]
  IN  \A i \in (1 .. netmaskLength \div octetBits + 1) \cap DOMAIN ipTokens :
        ipTokens[i] = subnetTokens[i]

(* As many octets are compared as the netmask covers in full; an octet has *)
(* octetBits bits, 8 in the code.                                          *)
matchIPToCIDR(ip, CIDR, octetBits) ==
  LET ipTokens == explode(ip, Dot)
      subnetTokens == explode(explode(CIDR, Slash)[1], Dot)
      netmaskLength == explode(CIDR, Slash)[2][1]
  IN  \A i \in 1 .. netmaskLength \div octetBits :
        ipTokens[i] = subnetTokens[i]
=============================================================================
