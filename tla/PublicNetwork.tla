--------------------------- MODULE PublicNetwork ----------------------------
(***************************************************************************)
(* The address that a MON listens on: constructMonCommand in               *)
(* src/src/executor/CephExecutor.cpp asks for the addresses of the host    *)
(* and takes the first one in the network mgmtdev.  Addresses are scaled   *)
(* down to Octets octets of OctetBits bits.                                *)
(***************************************************************************)
EXTENDS StringUtil

CONSTANTS OctetBits,  \* 8 in the code
          Octets      \* 4 in the code

ASSUME PublicNetworkAssumption ==
  /\ OctetBits \in Nat \ {0}
  /\ Octets \in Nat \ {0}

VARIABLES addresses, \* the addresses of the host, in the order of hostname -I
          MON_IP     \* the environment of the MON's container, as a text

netVars == <<addresses, MON_IP>>

PowerOf2[n \in 0 .. OctetBits * Octets] ==
  IF n = 0 THEN 1 ELSE 2 * PowerOf2[n - 1]

Address == [1 .. Octets -> 0 .. PowerOf2[OctetBits] - 1]
NoIP == << >>

(* A network: an address and the length of its netmask.                    *)
Network == Address \X (0 .. OctetBits * Octets)
NoNetwork == << >>

(* hostname -i, which the MON falls back on: an address like any other.    *)
HostnameIP == [i \in 1 .. Octets |-> 0]

netInit(ips) ==
  /\ addresses = ips
  /\ MON_IP = NoIP

-----------------------------------------------------------------------------
(* The texts: 10.1.0.0, 10.1.0.0/16 and a list with a space after each.    *)

octetText(a) == [i \in 1 .. 2 * Octets - 1 |->
                   IF i % 2 = 1 THEN a[i \div 2 + 1] ELSE Dot]
cidrText(n) == octetText(n[1]) \o <<Slash, n[2]>>
ipsText(s) ==
  LET w == 2 * Octets
  IN  [i \in 1 .. Len(s) * w |->
         IF i % w = 0 THEN Space ELSE octetText(s[i \div w + 1])[i % w]]

getPublicNetworkIP(ips, CIDR) ==
  LET tokens == explode(ips, Space)
      hits == {i \in DOMAIN tokens : matchIPToCIDR(tokens[i], CIDR, OctetBits)}
  IN  IF hits = {} THEN octetText(HostnameIP) ELSE tokens[Min(hits)]

(* Without a network matchIPToCIDR reads an element of an empty vector and *)
(* the executor crashes.                                                   *)
Crashed == <<Dash>>

constructMonCommand(network) ==
  /\ MON_IP = NoIP
  /\ MON_IP' = IF network = NoNetwork THEN Crashed
               ELSE getPublicNetworkIP(ipsText(addresses), cidrText(network))
  /\ UNCHANGED addresses

-----------------------------------------------------------------------------
(* The network that an address is in: its first n bits, as a number.       *)
Number(a) ==
  LET first[i \in 0 .. Octets] ==
        IF i = 0 THEN 0 ELSE first[i - 1] * PowerOf2[OctetBits] + a[i]
  IN  first[Octets]
Prefix(a, n) == Number(a) \div PowerOf2[OctetBits * Octets - n]
InNetwork(a, network) ==
  Prefix(a, network[2]) = Prefix(network[1], network[2])
=============================================================================
