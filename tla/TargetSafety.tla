----------------------------- MODULE TargetSafety -----------------------------
(***************************************************************************)
(* validate_target: which networks may be scanned.                         *)
(*                                                                         *)
(* Addresses are numbers.  A CIDR text is an address with the size of its  *)
(* network, a network the block of that size which holds the address.  A   *)
(* policy keeps its deny list as texts, in order, because each of them is  *)
(* parsed when it is compared.                                             *)
(*                                                                         *)
(* An operator whose name starts with Faulty is the one after it with a    *)
(* bug planted; nothing uses it.  It shows that a property would notice.   *)
(***************************************************************************)
EXTENDS Integers, Sequences

CONSTANT PrivateBlocks   \* networks of the blocks reserved for private use

Text     == [addr : Nat, size : Nat \ {0}]
Network  == [first : Nat, size : Nat \ {0}]
NotACidr == [addr |-> 0, size |-> 0]         \* any text that is no CIDR
Policy   == [deny : Seq(Text \cup {NotACidr}), public : BOOLEAN, max : Nat, hops : Nat]

ASSUME PrivateAssumption == PrivateBlocks \subseteq Network

-----------------------------------------------------------------------------
(* The ipaddress library.                                                  *)
HasHostBits(text) == text.addr % text.size # 0

(* IPv4Network(text, strict=False) for a text that denotes a network.      *)
Masked(text) == [first |-> text.addr - (text.addr % text.size),
                 size |-> text.size]

(* IPv4Network(text) raises: it takes no host bits either.                 *)
Malformed(text) == text = NotACidr \/ HasHostBits(text)

(* str(network)                                                            *)
Shown(net) == [addr |-> net.first, size |-> net.size]

Last(net)      == net.first + net.size - 1
Addresses(net) == net.first .. Last(net)
In(a, net)     == net.first <= a /\ a <= Last(net)

Overlaps(net, other) ==
  \/ In(other.first, net) \/ In(Last(other), net)
  \/ In(net.first, other) \/ In(Last(net), other)

IsPrivate(net) == \E b \in PrivateBlocks : In(net.first, b) /\ In(Last(net), b)

-----------------------------------------------------------------------------
(* The deny list is searched in order.  An entry that the strict parser    *)
(* refuses raises a ValueError, which is no SafetyError, if it is reached. *)
FaultyStops(net, deny) ==                    \* a net that is larger passes
  {i \in DOMAIN deny :
     \/ Malformed(deny[i])
     \/ In(net.first, Masked(deny[i])) /\ In(Last(net), Masked(deny[i]))}
Stops(net, deny) ==
  {i \in DOMAIN deny : Malformed(deny[i]) \/ Overlaps(net, Masked(deny[i]))}

Chokes(net, deny) ==
  \E i \in Stops(net, deny) :
    Malformed(deny[i]) /\ \A j \in Stops(net, deny) : i <= j

Consents(net, policy, confirm) ==
  IsPrivate(net) \/ (policy.public /\ confirm)

(* The outcomes of validate_target: it returns the network, or raises a    *)
(* SafetyError, or another exception that its callers do not expect.       *)
Accepts(text, policy, confirm, hops, override) ==
  /\ text # NotACidr
  /\ override \/ Stops(Masked(text), policy.deny) = {}
  /\ Consents(Masked(text), policy, confirm)
  /\ text.size <= policy.max
  /\ hops <= policy.hops

Raises(text, policy, override) ==
  /\ text # NotACidr
  /\ ~override
  /\ Chokes(Masked(text), policy.deny)
=============================================================================
