---------------------------- MODULE NetworkTables ----------------------------
(***************************************************************************)
(* What the network adapter reads from the kernel and what it asks of it   *)
(* (agent/internal/qnap/network/network.go): route tables, neighbours,     *)
(* interface counters and the arguments of ip.                             *)
(*                                                                         *)
(* A line of a table is the set of its defects, a file is absent, refused  *)
(* or its lines, possibly cut short by a line that the scanner cannot      *)
(* hold.  A line of the neighbour table is a sequence of words, each named *)
(* for what it is: "addr", "mac", a state, or the name of an interface.    *)
(***************************************************************************)
EXTENDS Naturals, Sequences

Absent == [open |-> "absent", lines |-> <<>>, broken |-> FALSE]

(* A word in another position than the ones named here cannot spoil a line: *)
(* addresses of the IPv4 table are passed on as they are when they do not  *)
(* decode, and a bad mask is a prefix of length zero.                      *)
Defect4 == {"short", "metric", "destination", "gateway", "mask"}
Defect6 == {"short", "destination", "source", "gateway", "prefix", "source prefix", "metric"}

Table == [open : {"absent", "refused", "ok"}, lines : Seq(SUBSET (Defect4 \cup Defect6)), broken : BOOLEAN]

parseIPv4Routes(lines) == {i \in DOMAIN lines : lines[i] \cap {"short", "metric"} = {}}
parseIPv6Routes(lines) == {i \in DOMAIN lines : lines[i] = {}}

(* An unreadable file has no items; a broken one has those before the      *)
(* break, and an error.                                                    *)
readRouteTable(file, items) ==
    [items |-> IF file.open = "ok" THEN items ELSE {}, available |-> file.open = "ok",
     err |-> CASE file.open = "absent" -> "absent"
               [] file.open = "refused" -> "error"
               [] file.broken -> "error"
               [] OTHER -> "none"]

(* Mutant: one table that opens is enough.                                 *)
RoutesOfEither(v4, v6) ==
    LET t4 == readRouteTable(v4, parseIPv4Routes(v4.lines))
        t6 == readRouteTable(v6, parseIPv6Routes(v6.lines))
    IN  [ipv4 |-> t4.items, ipv6 |-> t6.items,
         err |-> IF t4.available \/ t6.available THEN "none" ELSE "unavailable"]

Routes(v4, v6) ==
    LET t4 == readRouteTable(v4, parseIPv4Routes(v4.lines))
        t6 == readRouteTable(v6, parseIPv6Routes(v6.lines))
    IN  [ipv4 |-> t4.items, ipv6 |-> t6.items,
         err |-> CASE ~t4.available /\ ~t6.available -> "unavailable"
                   [] "error" \in {t4.err, t6.err} -> "error"
                   [] OTHER -> "none"]

IPv6Routes(v6) ==
    LET t6 == readRouteTable(v6, parseIPv6Routes(v6.lines))
    IN  [items |-> t6.items, err |-> IF t6.available THEN t6.err ELSE "unavailable"]

-----------------------------------------------------------------------------
States == {"REACHABLE", "STALE"}
Keywords == {"dev", "lladdr", "router", "proxy"}
isNeighborState(w) == w \in States
isNeighborKeyword(w) == w \in Keywords \/ isNeighborState(w)
isHardwareAddress(w) == w = "mac"

Unset == ""     \* a field that the line does not give
Flags == {"router", "proxy"}    \* the fields Router and Proxy, when they are true
Neighbor == [Interface : STRING, MAC : STRING, State : States, flags : SUBSET Flags]
NoNeighbor == [Interface |-> Unset, MAC |-> Unset, State |-> Unset, flags |-> {}]

(* What is read so far, and the keyword that takes the next word.          *)
Has(item) == [item |-> item, takes |-> "nothing"]
neighborField(s, word) ==
    IF s.takes = "dev" THEN Has([s.item EXCEPT !.Interface = word])
    ELSE IF s.takes = "lladdr" THEN Has([s.item EXCEPT !.MAC = word])
    ELSE CASE word \in {"dev", "lladdr"} -> [item |-> s.item, takes |-> word]
           [] word \in Flags -> Has([s.item EXCEPT !.flags = @ \cup {word}])
           [] isNeighborState(word) -> Has([s.item EXCEPT !.State = word])
           [] OTHER -> s

(* The words after the address, one by one.  Without a "dev" the first of  *)
(* them may be the interface.                                              *)
parseFields(words) ==
    LET scan[i \in 0 .. Len(words)] == IF i = 0 THEN Has(NoNeighbor) ELSE neighborField(scan[i - 1], words[i])
        item == scan[Len(words)].item
        next == IF words = <<>> THEN "dev" ELSE words[1]
    IN  IF item.Interface = Unset /\ ~isNeighborKeyword(next) /\ ~isHardwareAddress(next)
        THEN [item EXCEPT !.Interface = next]
        ELSE item

(* The first address of the line is the neighbour's.                       *)
parseNeighborLine(words) ==
    LET at == CHOOSE i \in DOMAIN words : words[i] = "addr" /\ \A j \in 1 .. i - 1 : words[j] # "addr"
    IN  parseFields(SubSeq(words, at + 1, Len(words)))

parseNeighbors(lines) ==
    {parseNeighborLine(l) : l \in {m \in lines : \E i \in DOMAIN m : m[i] = "addr"}}

(* The first procfs file that opens decides; the ip command is asked only  *)
(* when there is none.                                                     *)
NeighborsContext(ndisc, cache, ip) ==
    CASE ndisc.open = "ok" -> [from |-> "ndisc", err |-> IF ndisc.broken THEN "error" ELSE "none"]
      [] cache.open = "ok" -> [from |-> "ndisc_cache", err |-> IF cache.broken THEN "error" ELSE "none"]
      [] ip = "ok" -> [from |-> "ip", err |-> "none"]
      [] OTHER -> [from |-> "nothing", err |-> "unavailable"]

(* A neighbour as the kernel's tables spell it: iproute2 names every field *)
(* in this order, its older versions the flags last, and old procfs tables *)
(* give device and state by position.                                      *)
SpellNeighbor(n, form) ==
    LET mac == IF n.MAC = Unset THEN <<>> ELSE <<"lladdr", n.MAC>>
        flag(word) == IF word \in n.flags THEN <<word>> ELSE <<>>
        flags == flag("router") \o flag("proxy")
    IN  CASE form = "flags_first" -> <<"addr", "dev", n.Interface>> \o mac \o flags \o <<n.State>>
          [] form = "flags_last" -> <<"addr", "dev", n.Interface>> \o mac \o <<n.State>> \o flags
          [] form = "position" -> <<"addr", n.Interface, "mac", n.State>>

-----------------------------------------------------------------------------
(* Counters by name: a number, or "bad" for a file that is missing or does *)
(* not hold one.  A row of /proc/net/dev counts as a whole.                *)
Counter == {"rx_bytes", "rx_packets", "rx_errors", "rx_dropped", "tx_bytes", "tx_packets", "tx_errors", "tx_dropped"}
parseProcNetDev(row) == row # {} /\ Counter \subseteq row

interfaceCounters(sys, row) ==
    CASE sys # {} -> [Available |-> TRUE, from |-> "sysfs", known |-> sys]
      [] sys = {} /\ parseProcNetDev(row) -> [Available |-> TRUE, from |-> "procfs", known |-> Counter]
      [] OTHER -> [Available |-> FALSE, from |-> "nothing", known |-> {}]

-----------------------------------------------------------------------------
(* Arguments of ip for an action.  A value is a class: what the validation *)
(* tells apart, and "any" for the CIDR of all addresses, 0.0.0.0/0 or      *)
(* ::/0.                                                                   *)
Value == {"mtu", "mtu out of range", "up", "down", "cidr", "any", "default", "other"}
CommandArgs(action, iface, value, gateway) ==
    LET verb == IF action \in {"address_delete", "route_delete"} THEN "del" ELSE "add"
        via == IF gateway = "ip" THEN <<"via", "ip">> ELSE <<>>
    IN  IF iface # "valid" THEN <<>>
        ELSE CASE action = "set_mtu" /\ value = "mtu" -> <<"link", "set", "mtu">>
               [] action = "set_state" /\ value \in {"up", "down"} -> <<"link", "set", value>>
               [] action \in {"address_add", "address_delete"} /\ value \in {"cidr", "any"} -> <<"addr", verb, value>>
               [] action \in {"route_add", "route_delete"} /\ value \in {"cidr", "any", "default"} /\ gateway # "other" ->
                      <<"route", verb, value>> \o via
               [] OTHER -> <<>>

=============================================================================
