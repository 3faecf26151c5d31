-------------------------------- MODULE Wire --------------------------------
(***************************************************************************)
(* The messages between kernel module and daemon, byte range by byte       *)
(* range.  The two sides hold the layout in different forms: the kernel    *)
(* writes members of packed C structures, whose places follow from the     *)
(* widths of the members before them; the daemon reads and writes at       *)
(* explicit offsets.  A packet is a set of pieces, each a range of bytes   *)
(* with the value written there; reading a range gives that value when     *)
(* exactly this range was written, and Torn otherwise.  The kernel's       *)
(* buffers are not cleared, the daemon's are.                              *)
(*                                                                         *)
(* What a value is does not matter: the value written for a field is the   *)
(* name of the field.  The exceptions are the header, the count of a page  *)
(* and the texts, given as a number of characters and their width.         *)
(***************************************************************************)
EXTENDS Naturals, Sequences, FiniteSets, FiniteSetsExt, Functions

CONSTANTS
  Text,      \* texts offered for a string field: <<characters, bytes of each>>
  Total,     \* how many rows a table of the kernel has
  Offset, Limit,   \* what a page query asks for
  Torn, Unset, None

VARIABLES sent, packet, got
vars == <<sent, packet, got>>

HdrLen == 12
MsgLenMax == 65535

-----------------------------------------------------------------------------
(* The daemon's tables: field -> <<offset, width>>.                         *)

MsgHdr == [magic |-> <<0, 4>>, msg_type |-> <<4, 2>>, msg_len |-> <<6, 2>>, seq |-> <<8, 4>>]

DdosEvent == [af |-> <<12, 1>>, reason |-> <<13, 32>>, rate_pps |-> <<45, 4>>, addr |-> <<49, 16>>]

BanStateChange ==
  [action |-> <<12, 1>>, af |-> <<13, 1>>, prefix_len |-> <<14, 1>>, duration_secs |-> <<15, 4>>,
   addr |-> <<19, 16>>, reason |-> <<35, 32>>, jail_name |-> <<67, 32>>,
   packets_dropped |-> <<99, 8>>, packets_accepted |-> <<107, 8>>,
   current_bans |-> <<115, 4>>, whitelist_count |-> <<119, 4>>]

WhitelistStateChange ==
  [action |-> <<12, 1>>, af |-> <<13, 1>>, prefix_len |-> <<14, 1>>, addr |-> <<15, 16>>,
   device |-> <<31, 16>>, whitelist_count |-> <<47, 4>>]

CmdResult ==
  [original_cmd |-> <<12, 2>>, pad |-> <<14, 2>>, error_code |-> <<16, 4>>, af |-> <<20, 1>>,
   addr |-> <<21, 16>>]

ConfigAck == [applied_flags |-> <<12, 4>>, rejected_flags |-> <<16, 4>>]

ConfigPayload ==
  [flags |-> <<12, 4>>, ban_time |-> <<16, 4>>, rate_window_seconds |-> <<20, 4>>,
   max_packets_per_second |-> <<24, 8>>, max_bytes_per_second |-> <<32, 8>>,
   max_syn_per_second |-> <<40, 8>>, max_udp_per_second |-> <<48, 8>>,
   max_icmp_per_second |-> <<56, 8>>, max_ack_per_second |-> <<64, 8>>,
   max_rst_per_second |-> <<72, 8>>, max_fin_per_second |-> <<80, 8>>,
   dynamic_threshold_flags |-> <<88, 4>>, dynamic_threshold_ratio_x100 |-> <<92, 4>>,
   baseline_pps |-> <<96, 8>>, baseline_bps |-> <<104, 8>>, ddos_ban_duration |-> <<112, 4>>]

\* the configuration sent to the kernel and the one it announces have one payload
SetConfig == ConfigPayload
ConfigChange == ConfigPayload

BanEntry ==
  [af |-> <<0, 1>>, is_permanent |-> <<1, 1>>, prefix_len |-> <<2, 1>>, duration_secs |-> <<3, 4>>,
   banned_at |-> <<7, 8>>, addr |-> <<15, 16>>, jail_name |-> <<31, 32>>, reason |-> <<63, 32>>]

ListBansResponse == [count |-> <<12, 4>>, total |-> <<16, 4>>, offset |-> <<20, 4>>]

StatsResponse ==
  [current_bans |-> <<12, 8>>, total_bans |-> <<20, 8>>, total_unbans |-> <<28, 8>>,
   whitelist_count |-> <<36, 8>>, packets_dropped |-> <<44, 8>>, packets_accepted |-> <<52, 8>>]

WhitelistEntry == [af |-> <<0, 1>>, prefix_len |-> <<1, 1>>, addr |-> <<2, 16>>, device |-> <<18, 16>>]

ListWhitelistResponse == [count |-> <<12, 4>>, total |-> <<16, 4>>, offset |-> <<20, 4>>]

RateEntry ==
  [af |-> <<0, 1>>, pad |-> <<1, 3>>, packets |-> <<4, 8>>, bytes |-> <<12, 8>>,
   syn_packets |-> <<20, 8>>, udp_packets |-> <<28, 8>>, icmp_packets |-> <<36, 8>>,
   ack_packets |-> <<44, 8>>, rst_packets |-> <<52, 8>>, fin_packets |-> <<60, 8>>,
   unique_ports |-> <<68, 4>>, addr |-> <<72, 16>>]

ListRatesResponse ==
  [count |-> <<12, 4>>, total |-> <<16, 4>>, offset |-> <<20, 4>>,
   global_pps |-> <<24, 8>>, global_bps |-> <<32, 8>>]

UdpPortItem == [port |-> <<0, 2>>, packets |-> <<2, 8>>, bytes |-> <<10, 8>>, last_seen_secs |-> <<18, 8>>]

IcmpTypeItem ==
  [type |-> <<0, 1>>, code |-> <<1, 1>>, packets |-> <<2, 8>>, bytes |-> <<10, 8>>,
   last_seen_secs |-> <<18, 8>>]

ScannerItem ==
  [af |-> <<0, 1>>, pad |-> <<1, 3>>, addr |-> <<4, 16>>, metric |-> <<20, 4>>, packets |-> <<24, 8>>]

AnalysisResponse ==
  [pkt_sizes |-> <<12, 5 * 8>>, ttl_dist |-> <<52, 6 * 8>>, ip_frag_total |-> <<100, 8>>,
   ip_frag_count |-> <<108, 8>>, udp_port_count |-> <<116, 4>>, udp_port_capacity |-> <<120, 4>>,
   udp_ports |-> <<124, 64 * 26>>, icmp_type_count |-> <<1788, 4>>, icmp_type_capacity |-> <<1792, 4>>,
   icmp_types |-> <<1796, 64 * 26>>, port_scan_count |-> <<3460, 4>>, port_scan_threshold |-> <<3464, 4>>,
   port_scanners |-> <<3468, 20 * 32>>, service_probe_count |-> <<4108, 4>>,
   service_probe_threshold |-> <<4112, 4>>, service_probes |-> <<4116, 20 * 32>>]

DaemonRegisterAck == [accepted |-> <<12, 1>>]

\* UnbanIp shares the table of BanIp
BanIp ==
  [af |-> <<12, 1>>, prefix_len |-> <<13, 1>>, duration_secs |-> <<14, 4>>, addr |-> <<18, 16>>,
   reason |-> <<34, 32>>]

SetProtectedPorts == [count |-> <<12, 4>>, bitmap |-> <<16, 8192>>]

\* the three page queries share one table
ListQuery == [offset |-> <<12, 4>>, limit |-> <<16, 4>>]

\* RemoveWhitelist shares the table of AddWhitelist
AddWhitelist == [af |-> <<12, 1>>, prefix_len |-> <<13, 1>>, addr |-> <<14, 16>>, device |-> <<30, 16>>]

HeaderOnly == [f \in {} |-> None]

-----------------------------------------------------------------------------
(* The kernel's structures: the members in their order, with their widths.  *)

fw_msg_hdr == <<<<"magic", 4>>, <<"msg_type", 2>>, <<"msg_len", 2>>, <<"seq", 4>>>>

fw_ddos_event == <<<<"af", 1>>, <<"reason", 32>>, <<"rate_pps", 4>>, <<"addr", 16>>>>

fw_ban_state_change ==
  <<<<"action", 1>>, <<"af", 1>>, <<"prefix_len", 1>>, <<"duration_secs", 4>>, <<"addr", 16>>,
    <<"reason", 32>>, <<"jail_name", 32>>, <<"packets_dropped", 8>>, <<"packets_accepted", 8>>,
    <<"current_bans", 4>>, <<"whitelist_count", 4>>>>

fw_whitelist_state_change ==
  <<<<"action", 1>>, <<"af", 1>>, <<"prefix_len", 1>>, <<"addr", 16>>, <<"device", 16>>,
    <<"whitelist_count", 4>>>>

fw_cmd_result == <<<<"original_cmd", 2>>, <<"pad", 2>>, <<"error_code", 4>>, <<"af", 1>>, <<"addr", 16>>>>

fw_config_ack == <<<<"applied_flags", 4>>, <<"rejected_flags", 4>>>>

fw_config_change ==
  <<<<"flags", 4>>, <<"ban_time", 4>>, <<"rate_window_seconds", 4>>, <<"max_packets_per_second", 8>>,
    <<"max_bytes_per_second", 8>>, <<"max_syn_per_second", 8>>, <<"max_udp_per_second", 8>>,
    <<"max_icmp_per_second", 8>>, <<"max_ack_per_second", 8>>, <<"max_rst_per_second", 8>>,
    <<"max_fin_per_second", 8>>, <<"dynamic_threshold_flags", 4>>, <<"dynamic_threshold_ratio_x100", 4>>,
    <<"baseline_pps", 8>>, <<"baseline_bps", 8>>, <<"ddos_ban_duration", 4>>>>

fw_set_config == fw_config_change

fw_ban_entry ==
  <<<<"af", 1>>, <<"is_permanent", 1>>, <<"prefix_len", 1>>, <<"duration_secs", 4>>, <<"banned_at", 8>>,
    <<"addr", 16>>, <<"jail_name", 32>>, <<"reason", 32>>>>

fw_list_response == <<<<"count", 4>>, <<"total", 4>>, <<"offset", 4>>>>

fw_stats_response ==
  <<<<"current_bans", 8>>, <<"total_bans", 8>>, <<"total_unbans", 8>>, <<"whitelist_count", 8>>,
    <<"packets_dropped", 8>>, <<"packets_accepted", 8>>>>

fw_whitelist_entry == <<<<"af", 1>>, <<"prefix_len", 1>>, <<"addr", 16>>, <<"device", 16>>>>

fw_rate_entry ==
  <<<<"af", 1>>, <<"pad", 3>>, <<"packets", 8>>, <<"bytes", 8>>, <<"syn_packets", 8>>,
    <<"udp_packets", 8>>, <<"icmp_packets", 8>>, <<"ack_packets", 8>>, <<"rst_packets", 8>>,
    <<"fin_packets", 8>>, <<"unique_ports", 4>>, <<"addr", 16>>>>

fw_list_rates_response == fw_list_response \o <<<<"global_pps", 8>>, <<"global_bps", 8>>>>

fw_udp_port_item == <<<<"port", 2>>, <<"packets", 8>>, <<"bytes", 8>>, <<"last_seen_secs", 8>>>>

fw_icmp_type_item ==
  <<<<"type", 1>>, <<"code", 1>>, <<"packets", 8>>, <<"bytes", 8>>, <<"last_seen_secs", 8>>>>

fw_scanner_item == <<<<"af", 1>>, <<"pad", 3>>, <<"addr", 16>>, <<"metric", 4>>, <<"packets", 8>>>>

fw_analysis_response ==
  <<<<"pkt_sizes", 5 * 8>>, <<"ttl_dist", 6 * 8>>, <<"ip_frag_total", 8>>, <<"ip_frag_count", 8>>,
    <<"udp_port_count", 4>>, <<"udp_port_capacity", 4>>, <<"udp_ports", 64 * 26>>,
    <<"icmp_type_count", 4>>, <<"icmp_type_capacity", 4>>, <<"icmp_types", 64 * 26>>,
    <<"port_scan_count", 4>>, <<"port_scan_threshold", 4>>, <<"port_scanners", 20 * 32>>,
    <<"service_probe_count", 4>>, <<"service_probe_threshold", 4>>, <<"service_probes", 20 * 32>>>>

fw_daemon_register_ack == <<<<"accepted", 1>>>>
fw_ban_ip == <<<<"af", 1>>, <<"prefix_len", 1>>, <<"duration_secs", 4>>, <<"addr", 16>>, <<"reason", 32>>>>
fw_set_protected_ports == <<<<"count", 4>>, <<"bitmap", 8192>>>>
fw_list_query == <<<<"offset", 4>>, <<"limit", 4>>>>
fw_add_whitelist == <<<<"af", 1>>, <<"prefix_len", 1>>, <<"addr", 16>>, <<"device", 16>>>>

-----------------------------------------------------------------------------
(* What both sides say about the messages as a whole.                       *)

Type ==
  [DdosEvent |-> 1, BanIp |-> 2, UnbanIp |-> 3, SetConfig |-> 4, BanStateChange |-> 5,
   ListBansQuery |-> 6, ListBansResponse |-> 7, StatsQuery |-> 8, StatsResponse |-> 9,
   ListWhitelistQuery |-> 10, ListWhitelistResponse |-> 11, AddWhitelist |-> 12,
   RemoveWhitelist |-> 13, ConfigAck |-> 14, ListRatesQuery |-> 15, ListRatesResponse |-> 16,
   WhitelistStateChange |-> 17, CmdResult |-> 18, ConfigChange |-> 19, AnalysisQuery |-> 20,
   AnalysisResponse |-> 21, DaemonRegister |-> 22, DaemonRegisterAck |-> 23, SetProtectedPorts |-> 24]

\* the daemon's table of messages: size and fields, and for a page its entries
wireLayouts ==
  [DdosEvent |-> <<65, DdosEvent>>, BanStateChange |-> <<123, BanStateChange>>,
   WhitelistStateChange |-> <<51, WhitelistStateChange>>, CmdResult |-> <<37, CmdResult>>,
   ConfigAck |-> <<20, ConfigAck>>, ConfigChange |-> <<116, ConfigChange>>,
   ListBansResponse |-> <<24, ListBansResponse>>, StatsResponse |-> <<60, StatsResponse>>,
   ListWhitelistResponse |-> <<24, ListWhitelistResponse>>,
   ListRatesResponse |-> <<40, ListRatesResponse>>, AnalysisResponse |-> <<4756, AnalysisResponse>>,
   DaemonRegisterAck |-> <<13, DaemonRegisterAck>>, BanIp |-> <<66, BanIp>>, UnbanIp |-> <<66, BanIp>>,
   SetConfig |-> <<116, SetConfig>>, SetProtectedPorts |-> <<8208, SetProtectedPorts>>,
   ListBansQuery |-> <<20, ListQuery>>, ListWhitelistQuery |-> <<20, ListQuery>>,
   ListRatesQuery |-> <<20, ListQuery>>, AddWhitelist |-> <<46, AddWhitelist>>,
   RemoveWhitelist |-> <<46, AddWhitelist>>, StatsQuery |-> <<12, HeaderOnly>>,
   AnalysisQuery |-> <<12, HeaderOnly>>, DaemonRegister |-> <<12, HeaderOnly>>]

tailElems ==
  [ListBansResponse |-> <<95, BanEntry>>, ListWhitelistResponse |-> <<34, WhitelistEntry>>,
   ListRatesResponse |-> <<88, RateEntry>>]

Structure ==
  [DdosEvent |-> fw_ddos_event, BanStateChange |-> fw_ban_state_change,
   WhitelistStateChange |-> fw_whitelist_state_change, CmdResult |-> fw_cmd_result,
   ConfigAck |-> fw_config_ack, ConfigChange |-> fw_config_change, ListBansResponse |-> fw_list_response,
   StatsResponse |-> fw_stats_response, ListWhitelistResponse |-> fw_list_response,
   ListRatesResponse |-> fw_list_rates_response, AnalysisResponse |-> fw_analysis_response,
   DaemonRegisterAck |-> fw_daemon_register_ack, BanIp |-> fw_ban_ip, UnbanIp |-> fw_ban_ip,
   SetConfig |-> fw_set_config, SetProtectedPorts |-> fw_set_protected_ports,
   ListBansQuery |-> fw_list_query, ListWhitelistQuery |-> fw_list_query, ListRatesQuery |-> fw_list_query,
   AddWhitelist |-> fw_add_whitelist, RemoveWhitelist |-> fw_add_whitelist,
   StatsQuery |-> <<>>, AnalysisQuery |-> <<>>, DaemonRegister |-> <<>>]

EntryStructure ==
  [ListBansResponse |-> fw_ban_entry, ListWhitelistResponse |-> fw_whitelist_entry,
   ListRatesResponse |-> fw_rate_entry]

Page == DOMAIN tailElems
Message == DOMAIN Type

\* the messages the daemon's reactor decodes: all that the kernel sends
decodeIncoming ==
  {"DdosEvent", "BanStateChange", "WhitelistStateChange", "CmdResult", "ConfigAck", "ConfigChange",
   "StatsResponse", "ListBansResponse", "ListWhitelistResponse", "ListRatesResponse",
   "AnalysisResponse", "DaemonRegisterAck"}
FromDaemon == Message \ decodeIncoming

\* the arrays inside AnalysisResponse: elements, width of one, its fields
GoArrays ==
  [pkt_sizes |-> <<5, 8, HeaderOnly>>, ttl_dist |-> <<6, 8, HeaderOnly>>,
   udp_ports |-> <<64, 26, UdpPortItem>>, icmp_types |-> <<64, 26, IcmpTypeItem>>,
   port_scanners |-> <<20, 32, ScannerItem>>, service_probes |-> <<20, 32, ScannerItem>>]

-----------------------------------------------------------------------------
Members(s) == {s[i][1] : i \in DOMAIN s}
SizeBefore(s, i) == MapThenSumSet(LAMBDA j : s[j][2], 1 .. i - 1)
SizeOf(s) == SizeBefore(s, Len(s) + 1)

\* the places a packed structure gives its members, when it begins at base
Packed(s, base) ==
  [f \in Members(s) |-> LET i == CHOOSE j \in DOMAIN s : s[j][1] = f
                        IN  <<base + SizeBefore(s, i), s[i][2]>>]

CArrays ==
  [pkt_sizes |-> <<5, 8, HeaderOnly>>, ttl_dist |-> <<6, 8, HeaderOnly>>,
   udp_ports |-> <<64, SizeOf(fw_udp_port_item), Packed(fw_udp_port_item, 0)>>,
   icmp_types |-> <<64, SizeOf(fw_icmp_type_item), Packed(fw_icmp_type_item, 0)>>,
   port_scanners |-> <<20, SizeOf(fw_scanner_item), Packed(fw_scanner_item, 0)>>,
   service_probes |-> <<20, SizeOf(fw_scanner_item), Packed(fw_scanner_item, 0)>>]

\* <<path, offset, width>> of every value in a layout, array elements one by one
Places(l, arrays) ==
  UNION {IF f \notin DOMAIN arrays THEN {<<<<f>>, l[f][1], l[f][2]>>}
         ELSE LET n == arrays[f][1]  w == arrays[f][2]  item == arrays[f][3]
              IN  IF item = HeaderOnly
                    THEN {<<<<f, i>>, l[f][1] + i * w, w>> : i \in 0 .. n - 1}
                    ELSE {<<<<f, i, g>>, l[f][1] + i * w + item[g][1], item[g][2]>> :
                            i \in 0 .. n - 1, g \in DOMAIN item}
         : f \in DOMAIN l}

\* of the entries of a page, the first and the last are followed
Sampled(n) == IF n = 0 THEN {} ELSE {0, n - 1}
EntryPlaces(l, fixed, width, n) ==
  {<<<<"entry", i, g>>, fixed + i * width + l[g][1], l[g][2]>> : i \in Sampled(n), g \in DOMAIN l}

GoPlaces(m, n) ==
  Places(wireLayouts[m][2], GoArrays)
    \cup IF m \in Page THEN EntryPlaces(tailElems[m][2], wireLayouts[m][1], tailElems[m][1], n) ELSE {}
GoSize(m, n) == wireLayouts[m][1] + IF m \in Page THEN n * tailElems[m][1] ELSE 0

\* the kernel assigns every member of the structure of its message; for the
\* entries of a page this is the loop over the rows
fw_nl_send_event(m) == Members(Structure[m])
\* slip: the padding of an entry is not cleared
fw_nl_send_entry_NoPad(m) == Members(EntryStructure[m]) \ {"pad"}

fw_nl_send_entry(m) == Members(EntryStructure[m])

CSize(m, n) == HdrLen + SizeOf(Structure[m]) + IF m \in Page THEN n * SizeOf(EntryStructure[m]) ELSE 0
CPlaces(m, n) ==
  LET all == Packed(Structure[m], HdrLen)
      row == Packed(EntryStructure[m], 0)
  IN  Places(Restrict(all, fw_nl_send_event(m)), CArrays)
        \cup IF m \in Page
               THEN EntryPlaces(Restrict(row, fw_nl_send_entry(m)), CSize(m, 0), SizeOf(EntryStructure[m]), n)
               ELSE {}

-----------------------------------------------------------------------------
(* Texts in fields of fixed width.                                          *)

Bytes(t) == t[1] * t[2]
StringField == {"reason", "jail_name", "device"}
FieldOf(path) == IF Len(path) = 3 THEN path[3] ELSE path[1]

\* slip: one byte too many, the room for the final NUL
ClampFixedString_NoNul(t, n) ==
  IF Bytes(t) <= n THEN t
  ELSE <<(CHOOSE cut \in 0 .. n : cut % t[2] = 0 /\ n - cut < t[2]) \div t[2], t[2]>>

\* at most n - 1 bytes, back to the beginning of a character
ClampFixedString(t, n) ==
  IF Bytes(t) <= n - 1 THEN t
  ELSE <<(CHOOSE cut \in 0 .. n - 1 : cut % t[2] = 0 /\ n - 1 - cut < t[2]) \div t[2], t[2]>>

\* the daemon refuses a text that leaves no room for the final NUL ...
putStr(t, n) == Bytes(t) < n
\* ... the kernel cuts it, if need be inside a character
fw_nl_copy_str(t, n) == <<Min({Bytes(t), n - 1})>>

-----------------------------------------------------------------------------
(* Packets: s describes what is sent, n the entries of a page.              *)

\* the header, at the places the sender's table gives
Header(at, m, len) ==
  LET v == [magic |-> "magic", msg_type |-> Type[m], msg_len |-> len % (MsgLenMax + 1), seq |-> "seq"]
  IN  {<<at[f], v[f]>> : f \in DOMAIN v}

\* what is written for a path: the number of entries, a text, or the path itself
Value(s, path, width, text(_, _)) ==
  IF s.m \in Page /\ path = <<"count">> THEN s.n
  ELSE IF FieldOf(path) \in StringField THEN text(s.text, width) ELSE path

Pieces(s, places, text(_, _)) == {<<<<x[2], x[3]>>, Value(s, x[1], x[3], text)>> : x \in places}

fw_nl_begin(s) ==
  LET len == CSize(s.m, s.n)
  IN  [by |-> "kernel", len |-> len,
       pieces |-> Header(Packed(fw_msg_hdr, 0), s.m, len) \cup Pieces(s, CPlaces(s.m, s.n), fw_nl_copy_str)]

\* UnbanIp has no reason: the daemon's buffer is zero there
Written(m, n) == {x \in GoPlaces(m, n) : m = "UnbanIp" => x[1] # <<"reason">>}

Encode(s) ==
  LET len == GoSize(s.m, s.n)
  IN  [by |-> "daemon", len |-> len,
       pieces |-> Header(MsgHdr, s.m, len) \cup Pieces(s, Written(s.m, s.n), LAMBDA t, w : <<Bytes(t)>>)]

MaxTailEntries(m) == (MsgLenMax - wireLayouts[m][1]) \div tailElems[m][1]

\* Encode returns an error for a text that is too long and for too many entries
CanEncode(s) ==
  /\ \A x \in Written(s.m, s.n) : FieldOf(x[1]) \in StringField => putStr(s.text, x[3])
  /\ s.m \in Page => s.n <= MaxTailEntries(s.m)

Read(p, at) ==
  LET hit == {x \in p.pieces : x[1][1] < at[1] + at[2] /\ at[1] < x[1][1] + x[1][2]}
  IN  IF hit = {} THEN Unset
      ELSE IF \E x \in hit : hit = {x} /\ x[1] = at THEN (CHOOSE x \in hit : TRUE)[2] ELSE Torn

ReadAll(p, places) ==
  [path \in {x[1] : x \in places} |-> LET x == CHOOSE y \in places : y[1] = path IN Read(p, <<x[2], x[3]>>)]

-----------------------------------------------------------------------------
(* Sending.                                                                 *)

fw_nl_page(limit, max) == Min({IF limit = 0 THEN 256 ELSE limit, max})
PAGE_MAX == [ListBansResponse |-> 689, ListWhitelistResponse |-> 1926, ListRatesResponse |-> 744]

\* the rows of a page: offset and limit of the query against the table
Rows(m, total, offset, limit) ==
  IF m \notin Page \/ offset >= total THEN 0 ELSE Min({fw_nl_page(limit, PAGE_MAX[m]), total - offset})

Idle == packet = None /\ got = None

KernelSends ==
  /\ Idle
  /\ \E m \in decodeIncoming, t \in Text, total \in Total, offset \in Offset, limit \in Limit :
       /\ m \notin Page => total = Max(Total) /\ offset = Max(Offset) /\ limit = Max(Limit)
       /\ LET s == [m |-> m, text |-> t, n |-> Rows(m, total, offset, limit), intact |-> TRUE]
          IN  sent' = s /\ packet' = fw_nl_begin(s)
  /\ UNCHANGED got

DaemonEncodes(s, e) ==
  /\ sent' = s
  /\ IF CanEncode(e) THEN packet' = Encode(e) /\ UNCHANGED got
     ELSE got' = [how |-> "refused", fields |-> <<>>] /\ UNCHANGED packet

\* the client clamps the reason of a ban, and nothing else
DaemonSends ==
  /\ Idle
  /\ \E m \in FromDaemon, t \in Text :
       LET s == [m |-> m, text |-> t, n |-> 0, intact |-> TRUE]
       IN  DaemonEncodes(s, IF m = "BanIp" THEN [s EXCEPT !.text = ClampFixedString(t, 32)] ELSE s)

\* the daemon's encoders of the kernel's messages, as its tests use them
PeerSends ==
  /\ Idle
  /\ \E m \in decodeIncoming, t \in Text :
       \E n \in IF m \in Page THEN {0, 1, MaxTailEntries(m), MaxTailEntries(m) + 1} ELSE {0} :
         LET s == [m |-> m, text |-> t, n |-> n, intact |-> TRUE] IN DaemonEncodes(s, s)

\* A packet that is not what the header says: cut by a short buffer, or the
\* length, the count or the magic number of another version or program
Damage ==
  /\ packet # None /\ got = None /\ sent.intact
  /\ sent' = [sent EXCEPT !.intact = FALSE]
  /\ LET Set(f, v) == {x \in packet.pieces : x[1] # MsgHdr[f]} \cup {<<MsgHdr[f], v>>}
         CutTo(k) == {x \in packet.pieces : x[1][1] + x[1][2] <= k}
     IN  \/ packet.len > 0 /\ packet' = [packet EXCEPT !.len = @ - 1, !.pieces = CutTo(packet.len - 1)]
         \/ packet' = [packet EXCEPT !.len = @ + 1, !.pieces = Set("msg_len", packet.len + 1)]
         \/ packet' = [packet EXCEPT !.pieces = Set("magic", "foreign")]
         \/ /\ sent.m \in Page
            /\ packet' = [packet EXCEPT !.len = @ + tailElems[sent.m][1],
                                        !.pieces = Set("msg_len", packet.len + tailElems[sent.m][1])]
  /\ UNCHANGED got

-----------------------------------------------------------------------------
(* Receiving.                                                               *)

ParseHeader(p) ==
  /\ p.len >= HdrLen
  /\ Read(p, MsgHdr.magic) = "magic"
  /\ Read(p, MsgHdr.msg_len) = p.len

\* the router's own look at the header, before it knows which decoder to call
decodeHeader(p) ==
  /\ p.len >= HdrLen
  /\ Read(p, <<0, 4>>) = "magic"
  /\ Read(p, <<6, 2>>) = p.len

\* the decoders of all messages but pages: the size is that of the type
DecodeFixed(p, m) == ParseHeader(p) /\ p.len = wireLayouts[m][1]

\* how many entries the length leaves room for
TailEntries(p, m) == (p.len - wireLayouts[m][1]) \div tailElems[m][1]

\* slip: the count is not compared with the length
DecodePage_NoCount(p, m) ==
  /\ ParseHeader(p)
  /\ p.len >= wireLayouts[m][1]
  /\ (p.len - wireLayouts[m][1]) % tailElems[m][1] = 0

DecodePage(p, m) ==
  /\ ParseHeader(p)
  /\ p.len >= wireLayouts[m][1]
  /\ (p.len - wireLayouts[m][1]) % tailElems[m][1] = 0
  /\ Read(p, ListBansResponse.count) = TailEntries(p, m)

\* the fields that the decoders leave alone
Unread(m) == {"pad"} \cup IF m = "UnbanIp" THEN {"duration_secs", "reason"} ELSE {}

Reject == got' = [how |-> "rejected", fields |-> <<>>]

DaemonReceives ==
  /\ packet # None /\ got = None /\ sent.m \in decodeIncoming
  /\ IF decodeHeader(packet)
       THEN \E m \in decodeIncoming :
              /\ Type[m] = Read(packet, <<4, 2>>)
              /\ IF IF m \in Page THEN DecodePage(packet, m) ELSE DecodeFixed(packet, m)
                   THEN got' = [how |-> "read",
                                fields |-> ReadAll(packet, {x \in GoPlaces(m, IF m \in Page THEN TailEntries(packet, m) ELSE 0) :
                                                              FieldOf(x[1]) \notin Unread(m)})]
                   ELSE Reject
       ELSE Reject
  /\ UNCHANGED <<sent, packet>>

\* the kernel looks at the length of the payload, not at msg_len; a query
\* that is too short is answered with the first page
fw_nl_recv_msg ==
  /\ packet # None /\ got = None /\ sent.m \in FromDaemon
  /\ LET hdr == Packed(fw_msg_hdr, 0)
     IN  IF packet.len < HdrLen \/ Read(packet, hdr.magic) # "magic" THEN Reject
         ELSE \E m \in FromDaemon :
                /\ Type[m] = Read(packet, hdr.msg_type)
                /\ IF packet.len >= CSize(m, 0)
                     THEN got' = [how |-> "read",
                                  fields |-> ReadAll(packet, {x \in CPlaces(m, 0) :
                                                FieldOf(x[1]) \notin Unread(m) /\ ~(m = "SetProtectedPorts" /\ x[1] = <<"count">>)})]
                     ELSE Reject
  /\ UNCHANGED <<sent, packet>>

Forget == got # None /\ packet' = None /\ got' = None /\ sent' = None

Init == sent = None /\ packet = None /\ got = None
Next == KernelSends \/ DaemonSends \/ PeerSends \/ Damage \/ DaemonReceives \/ fw_nl_recv_msg \/ Forget
Spec == Init /\ [][Next]_vars

-----------------------------------------------------------------------------
\* the bytes of the text that must arrive in a field of w bytes: of a reason
\* for a ban as many whole characters as fit, of the kernel's texts the bytes
Arrives(s, w) ==
  IF s.m = "BanIp" THEN s.text[2] * Min({s.text[1], (w - 1) \div s.text[2]})
  ELSE Min({Bytes(s.text), w - 1})

\* What one side writes the other reads, field by field, though the two
\* compute the places differently; no ban stays behind because its reason is
\* too long (ClampFixedString), and a page of any table fits msg_len.
Delivered ==
  got # None /\ sent.intact =>
    CASE got.how = "read" ->
           \A path \in DOMAIN got.fields :
             got.fields[path] =
               IF sent.m \in Page /\ path = <<"count">> THEN sent.n
               ELSE IF FieldOf(path) \in StringField
                      THEN <<Arrives(sent, IF FieldOf(path) = "device" THEN 16 ELSE 32)>>
                      ELSE path
      [] got.how = "refused" ->
           \/ sent.m # "BanIp" /\ Bytes(sent.text) >= 16
           \/ sent.m \in Page /\ sent.n > MaxTailEntries(sent.m)
      [] got.how = "rejected" -> FALSE

\* The kernel's buffers are not cleared: every byte of its messages is one it
\* has written (fw_netlink.c: fixed fields carry no remains of other memory).
\* A range begins where another ends, except at the ends of the packet and
\* around the entries of a page that are not followed.
NoGarbage ==
  packet # None /\ packet.by = "kernel" /\ sent.intact =>
    LET first == {x[1][1] : x \in packet.pieces}
        next == {x[1][1] + x[1][2] : x \in packet.pieces}
        gap == sent.m \in Page /\ sent.n > 2
    IN  /\ first \ next = {0} \cup IF gap THEN {CSize(sent.m, sent.n - 1)} ELSE {}
        /\ next \ first = {packet.len} \cup IF gap THEN {CSize(sent.m, 1)} ELSE {}

\* A packet whose length or count is not that of its type is never taken
\* for a message: ParseHeader and the decoders' checks ("accepting a
\* truncated one silently would read shifted fields as legal values").
DamagedIsRejected ==
  got # None /\ ~sent.intact /\ sent.m \in decodeIncoming => got.how = "rejected"
=============================================================================
