--------------------------- MODULE MCDhcpConfLoops ---------------------------
(* Every file of up to four lines of every kind the code tells apart, a     *)
(* commented one and one of an unrelated line included.                     *)
EXTENDS DhcpConfLoops

MCFileLines ==
    { ConfLine("builtin", << >>),
      ConfLine("interface", << "brlan0" >>),
      Comment(ConfLine("interface", << "brlan0" >>)),
      ConfLine("no-dhcp-interface", << "brlan0" >>),
      ConfLine("dhcp-range", << "", "p0", "" >>),
      Comment(ConfLine("dhcp-range", << "", "p0", "" >>)) }

MCUnread == { ConfLine("", << >>), ConfLine("builtin", << >>) }
=============================================================================
