----------------------------- MODULE MCDrivers -----------------------------
(* Two drivers, one of which imports the other, on one device.             *)
EXTENDS DriverLifecycle

MCImports == [n \in {"disk", "net"} |-> IF n = "net" THEN {"disk"} ELSE {}]
MCPermissions == [n \in {"disk", "net"} |->
                    IF n = "net" THEN {"INTERRUPT"} ELSE {"INTERRUPT", "PCI", "DMA"}]
=============================================================================
