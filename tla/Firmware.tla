------------------------------ MODULE Firmware ------------------------------
(***************************************************************************)
(* What the kernel takes from the ACPI tables (acpi_tables.c): the timer   *)
(* of the FADT, the HPET, and the IOAPICs and interrupt overrides of the   *)
(* MADT; and the entry ioapic_unmask_irq makes of them.                    *)
(*                                                                         *)
(* A firmware is [rsdp, revision, rsdt, xsdt]: is there a root pointer,    *)
(* which revision has it, and the tables each of the two lists points to.  *)
(* A table has a signature; an entry of a MADT has a type and a length,    *)
(* which is not 0.                                                         *)
(* Checksums are computed and their errors printed only.                   *)
(***************************************************************************)
EXTENDS Integers, Sequences

NoTable == [signature |-> "none"]

\* Mutant: the RSDT is read whatever the revision.
find_sdt_rsdt(fw, signature) ==
    LET found == SelectSeq(fw.rsdt, LAMBDA t : t.signature = signature)
    IN  IF found = <<>> THEN NoTable ELSE Head(found)

\* The first table of that name in the list the revision calls for
acpi_find_sdt(fw, signature) ==
    LET list  == IF fw.revision < 2 THEN fw.rsdt ELSE fw.xsdt
        found == SelectSeq(list, LAMBDA t : t.signature = signature)
    IN  IF found = <<>> THEN NoTable ELSE Head(found)

\* The address space of the ACPI timer; "none" also when its address is 0
acpi_parse_fadt(fw) ==
    LET fadt == acpi_find_sdt(fw, "FACP")
    IN  IF fadt = NoTable THEN "none"
        ELSE IF fadt.xPMTimerBlock # 0
        THEN IF fadt.space \in {"mmio", "port"} THEN fadt.space ELSE "none"
        ELSE IF fadt.pmTimerBlock # 0 THEN "port" ELSE "none"

acpi_parse_hpet(fw) == acpi_find_sdt(fw, "HPET") # NoTable

MADTEntryHeader == 2      \* its size

\* The entries up to the first that does not end within the table
MadtEntries(madt) ==
    LET e        == madt.entries
        end[k \in 0..Len(e)] == IF k = 0 THEN 0 ELSE end[k - 1] + e[k].length
        fits(k)  == end[k - 1] + MADTEntryHeader <= madt.length /\ end[k] <= madt.length
        n        == CHOOSE n \in 0..Len(e) : /\ \A k \in 1..n : fits(k)
                                             /\ n = Len(e) \/ ~fits(n + 1)
    IN  SubSeq(e, 1, n)

\* Both lists keep the order of the table.
acpi_parse_madt(fw) ==
    LET madt == acpi_find_sdt(fw, "APIC")
        e    == IF madt = NoTable THEN <<>> ELSE MadtEntries(madt)
    IN  [ioapics  |-> SelectSeq(e, LAMBDA x : x.type = "ioapic"),
         overides |-> SelectSeq(e, LAMBDA x : x.type = "override" /\ x.irq # x.gsi)]

NoAcpi == [timer |-> "none", hpet |-> FALSE, ioapics |-> <<>>, overides |-> <<>>]

\* setup_acpi, without what it maps
AcpiTables(fw) ==
    IF ~fw.rsdp THEN NoAcpi
    ELSE LET madt == acpi_parse_madt(fw)
         IN  [timer |-> acpi_parse_fadt(fw), hpet |-> acpi_parse_hpet(fw),
              ioapics |-> madt.ioapics, overides |-> madt.overides]

NoEntry == [ioapic |-> 0, index |-> 0]

\* The redirection entry ioapic_unmask_irq writes.  The version register of an
\* IOAPIC, last[id], holds its last index.
ioapic_unmask_irq(acpi, last, irq) ==
    LET overides   == SelectSeq(acpi.overides, LAMBDA x : x.irq = irq)
        actual_irq == IF overides = <<>> THEN irq ELSE Head(overides).gsi % 256
        ioapics    == SelectSeq(acpi.ioapics, LAMBDA x :
                          actual_irq >= x.gsib /\ actual_irq < x.gsib + last[x.id])
    IN  IF ioapics = <<>> THEN NoEntry ELSE [ioapic |-> Head(ioapics).id, index |-> actual_irq]
=============================================================================
