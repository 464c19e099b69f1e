\* Three bytes, two rows.
SPECIFICATION IntColumnSpec
CONSTANTS
    Byte <- Bytes
    MaxRows = 2
INVARIANTS
    IntAsStored
