CONSTANT MaxInterrupts = 2
SPECIFICATION Spec
INVARIANTS TypeOK OptionsRestored FormatAsAsked
