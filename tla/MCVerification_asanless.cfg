SPECIFICATION Spec
CONSTANTS
    orig = orig
    fixed = fixed
    sound = sound
    fragile = fragile
    asanless = asanless
    plainless = plainless
    broken = broken
    Verifiers = {v1, v2}
    Trees <- MCTrees
    AsanBuilds = {orig, fixed, sound, fragile, plainless}
    PlainBuilds = {orig, fixed, sound, fragile, asanless}
    AsanClean <- MCAsanClean
    PlainExits <- MCPlainExits
    MaxOnDisk = 3
    IntRange = 256
    SizeRange = 512
    MaxBytes = 64
    Unpatched = {orig}
    Patched = {fixed, sound}
    Samples = 16
    SampleSize = 17
SYMMETRY Symmetry
INVARIANTS
    CertifiedWasReplayed
