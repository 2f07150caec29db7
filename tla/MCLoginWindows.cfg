\* Two windows of one browser, three sessions, the captcha switched on.
SPECIFICATION Spec
CONSTANTS
    TGT = {t1, t2, t3}
    LT = {l1, l2}
    Window = {w1, w2}
    None = None
    CaptchaEnabled = TRUE
    MaxSnapshots = 2
SYMMETRY Symmetry
CHECK_DEADLOCK FALSE
INVARIANTS TypeOK NoOtherOrphans CaptchaGuardsSession OneLoginPerTicket
