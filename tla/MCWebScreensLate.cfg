SPECIFICATION ScreenSpec
CONSTANTS
    Rows = {r1, r2}
    Texts = {a, b}
    Browsers = {c1, c2}
    Blank = Blank
INVARIANTS
    BrowsersShowSnapshot
