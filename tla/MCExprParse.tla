----------------------------- MODULE MCExprParse -----------------------------
EXTENDS ExprParse

MCNames == {"a"}
MCBinToks == {"&&", "==", "+", "-", "*"}
MCUnToks == {"-", "!", "*"}
MCPostfix == {"[", "("}
====
